---------------------------- MODULE DesktopProofs ----------------------------
(***************************************************************************)
(* Safety of the components that share the process and nothing else, for   *)
(* every value of their constants.  A step of Desktop is one of a single   *)
(* component, and leaves the others alone; so each part below proves an    *)
(* inductive invariant of one component, whose steps are its own.          *)
(***************************************************************************)
EXTENDS Desktop, SequenceTheorems, FiniteSetTheorems, WellFoundedInduction, TLAPS

-----------------------------------------------------------------------------
(* Data                                                                    *)

\* The least of some numbers.
LEMMA LeastOfSome ==
    ASSUME NEW S \in SUBSET Nat, S # {}
    PROVE  Min(S) \in S /\ \A i \in S : Min(S) <= i
<1>1. PICK m \in S : \A i \in S : <<i, m>> \notin OpToRel(<, Nat)
  BY NatLessThanWellFounded, WFMin
<1>2. \A i \in S : ~(i < m) /\ i \in Nat /\ m \in Nat
  BY <1>1 DEF OpToRel
<1>3. m \in S /\ \A i \in S : m <= i
  BY <1>2
<1>. QED BY <1>3 DEF Min

-----------------------------------------------------------------------------
(* The components                                                          *)

\* The steps of Desktop, as steps of all components.
LEMMA StepOfEach ==
    ASSUME [DesktopNext]_desktopVars
    PROVE  /\ [SensorsNext]_sensorVars /\ [SettingsNext]_settingsVars
           /\ [MetricListNext]_metricVars /\ [AlertsNext]_alertVars
           /\ [HistoryNext]_historyVars /\ [HotkeysNext]_hotkeyVars
           /\ [LhmConfigNext]_lhmConfigVars
  BY DEF DesktopNext, desktopVars, Only, OnlySensors, OnlySettings, OnlyMetricList,
         OnlyAlerts, OnlyHistory, OnlyHotkeys, OnlyLhmConfig

LEMMA InitOfEach ==
    ASSUME DesktopInit
    PROVE  SensorsInit /\ SettingsInit /\ MetricListInit /\ AlertsInit /\ HistoryInit
           /\ HotkeysInit /\ LhmConfigInit
  BY DEF DesktopInit

\* A behaviour of Desktop is one of every component.
LEMMA BehaviourOfEach ==
    DesktopSpec =>
        /\ SensorsInit /\ SettingsInit /\ AlertsInit /\ HistoryInit
        /\ HotkeysInit /\ LhmConfigInit /\ MetricListInit
        /\ [][SensorsNext]_sensorVars /\ [][SettingsNext]_settingsVars
        /\ [][MetricListNext]_metricVars /\ [][AlertsNext]_alertVars
        /\ [][HistoryNext]_historyVars /\ [][HotkeysNext]_hotkeyVars
        /\ [][LhmConfigNext]_lhmConfigVars
<1>1. DesktopInit => SensorsInit /\ SettingsInit /\ MetricListInit /\ AlertsInit
                     /\ HistoryInit /\ HotkeysInit /\ LhmConfigInit
  BY InitOfEach
<1>2. [DesktopNext]_desktopVars =>
        /\ [SensorsNext]_sensorVars /\ [SettingsNext]_settingsVars
        /\ [MetricListNext]_metricVars /\ [AlertsNext]_alertVars
        /\ [HistoryNext]_historyVars /\ [HotkeysNext]_hotkeyVars
        /\ [LhmConfigNext]_lhmConfigVars
  BY StepOfEach
<1>. QED BY <1>1, <1>2, PTL DEF DesktopSpec

-----------------------------------------------------------------------------
(* Sensors                                                                 *)

\* What a name and a kind say of a reading of any adapter but those of the GPUs
\* and of LibreHardwareMonitor.
DeviceNamed(sensor) ==
    CASE sensor.category = "cpu/core" -> <<"core", sensor.instance>>
      [] sensor.category = "cpu" -> <<"package">>
      [] sensor.category = "ram" -> <<"ram">>
      [] sensor.category = "drive" /\ adapter = "sysinfo" -> <<"volume", sensor.instance>>
      [] sensor.category = "drive" /\ adapter = "pdh" -> <<"disk", sensor.instance>>
      [] sensor.category = "process" -> <<"process", sensor.instance>>
      [] sensor.category = "uptime" -> <<"system">>
      [] sensor.category = "battery" -> <<"battery", sensor.instance>>
      [] sensor.category = "nic" -> <<"nic", sensor.instance>>

UnitOfKind ==
    [CpuUtilization |-> "Percent", CpuFrequency |-> "Hertz",
     MemoryUsed |-> "Bytes", MemoryTotal |-> "Bytes", DiskUsed |-> "Bytes",
     DiskTotal |-> "Bytes", ProcessCpuPercent |-> "Percent", ProcessMemoryBytes |-> "Bytes",
     UptimeSeconds |-> "Seconds", BatteryPercent |-> "Percent", BatteryState |-> "Count",
     BatteryPowerRate |-> "Watts", GpuUtilization |-> "Percent", GpuTemperature |-> "Celsius",
     DiskReadBytesPerSec |-> "Bytes", DiskWriteBytesPerSec |-> "Bytes",
     NetRxBytes |-> "Bytes", NetTxBytes |-> "Bytes"]

Told(r) ==
    /\ r = Reading(r.sensor, r.kind, r.unit, r.device)
    /\ r.unit = UnitOfKind[r.kind]
    /\ r.device = DeviceNamed(r.sensor)

LEMMA ReadingsOfOne ==
    ASSUME NEW sensor, NEW units, NEW finite, NEW device,
           NEW r \in Readings(sensor, units, finite, device)
    PROVE  /\ r = Reading(r.sensor, r.kind, r.unit, r.device)
           /\ r.sensor = sensor /\ r.device = device /\ r.kind \in finite
           /\ r.unit = units[r.kind]
  BY DEF Readings, Reading

LEMMA BatteryReading ==
    ASSUME NEW b \in BatterySnapshots, NEW r \in b
    PROVE  \E i \in Slot : /\ r = Reading(SensorId("battery", i), r.kind, r.unit, <<"battery", i>>)
                           /\ r.kind \in DOMAIN BatteryUnit /\ r.unit = BatteryUnit[r.kind]
<1>. DEFINE Found == UNION {[answered -> SUBSET {"BatteryPercent", "BatteryPowerRate"}]
                           : answered \in SUBSET Slot}
<1>0. PICK finite \in Found : b = BatteryReadings(finite)
  BY DEF BatterySnapshots
<1>1. PICK answered \in SUBSET Slot :
        finite \in [answered -> SUBSET {"BatteryPercent", "BatteryPowerRate"}]
  OBVIOUS
<1>2. PICK i \in answered :
        r \in Readings(SensorId("battery", i), BatteryUnit, finite[i] \cup {"BatteryState"},
                       <<"battery", i>>)
  BY <1>0, <1>1 DEF BatteryReadings, BatteryInstance
<1>3. r.kind \in DOMAIN BatteryUnit
  BY <1>1, <1>2, ReadingsOfOne DEF BatteryUnit
<1>. QED BY <1>2, <1>3, ReadingsOfOne

LEMMA PdhReading ==
    ASSUME NEW b \in PdhSnapshots, NEW r \in b
    PROVE  \E d : /\ r = Reading(SensorId("drive", d), r.kind, r.unit, <<"disk", d>>)
                  /\ r.kind \in DOMAIN RateUnit /\ r.unit = RateUnit[r.kind]
<1>1. PICK reads \in SUBSET (Slot \cup {Total}), writes \in SUBSET (Slot \cup {Total}) :
        b = PdhReadings(reads, writes)
  BY DEF PdhSnapshots
<1>2. PICK d \in (reads \cup writes) \ {Total} :
        r \in Readings(SensorId("drive", d), RateUnit, DOMAIN RateUnit, <<"disk", d>>)
  BY <1>1 DEF PdhReadings
<1>. QED BY <1>2, ReadingsOfOne

LEMMA NetReading ==
    ASSUME NEW b \in NetSnapshots, NEW r \in b
    PROVE  \E l : /\ r = Reading(SensorId("nic", l), r.kind, r.unit, <<"nic", l>>)
                  /\ r.kind \in DOMAIN NetUnit /\ r.unit = NetUnit[r.kind]
<1>0. PICK type \in [Slot -> {"loopback", "ethernet"}], status \in [Slot -> {"up", "down"}] :
        b = NetReadings({[luid |-> l, type |-> type[l], oper_status |-> status[l]] : l \in Slot})
  BY DEF NetSnapshots
<1>1. PICK rows : b = NetReadings(rows)
  BY <1>0
<1>2. PICK nic \in rows :
        r \in Readings(SensorId("nic", nic.luid), NetUnit, DOMAIN NetUnit, <<"nic", nic.luid>>)
  BY <1>1 DEF NetReadings
<1>. QED BY <1>2, ReadingsOfOne

LEMMA SysinfoReading ==
    ASSUME adapter = "sysinfo", NEW b \in SysinfoSnapshots, NEW r \in b
    PROVE  Told(r)
<1>. DEFINE Running == UNION {[ps -> {DOMAIN ProcessUnit, {"ProcessMemoryBytes"}}]
                             : ps \in {{}, {1}, Slot}}
<1>0. PICK cores \in [Slot -> SUBSET DOMAIN CoreUnit], volumes \in {{0}, Slot},
           processes \in Running :
        b = SysinfoReadings(cores, volumes, processes)
  BY DEF SysinfoSnapshots
<1>1. /\ b = SysinfoReadings(cores, volumes, processes)
      /\ \A p \in DOMAIN processes : processes[p] \subseteq DOMAIN ProcessUnit
  BY <1>0 DEF ProcessUnit
<1>2. CASE \E i \in Slot : r \in Readings(SensorId("cpu/core", i), CoreUnit, cores[i], <<"core", i>>)
  BY <1>1, <1>2, ReadingsOfOne DEF Told, DeviceNamed, UnitOfKind, CoreUnit, SensorId
<1>3. CASE r = Reading(SensorId("cpu", "package"), "CpuUtilization", "Percent", <<"package">>)
  BY <1>3 DEF Told, DeviceNamed, UnitOfKind, SensorId, Reading
<1>4. CASE r \in Readings(SensorId("ram", "package"), MemoryUnit, DOMAIN MemoryUnit, <<"ram">>)
  BY <1>4, ReadingsOfOne DEF Told, DeviceNamed, UnitOfKind, MemoryUnit, SensorId
<1>5. CASE \E v \in volumes :
             r \in Readings(SensorId("drive", v), DiskUnit, DOMAIN DiskUnit, <<"volume", v>>)
  BY <1>5, ReadingsOfOne DEF Told, DeviceNamed, UnitOfKind, DiskUnit, SensorId
<1>6. CASE \E p \in DOMAIN processes :
             r \in Readings(SensorId("process", p), ProcessUnit, processes[p], <<"process", p>>)
  BY <1>1, <1>6, ReadingsOfOne DEF Told, DeviceNamed, UnitOfKind, ProcessUnit, SensorId
<1>7. CASE r = Reading(SensorId("uptime", ""), "UptimeSeconds", "Seconds", <<"system">>)
  BY <1>7 DEF Told, DeviceNamed, UnitOfKind, SensorId, Reading
<1>8. CASE r \in UNION {Readings(SensorId("cpu/core", i), CoreUnit, cores[i], <<"core", i>>)
                       : i \in DOMAIN cores}
  BY <1>2, <1>8
<1>9. CASE r \in UNION {Readings(SensorId("drive", v), DiskUnit, DOMAIN DiskUnit, <<"volume", v>>)
                       : v \in volumes}
  BY <1>5, <1>9
<1>10. CASE r \in UNION {Readings(SensorId("process", p), ProcessUnit, processes[p],
                                 <<"process", p>>) : p \in DOMAIN processes}
  BY <1>6, <1>10
<1>. DEFINE Package == IF \E i \in DOMAIN cores : "CpuUtilization" \in cores[i]
                       THEN {Reading(SensorId("cpu", "package"), "CpuUtilization", "Percent",
                                     <<"package">>)}
                       ELSE {}
            Uptime == {Reading(SensorId("uptime", ""), "UptimeSeconds", "Seconds", <<"system">>)}
<1>11. r \in Package => Told(r)
  BY <1>3
<1>12. r \in Uptime => Told(r)
  BY <1>7
<1>. DEFINE Cores == UNION {Readings(SensorId("cpu/core", i), CoreUnit, cores[i], <<"core", i>>)
                       : i \in DOMAIN cores}
            Volumes == UNION {Readings(SensorId("drive", v), DiskUnit, DOMAIN DiskUnit,
                                       <<"volume", v>>) : v \in volumes}
            Pids == UNION {Readings(SensorId("process", p), ProcessUnit, processes[p],
                                    <<"process", p>>) : p \in DOMAIN processes}
            Ram == Readings(SensorId("ram", "package"), MemoryUnit, DOMAIN MemoryUnit, <<"ram">>)
<1>13. b = Cores \cup Package \cup Ram \cup Volumes \cup Pids \cup Uptime
  BY <1>1 DEF SysinfoReadings
<1>14. (r \in Cores => Told(r)) /\ (r \in Volumes => Told(r)) /\ (r \in Pids => Told(r))
  BY <1>8, <1>9, <1>10
<1>15. r \in Ram => Told(r)
  BY <1>4
<1>. HIDE DEF Cores, Package, Ram, Volumes, Pids, Uptime
<1>. QED BY <1>11, <1>12, <1>13, <1>14, <1>15

\* A GPU's name is its position among those that answered.
LEMMA NvmlReading ==
    ASSUME NEW b \in NvmlSnapshots, NEW r \in b
    PROVE  r.sensor.instance \in Slot
<1>1. PICK finite \in [Slot -> SUBSET DOMAIN GpuUnit] : b = NvmlReadings(finite)
  BY DEF NvmlSnapshots
<1>. DEFINE answered == {i \in DOMAIN finite : finite[i] # {}}
<1>2. PICK i \in answered :
        r \in Readings(SensorId("gpu", GpuInstance(i, answered)), GpuUnit, finite[i], <<"gpu", i>>)
  BY <1>1 DEF NvmlReadings
<1>3. GpuInstance(i, answered) \in Slot
  <2>. DEFINE lower == {s \in answered : s < i}
  <2>1. i \in {0, 1} /\ lower \subseteq {0}
    BY <1>1, <1>2 DEF Slot
  <2>2. IsFiniteSet({0}) /\ Cardinality({0}) = 1
    BY FS_Singleton
  <2>3. IsFiniteSet(lower) /\ Cardinality(lower) <= 1
    BY <2>1, <2>2, FS_Subset
  <2>4. Cardinality(lower) \in Nat
    BY <2>3, FS_CardinalityType
  <2>. QED BY <2>3, <2>4 DEF GpuInstance, Slot
<1>. QED BY <1>2, <1>3, ReadingsOfOne DEF SensorId

\* Two GPUs that answered have different names.
LEMMA GpuInstancesDiffer ==
    ASSUME NEW answered \in SUBSET Slot, NEW i \in answered, NEW j \in answered,
           GpuInstance(i, answered) = GpuInstance(j, answered)
    PROVE  i = j
<1>1. CASE answered = Slot
  <2>1. {s \in answered : s < 0} = {} /\ {s \in answered : s < 1} = {0}
    BY <1>1 DEF Slot
  <2>2. GpuInstance(0, answered) = 0 /\ GpuInstance(1, answered) = 1
    BY <2>1, FS_EmptySet, FS_Singleton DEF GpuInstance
  <2>. QED BY <2>2 DEF Slot
<1>2. CASE answered # Slot
  <2>1. Slot = {0, 1}
    BY DEF Slot
  <2>. QED BY <1>2, <2>1
<1>. QED BY <1>1, <1>2

LEMMA NvmlKeys ==
    ASSUME NEW b \in NvmlSnapshots, NEW r \in b, NEW s \in b,
           r.sensor = s.sensor, r.kind = s.kind
    PROVE  r = s
<1>1. PICK finite \in [Slot -> SUBSET DOMAIN GpuUnit] : b = NvmlReadings(finite)
  BY DEF NvmlSnapshots
<1>. DEFINE answered == {i \in DOMAIN finite : finite[i] # {}}
<1>2. PICK i \in answered :
        r \in Readings(SensorId("gpu", GpuInstance(i, answered)), GpuUnit, finite[i], <<"gpu", i>>)
  BY <1>1 DEF NvmlReadings
<1>3. PICK j \in answered :
        s \in Readings(SensorId("gpu", GpuInstance(j, answered)), GpuUnit, finite[j], <<"gpu", j>>)
  BY <1>1 DEF NvmlReadings
<1>4. GpuInstance(i, answered) = GpuInstance(j, answered)
  BY <1>2, <1>3, ReadingsOfOne DEF SensorId
<1>5. i = j
  BY <1>1, <1>4, GpuInstancesDiffer
<1>. QED BY <1>2, <1>3, <1>5, ReadingsOfOne

\* What a call of any adapter but those two can return.
LEMMA SnapshotIsTold ==
    ASSUME adapter \in Adapter \ {"nvml", "ohm"}, NEW b \in Snapshots, NEW r \in b
    PROVE  Told(r)
<1>1. CASE adapter = "sysinfo"
  BY <1>1, SysinfoReading DEF Snapshots
<1>2. CASE adapter = "battery"
  <2>1. PICK i \in Slot : /\ r = Reading(SensorId("battery", i), r.kind, r.unit, <<"battery", i>>)
                          /\ r.kind \in DOMAIN BatteryUnit /\ r.unit = BatteryUnit[r.kind]
    BY <1>2, BatteryReading DEF Snapshots
  <2>. QED BY <1>2, <2>1 DEF Told, DeviceNamed, UnitOfKind, BatteryUnit, SensorId, Reading
<1>3. CASE adapter = "pdh"
  <2>1. PICK d : /\ r = Reading(SensorId("drive", d), r.kind, r.unit, <<"disk", d>>)
                 /\ r.kind \in DOMAIN RateUnit /\ r.unit = RateUnit[r.kind]
    BY <1>3, PdhReading DEF Snapshots
  <2>. QED BY <1>3, <2>1 DEF Told, DeviceNamed, UnitOfKind, RateUnit, SensorId, Reading
<1>4. CASE adapter = "net"
  <2>1. PICK l : /\ r = Reading(SensorId("nic", l), r.kind, r.unit, <<"nic", l>>)
                 /\ r.kind \in DOMAIN NetUnit /\ r.unit = NetUnit[r.kind]
    BY <1>4, NetReading DEF Snapshots
  <2>. QED BY <1>4, <2>1 DEF Told, DeviceNamed, UnitOfKind, NetUnit, SensorId, Reading
<1>. QED BY <1>1, <1>2, <1>3, <1>4 DEF Adapter

\* The batch says what the adapter's names and kinds say of it, and so does every
\* name that was ever given.
BatchIsTold ==
    /\ adapter \notin {"nvml", "ohm"} => \A r \in batch : Told(r)
    /\ adapter \in {"battery", "nvml"} => \A r \in batch : r.sensor.instance \in Slot
    /\ adapter = "nvml" => SameKeySameReading

NamesAreTold ==
    /\ adapter \notin {"nvml", "ohm"} => \A p \in named : p[2] = DeviceNamed(p[1])
    /\ adapter = "ohm" => named = {}

\* The disk counters are primed by a collection.
PrimedByACollection == backend = "primed" => adapter = "pdh" /\ collected >= 1

SensorsState ==
    /\ adapter \in Adapter
    /\ backend \in {"closed", "open", "primed"}
    /\ poisoned \in BOOLEAN
    /\ collected \in 0..MaxReads
    /\ called \in {"none", "returned", "panicked"}
    /\ faulted \in BOOLEAN

SensorsInv ==
    /\ SensorsState /\ BatchIsTold /\ NamesAreTold /\ PrimedByACollection /\ RatesHaveABase

LEMMA SensorsInvInit == SensorsInit => SensorsInv
<1>. SUFFICES ASSUME SensorsInit PROVE SensorsInv
  OBVIOUS
<1>1. backend # "primed" /\ backend \in {"closed", "open", "primed"}
  BY DEF SensorsInit
<1>0. SensorsState
  <2>1. collected \in 0..MaxReads
    BY MaxReadsAssumption DEF SensorsInit
  <2>2. adapter \in Adapter /\ poisoned \in BOOLEAN /\ faulted \in BOOLEAN /\ called = "none"
    BY DEF SensorsInit
  <2>. QED BY <1>1, <2>1, <2>2 DEF SensorsState
<1>2. batch = {} /\ named = {}
  BY DEF SensorsInit
<1>3. BatchIsTold
  BY <1>2 DEF BatchIsTold, SameKeySameReading
<1>4. NamesAreTold
  BY <1>2 DEF NamesAreTold
<1>. QED BY <1>0, <1>1, <1>2, <1>3, <1>4 DEF SensorsInv, PrimedByACollection, RatesHaveABase

LEMMA SensorsInvStep ==
    ASSUME SensorsInv, [SensorsNext]_sensorVars
    PROVE  SensorsInv'
<1>. USE DEF SensorsInv
<1>1. CASE ReadsAll
  <2>0. adapter' = adapter /\ \A sensor : DeviceNamed(sensor)' = DeviceNamed(sensor)
    BY <1>1 DEF ReadsAll, DeviceNamed
  <2>1. SensorsState'
    <3>1. collected' \in 0..MaxReads /\ backend' \in {"closed", "open", "primed"}
      BY <1>1, MaxReadsAssumption DEF ReadsAll, SensorsState
    <3>. QED BY <1>1, <3>1 DEF ReadsAll, SensorsState
  <2>2. batch' = {} \/ (batch' \in Snapshots /\ backend # "closed")
    BY <1>1 DEF ReadsAll
  <2>3. ASSUME adapter \notin {"nvml", "ohm"}, NEW r \in batch'
        PROVE  Told(r)
    BY <2>2, <2>3, SnapshotIsTold DEF SensorsState
  <2>4. adapter \notin {"nvml", "ohm"} => \A r \in batch' : Told(r)'
    BY <2>0, <2>3 DEF Told
  <2>5. ASSUME adapter = "battery", NEW r \in batch'
        PROVE  r.sensor.instance \in Slot
    <3>1. r \in {} \/ batch' \in BatterySnapshots
      BY <2>2, <2>5 DEF Snapshots
    <3>. QED BY <2>5, <3>1, BatteryReading DEF SensorId, Reading
  <2>6. ASSUME adapter = "nvml", NEW r \in batch'
        PROVE  r.sensor.instance \in Slot
    <3>1. r \in {} \/ batch' \in NvmlSnapshots
      BY <2>2, <2>6 DEF Snapshots
    <3>. QED BY <2>6, <3>1, NvmlReading
  <2>11. ASSUME adapter = "nvml"
         PROVE  SameKeySameReading'
    <3>1. batch' = {} \/ batch' \in NvmlSnapshots
      BY <2>2, <2>11 DEF Snapshots
    <3>. QED BY <3>1, NvmlKeys DEF SameKeySameReading
  <2>7. BatchIsTold'
    BY <2>0, <2>4, <2>5, <2>6, <2>11 DEF BatchIsTold
  <2>8. NamesAreTold'
    BY <1>1, <2>0, <2>3 DEF ReadsAll, NamesAreTold, Names, Told
  <2>9. PrimedByACollection'
    BY <1>1, MaxReadsAssumption DEF ReadsAll, PrimedByACollection, SensorsState
  <2>10. RatesHaveABase'
    <3>1. CASE adapter # "pdh"
      BY <2>0, <3>1 DEF RatesHaveABase
    <3>2. CASE adapter = "pdh" /\ batch' # {}
      <4>1. backend = "primed"
        BY <2>2, <3>2 DEF Snapshots, Primed
      <4>2. collected >= 1 /\ collected' = IF collected < MaxReads THEN collected + 1 ELSE collected
        BY <1>1, <3>2, <4>1 DEF ReadsAll, PrimedByACollection
      <4>. QED BY <4>2, MaxReadsAssumption DEF RatesHaveABase, SensorsState
    <3>. QED BY <3>1, <3>2 DEF RatesHaveABase
  <2>. QED BY <2>1, <2>7, <2>8, <2>9, <2>10
<1>2. CASE CollectFails \/ ReadPanics
  <2>0. adapter' = adapter /\ \A sensor : DeviceNamed(sensor)' = DeviceNamed(sensor)
    BY <1>2 DEF CollectFails, ReadPanics, DeviceNamed
  <2>1. SensorsState'
    BY <1>2 DEF CollectFails, ReadPanics, SensorsState, LockIsTaken
  <2>2. BatchIsTold' /\ RatesHaveABase' /\ PrimedByACollection'
    BY <1>2 DEF CollectFails, ReadPanics, BatchIsTold, SameKeySameReading, RatesHaveABase,
                PrimedByACollection
  <2>3. NamesAreTold'
    BY <1>2, <2>0 DEF CollectFails, ReadPanics, NamesAreTold
  <2>. QED BY <2>1, <2>2, <2>3
<1>3. CASE UNCHANGED sensorVars
  <2>0. adapter' = adapter /\ \A sensor : DeviceNamed(sensor)' = DeviceNamed(sensor)
    BY <1>3 DEF sensorVars, DeviceNamed
  <2>1. \A r : Told(r)' = Told(r)
    BY <2>0 DEF Told
  <2>2. BatchIsTold' /\ NamesAreTold'
    BY <1>3, <2>0, <2>1 DEF sensorVars, BatchIsTold, NamesAreTold, SameKeySameReading
  <2>. QED BY <1>3, <2>2 DEF sensorVars, SensorsState, RatesHaveABase, PrimedByACollection
<1>. QED BY <1>1, <1>2, <1>3 DEF SensorsNext

LEMMA SensorsInvHolds == DesktopSpec => []SensorsInv
<1>1. SensorsInv /\ [SensorsNext]_sensorVars => SensorsInv'
  BY SensorsInvStep
<1>. QED BY <1>1, SensorsInvInit, BehaviourOfEach, PTL

\* Disk rates come from two collections of the same query (adapter-pdh
\* backend.rs, primed), whatever calls fail or panic in between.
THEOREM RatesHaveABaseHolds == DesktopSpec => []RatesHaveABase
<1>1. SensorsInv => RatesHaveABase
  BY DEF SensorsInv
<1>. QED BY <1>1, SensorsInvHolds, PTL

\* A name that an adapter gives stands for one device for all its life (the ids
\* that the adapters make, crates/sidebar-adapter-*), but for the GPUs.
THEOREM NamesOneDeviceHolds == DesktopSpec => []NamesOneDevice
<1>1. SensorsInv => NamesOneDevice
  BY DEF SensorsInv, NamesAreTold, NamesOneDevice
<1>. QED BY <1>1, SensorsInvHolds, PTL

\* No two readings of one call have the key under which the GUI keeps history
\* and alerts, but those of LibreHardwareMonitor.
THEOREM KeysAreUniqueHolds == DesktopSpec => []KeysAreUnique
<1>1. SensorsInv => KeysAreUnique
  BY DEF SensorsInv, BatchIsTold, SameKeySameReading, KeysAreUnique, Told
<1>. QED BY <1>1, SensorsInvHolds, PTL

LEMMA SensorsTypeHolds == DesktopSpec => []SensorsTypeOK
<1>1. SensorsInv => SensorsTypeOK
  BY DEF SensorsInv, SensorsState, BatchIsTold, SensorsTypeOK
<1>. QED BY <1>1, SensorsInvHolds, PTL

-----------------------------------------------------------------------------
(* Alerts                                                                  *)

\* The sliders leave the gap between the two marks.
MarksApart ==
    /\ thresholds \in [warn : 40..110, critical : 40..110, mbps : Mbps]
    /\ thresholds.warn + THRESHOLD_GAP <= thresholds.critical

AlertsBounds ==
    now \in 0..MaxNow /\ saveFaults \in 0..MaxSaveFaults /\ starts \in 0..MaxStarts

AlertsState ==
    /\ row \in {"temperature", "rate"}
    /\ latest \in Temperatures \cup Rates \cup {NaN, Gone}
    /\ remembered \in {"Normal", "Warning", "Critical"}
    /\ row = "rate" => remembered = "Normal"
    /\ shownAs \in {"none", "Normal", "Warning", "Critical"}
    /\ open \in BOOLEAN /\ unsaved \in BOOLEAN
    /\ AlertsBounds

AcksAreAcks ==
    /\ ack \in Acks /\ stored \in Acks
    /\ asked \in Acks \cup {[kind |-> "restarted", until |-> 0]}

\* The file has the ack, or a snooze that is over.
FileHasTheAck ==
    ack = stored \/ (ack = NoAck /\ stored.kind = "snoozed" /\ stored.until <= now)

\* An acknowledged temperature is remembered as the alert it was.
AskedIsAcked ==
    asked.kind = "acknowledged" =>
        ack = Acknowledged /\ (row = "temperature" => remembered # "Normal")

\* What is quiet is so because the user asked for it, and the other way round.
AckIsAsked ==
    /\ ack.kind = "acknowledged" => asked.kind \in {"acknowledged", "restarted"}
    /\ ack.kind = "snoozed" /\ now < ack.until => asked = ack
    /\ asked.kind = "snoozed" /\ now < asked.until => ack = asked

AlertsInv ==
    /\ MarksApart /\ AlertsState /\ AcksAreAcks
    /\ ~unsaved => FileHasTheAck /\ AskedIsAcked /\ AckIsAsked

\* The state of a row is a state, it is Normal where the reading has recovered,
\* it is an alert where the reading is over a mark, and a remembered alert goes
\* on until the reading has recovered.
LEMMA StateOfARow ==
    ASSUME MarksApart, AlertsState, latest # Gone
    PROVE  /\ classify \in States
           /\ Recovered => classify = "Normal" /\ "Normal" \in AtLeast
           /\ classify \in AtLeast
           /\ classify = "Normal" =>
                Recovered \/ (row = "temperature" /\ remembered = "Normal")
<1>0. latest \in Nat \/ latest = NaN
  BY AlertsAssumption DEF AlertsState
<1>1. thresholds.warn \in 40..110 /\ thresholds.critical \in 40..110 /\ thresholds.mbps \in Nat
  BY AlertsAssumption DEF MarksApart
<1>2. thresholds.warn + 5 <= thresholds.critical
  BY DEF MarksApart, THRESHOLD_GAP
<1>3. CASE row = "temperature"
  <2>1. CASE latest = NaN
    BY <1>1, <1>3, <2>1 DEF classify, check_threshold, Recovered, AtLeast, States, NaN
  <2>2. CASE latest \in Nat
    <3>0. latest # NaN
      BY <2>2 DEF NaN
    <3>1. CASE latest >= thresholds.critical
      BY <1>1, <1>2, <1>3, <2>2, <3>0, <3>1
      DEF classify, check_threshold, Recovered, AtLeast, States, HYSTERESIS_C
    <3>2. CASE latest < thresholds.critical /\ latest >= thresholds.warn
      <4>1. classify \in {"Critical", "Warning"}
        BY <1>1, <1>2, <1>3, <2>2, <3>0, <3>2 DEF classify, check_threshold
      <4>2. ~Recovered /\ AtLeast = {"Warning", "Critical"}
        BY <1>1, <1>2, <1>3, <2>2, <3>0, <3>2 DEF Recovered, AtLeast, HYSTERESIS_C
      <4>. QED BY <4>1, <4>2 DEF States
    <3>3. CASE latest < thresholds.warn
      <4>1. AtLeast = {"Normal", "Warning", "Critical"}
        BY <1>1, <1>2, <1>3, <2>2, <3>3 DEF AtLeast
      <4>2. classify = IF remembered # "Normal" /\ latest >= thresholds.warn - 5
                       THEN "Warning" ELSE "Normal"
        BY <1>1, <1>2, <1>3, <2>2, <3>0, <3>3 DEF classify, check_threshold, HYSTERESIS_C
      <4>3. Recovered <=> latest < thresholds.warn - 5
        BY <1>1, <1>3, <2>2, <3>0 DEF Recovered, HYSTERESIS_C
      <4>. QED BY <1>1, <1>3, <2>2, <4>1, <4>2, <4>3 DEF States
    <3>. QED BY <1>1, <2>2, <3>1, <3>2, <3>3
  <2>. QED BY <1>0, <2>1, <2>2
<1>4. CASE row = "rate"
  <2>. DEFINE mark == thresholds.mbps * 125000
  <2>0. mark \in Nat /\ (mark = 0 <=> thresholds.mbps = 0) /\ NaN < mark + 1 /\ NaN < 0
    BY <1>1 DEF NaN
  <2>1. CASE mark = 0
    BY <1>4, <2>0, <2>1 DEF classify, Recovered, AtLeast, States
  <2>2. CASE mark # 0 /\ latest < mark
    <3>1. classify = "Normal" /\ Recovered
      BY <1>0, <1>4, <2>0, <2>2 DEF classify, check_threshold, Recovered
    <3>2. AtLeast = {"Normal", "Warning", "Critical"}
      BY <1>4, <2>2 DEF AtLeast
    <3>. QED BY <3>1, <3>2 DEF States
  <2>3. CASE mark # 0 /\ latest >= mark
    <3>1. latest \in Nat /\ latest # NaN
      BY <1>0, <2>0, <2>3 DEF NaN
    <3>2. ~Recovered
      BY <1>4, <2>0, <2>3, <3>1 DEF Recovered
    <3>3. classify = IF latest >= mark + 1 THEN "Critical" ELSE "Warning"
      BY <1>4, <2>0, <2>3, <3>1 DEF classify, check_threshold
    <3>4. AtLeast = IF latest >= mark + 1 THEN {"Critical"} ELSE {"Warning", "Critical"}
      BY <1>4, <2>0, <2>3, <3>1 DEF AtLeast
    <3>. QED BY <3>2, <3>3, <3>4 DEF States
  <2>. QED BY <1>0, <2>0, <2>1, <2>2, <2>3 DEF NaN
<1>. QED BY <1>3, <1>4 DEF AlertsState

LEMMA AlertsInvInit == AlertsInit => AlertsInv
<1>. SUFFICES ASSUME AlertsInit PROVE AlertsInv
  OBVIOUS
<1>1. MarksApart
  BY DEF AlertsInit, MarksApart, THRESHOLD_GAP
<1>0. AlertsBounds
  BY AlertsAssumption DEF AlertsInit, AlertsBounds
<1>2. AlertsState
  BY <1>0 DEF AlertsInit, AlertsState
<1>3. AcksAreAcks
  BY DEF AlertsInit, AcksAreAcks, Acks
<1>4. FileHasTheAck /\ AskedIsAcked /\ AckIsAsked
  BY DEF AlertsInit, FileHasTheAck, AskedIsAcked, AckIsAsked, NoAck
<1>. QED BY <1>1, <1>2, <1>3, <1>4 DEF AlertsInv

\* The kinds of acks.
LEMMA KindsOfAcks ==
    /\ NoAck.kind = "none" /\ Acknowledged.kind = "acknowledged"
    /\ \A t : Snoozed(t).kind = "snoozed" /\ Snoozed(t).until = t
    /\ \A a \in Acks : a.kind \in {"none", "acknowledged", "snoozed"}
    /\ \A a \in Acks : a.kind = "none" => a = NoAck
    /\ \A a \in Acks : a.kind = "acknowledged" => a = Acknowledged
    /\ \A a \in Acks : a.kind = "snoozed" => a.until \in SnoozeTime..now + SnoozeTime
  BY DEF NoAck, Acknowledged, Snoozed, Acks

\* What a frame draws, leaves and is asked for.
LEMMA FrameOfARow ==
    ASSUME AlertsInv, DrawRow
    PROVE  \/ /\ ack' = Left /\ asked' = StillAsked
              /\ shownAs' = displayed_state(classify, Left)
           \/ /\ ack' \in {Acknowledged, Snoozed(now + SnoozeTime)} /\ asked' = ack'
              /\ classify # "Normal" /\ shownAs' = classify
<1>1. CASE ack' = Left /\ asked' = StillAsked
  BY <1>1 DEF DrawRow
<1>2. CASE ack' \in Buttons(displayed_state(classify, Left)) /\ asked' = ack'
  <2>1. displayed_state(classify, Left) \in {"Warning", "Critical"}
    BY <1>2 DEF Buttons
  <2>2. displayed_state(classify, Left) = classify
    BY <2>1 DEF displayed_state
  <2>. QED BY <1>2, <2>1, <2>2 DEF DrawRow, Buttons
<1>. QED BY <1>1, <1>2 DEF DrawRow

\* Of an ack that is asked for, a frame leaves what the user still asks for.
LEMMA LeftIsAsked ==
    ASSUME AlertsInv, latest # Gone, ~unsaved
    PROVE  /\ Left = NoAck \/ (Left = ack /\ ~ack_should_clear(classify))
           /\ Left.kind = "acknowledged" =>
                StillAsked.kind \in {"acknowledged", "restarted"} /\ ~Recovered
           /\ Left.kind = "snoozed" => now < Left.until /\ StillAsked = Left
           /\ asked.kind = "snoozed" /\ now < asked.until => Left = asked
           /\ StillAsked.kind = "acknowledged" =>
                Left = Acknowledged /\ (row = "temperature" => classify # "Normal")
           /\ asked.kind = "acknowledged" /\ StillAsked = NoAck => Left = NoAck
<1>1. classify \in States /\ (Recovered => classify = "Normal")
      /\ (classify = "Normal" => Recovered \/ (row = "temperature" /\ remembered = "Normal"))
  BY StateOfARow DEF AlertsInv
<1>2. Left = NoAck \/ (Left = ack /\ ~ack_should_clear(classify))
  BY DEF Left
<1>3. now \in Nat
  BY AlertsAssumption DEF AlertsInv, AlertsState, AlertsBounds
<1>4. AskedIsAcked /\ AckIsAsked /\ ack \in Acks /\ asked \in Acks \cup {[kind |-> "restarted", until |-> 0]}
  BY DEF AlertsInv, AcksAreAcks
<1>5. ack.kind = "snoozed" => ack.until \in Nat
  BY <1>3, <1>4, KindsOfAcks DEF SnoozeTime
<1>6. asked.kind = "snoozed" => asked.until \in Nat
  BY <1>3, <1>4, KindsOfAcks DEF SnoozeTime
<1>7. ASSUME Left.kind = "acknowledged"
      PROVE  StillAsked.kind \in {"acknowledged", "restarted"} /\ ~Recovered
  <2>1. Left = ack /\ classify # "Normal" /\ asked.kind \in {"acknowledged", "restarted"}
    BY <1>2, <1>4, <1>7, KindsOfAcks DEF ack_should_clear, AckIsAsked
  <2>. QED BY <1>1, <2>1 DEF StillAsked
<1>8. ASSUME Left.kind = "snoozed"
      PROVE  now < Left.until /\ StillAsked = Left
  <2>1. Left = ack /\ now < ack.until
    BY <1>2, <1>3, <1>5, <1>8, KindsOfAcks DEF ack_should_clear
  <2>2. asked = ack
    BY <1>4, <1>8, <2>1 DEF AckIsAsked
  <2>. QED BY <1>3, <1>5, <1>8, <2>1, <2>2 DEF StillAsked
<1>9. ASSUME asked.kind = "snoozed" /\ now < asked.until
      PROVE  Left = asked
  <2>1. ack = asked
    BY <1>4, <1>9 DEF AckIsAsked
  <2>. QED BY <1>3, <1>6, <1>9, <2>1 DEF Left, ack_should_clear
<1>10. ASSUME asked.kind = "acknowledged"
       PROVE  /\ StillAsked = NoAck => Left = NoAck
              /\ StillAsked # NoAck => Left = Acknowledged /\ classify # "Normal"
  <2>1. ack = Acknowledged /\ (row = "temperature" => remembered # "Normal")
    BY <1>4, <1>10 DEF AskedIsAcked
  <2>2. Recovered <=> classify = "Normal"
    BY <1>1, <2>1
  <2>3. Left = IF Recovered THEN NoAck ELSE Acknowledged
    BY <2>1, <2>2, KindsOfAcks DEF Left, ack_should_clear
  <2>4. StillAsked = IF Recovered THEN NoAck ELSE asked
    BY <1>10 DEF StillAsked
  <2>. QED BY <1>10, <2>2, <2>3, <2>4, KindsOfAcks
<1>11. StillAsked.kind = "acknowledged" => asked.kind = "acknowledged" /\ StillAsked # NoAck
  BY KindsOfAcks DEF StillAsked
<1>. QED BY <1>2, <1>7, <1>8, <1>9, <1>10, <1>11

LEMMA DrawRowKeeps ==
    ASSUME AlertsInv, DrawRow
    PROVE  AlertsInv'
<1>0. latest # Gone /\ now \in Nat /\ now' = now /\ row' = row
  BY AlertsAssumption DEF DrawRow, Drawable, AlertsInv, AlertsState, AlertsBounds
<1>1. classify \in States /\ Left \in {NoAck, ack}
  BY <1>0, StateOfARow DEF AlertsInv, Left
<1>2. MarksApart'
  BY DEF AlertsInv, MarksApart, DrawRow
<1>3. AlertsState'
  <2>1. remembered' \in States /\ (row = "rate" => remembered' = "Normal")
    BY <1>1 DEF DrawRow, Remembers, AlertsInv, AlertsState, States
  <2>2. shownAs' \in States
    BY <1>1 DEF DrawRow, displayed_state, States
  <2>3. AlertsBounds'
    <3>1. saveFaults' \in 0..MaxSaveFaults
      BY AlertsAssumption DEF DrawRow, save_acks, AlertsInv, AlertsState, AlertsBounds
    <3>. QED BY <3>1 DEF DrawRow, AlertsInv, AlertsState, AlertsBounds
  <2>4. unsaved' \in BOOLEAN
    BY DEF DrawRow, save_acks, AlertsInv, AlertsState
  <2>. QED BY <2>1, <2>2, <2>3, <2>4 DEF DrawRow, AlertsInv, AlertsState, States
<1>4. \A a : a \in Acks' <=> a \in Acks
  BY <1>0 DEF Acks
<1>5. ack' \in Acks
  <2>1. NoAck \in Acks /\ Acknowledged \in Acks /\ Snoozed(now + SnoozeTime) \in Acks
    BY <1>0 DEF Acks, SnoozeTime
  <2>. QED BY <1>1, <2>1, FrameOfARow DEF AlertsInv, AcksAreAcks
<1>6. AcksAreAcks'
  <2>1. StillAsked \in {asked, NoAck} /\ NoAck \in Acks
    BY DEF StillAsked, Acks
  <2>2. asked' \in Acks \cup {[kind |-> "restarted", until |-> 0]}
    BY <1>5, <2>1, FrameOfARow DEF AlertsInv, AcksAreAcks
  <2>3. stored' \in {stored, ack'}
    BY DEF DrawRow, save_acks
  <2>. QED BY <1>4, <1>5, <2>2, <2>3 DEF AlertsInv, AcksAreAcks
<1>7. ASSUME ~unsaved'
      PROVE  FileHasTheAck' /\ AskedIsAcked' /\ AckIsAsked'
  <2>1. ~unsaved /\ (stored' = ack' \/ (ack' = ack /\ stored' = stored))
    BY <1>7 DEF DrawRow, save_acks, AcksChanged, AlertsInv, AlertsState
  <2>2. FileHasTheAck'
    BY <1>0, <2>1 DEF FileHasTheAck, AlertsInv
  <2>3. remembered' = IF row = "temperature" THEN classify ELSE remembered
    BY DEF DrawRow, Remembers
  <2>4. CASE /\ ack' = Left /\ asked' = StillAsked
             /\ shownAs' = displayed_state(classify, Left)
    <3>1. AskedIsAcked'
      BY <1>0, <2>1, <2>3, <2>4, LeftIsAsked DEF AskedIsAcked
    <3>2. StillAsked.kind = "snoozed" => asked.kind = "snoozed" /\ now < asked.until /\ StillAsked = asked
      <4>1. asked.kind = "snoozed" => asked.until \in Nat
        BY <1>0, KindsOfAcks DEF AlertsInv, AcksAreAcks, SnoozeTime
      <4>. QED BY <1>0, <4>1, KindsOfAcks DEF StillAsked
    <3>3. AckIsAsked'
      BY <1>0, <2>1, <2>4, <3>2, LeftIsAsked DEF AckIsAsked
    <3>. QED BY <2>2, <3>1, <3>3
  <2>5. CASE /\ ack' \in {Acknowledged, Snoozed(now + SnoozeTime)} /\ asked' = ack'
             /\ classify # "Normal" /\ shownAs' = classify
    <3>1. AskedIsAcked'
      BY <1>0, <2>3, <2>5, KindsOfAcks DEF AskedIsAcked
    <3>2. AckIsAsked'
      BY <2>5, KindsOfAcks DEF AckIsAsked
    <3>. QED BY <2>2, <3>1, <3>2
  <2>. QED BY <2>4, <2>5, FrameOfARow
<1>. QED BY <1>2, <1>3, <1>6, <1>7 DEF AlertsInv

LEMMA RangesGrow ==
    ASSUME NEW m \in Nat, NEW n \in Nat, m <= n, NEW d \in Nat, NEW t \in d..(m + d)
    PROVE  t \in d..(n + d)
  OBVIOUS

LEMMA AlertsInvStep ==
    ASSUME AlertsInv, [AlertsNext]_alertVars
    PROVE  AlertsInv'
<1>. USE DEF AlertsInv
<1>1. CASE DrawRow
  BY <1>1, DrawRowKeeps
<1>2. CASE Report \/ TogglePanel \/ UNCHANGED alertVars
  <2>1. UNCHANGED <<row, remembered, ack, stored, thresholds, now, asked, unsaved, saveFaults, starts>>
    BY <1>2 DEF Report, TogglePanel, alertVars
  <2>2. shownAs' \in {"none", shownAs} /\ open' \in BOOLEAN
        /\ latest' \in Temperatures \cup Rates \cup {NaN, Gone}
    BY <1>2 DEF Report, TogglePanel, alertVars, NothingShown, AlertsState, Readable
  <2>3. AlertsState' /\ MarksApart'
    BY <2>1, <2>2 DEF AlertsState, AlertsBounds, MarksApart
  <2>4. AcksAreAcks'
    BY <2>1 DEF AcksAreAcks, Acks
  <2>5. ~unsaved' => FileHasTheAck' /\ AskedIsAcked' /\ AckIsAsked'
    BY <2>1 DEF FileHasTheAck, AskedIsAcked, AckIsAsked
  <2>. QED BY <2>3, <2>4, <2>5
<1>3. CASE ClockRuns
  <2>1. now \in Nat /\ now' \in Nat /\ now <= now' /\ now' \in 0..MaxNow
    <3>1. SnoozeTime \div 2 \in Nat
      BY DEF SnoozeTime
    <3>2. now \in Nat /\ now' = now + SnoozeTime \div 2 /\ now' <= MaxNow
      BY <1>3, AlertsAssumption DEF ClockRuns, AlertsState, AlertsBounds
    <3>. QED BY <3>1, <3>2, AlertsAssumption
  <2>2. ASSUME NEW a \in Acks
        PROVE  a \in Acks'
    <3>1. CASE a \in {NoAck, Acknowledged}
      BY <3>1 DEF Acks
    <3>2. CASE \E t \in SnoozeTime..now + SnoozeTime : a = Snoozed(t)
      <4>1. PICK t \in SnoozeTime..now + SnoozeTime : a = Snoozed(t)
        BY <3>2
      <4>2. t \in SnoozeTime..(now' + SnoozeTime)
        <5>1. SnoozeTime \in Nat
          BY DEF SnoozeTime
        <5>2. PICK n \in Nat : n = now'
          BY <2>1
        <5>3. t \in SnoozeTime..(n + SnoozeTime)
          BY <2>1, <4>1, <5>1, <5>2, RangesGrow
        <5>. QED BY <5>2, <5>3, Zenon
      <4>. QED BY <4>1, <4>2 DEF Acks
    <3>. QED BY <3>1, <3>2 DEF Acks
  <2>3. AlertsState' /\ MarksApart'
    BY <1>3, <2>1 DEF ClockRuns, NothingShown, AlertsState, AlertsBounds, MarksApart
  <2>4. AcksAreAcks'
    BY <1>3, <2>2 DEF ClockRuns, AcksAreAcks
  <2>5. ASSUME ~unsaved'
        PROVE  FileHasTheAck' /\ AskedIsAcked' /\ AckIsAsked'
    <3>1. /\ ack.kind = "snoozed" => ack.until \in Nat
          /\ asked.kind = "snoozed" => asked.until \in Nat
          /\ stored.kind = "snoozed" => stored.until \in Nat
      BY <2>1, KindsOfAcks DEF AcksAreAcks, SnoozeTime
    <3>2. FileHasTheAck'
      BY <1>3, <2>1, <2>5, <3>1 DEF ClockRuns, FileHasTheAck
    <3>. QED BY <1>3, <2>1, <2>5, <3>1, <3>2 DEF ClockRuns, AskedIsAcked, AckIsAsked
  <2>. QED BY <2>3, <2>4, <2>5
<1>4. CASE MoveSlider
  <2>1. MarksApart'
    <3>0. thresholds.warn \in 40..110 /\ thresholds.critical \in 40..110
          /\ thresholds.warn + 5 <= thresholds.critical
      BY DEF MarksApart, THRESHOLD_GAP
    <3>1. ASSUME NEW mark \in 40..warn_slider_max(thresholds.critical)
          PROVE  mark \in 40..110 /\ mark + 5 <= thresholds.critical
      BY <3>0, <3>1 DEF warn_slider_max, THRESHOLD_GAP
    <3>2. ASSUME NEW mark \in critical_slider_min(thresholds.warn)..110
          PROVE  mark \in 40..110 /\ thresholds.warn + 5 <= mark
      BY <3>0, <3>2 DEF critical_slider_min, THRESHOLD_GAP
    <3>3. CASE \E mark \in Marks \cap 40..warn_slider_max(thresholds.critical) :
                 thresholds' = [thresholds EXCEPT !.warn = mark]
      BY <3>0, <3>1, <3>3 DEF MarksApart, THRESHOLD_GAP
    <3>4. CASE \E mark \in Marks \cap critical_slider_min(thresholds.warn)..110 :
                 thresholds' = [thresholds EXCEPT !.critical = mark]
      BY <3>0, <3>2, <3>4 DEF MarksApart, THRESHOLD_GAP
    <3>5. CASE \E mbps \in Mbps : thresholds' = [thresholds EXCEPT !.mbps = mbps]
      BY <3>0, <3>5 DEF MarksApart, THRESHOLD_GAP
    <3>. QED BY <1>4, <3>3, <3>4, <3>5 DEF MoveSlider
  <2>2. UNCHANGED <<row, latest, remembered, ack, stored, open, now, asked, unsaved, saveFaults, starts>>
    BY <1>4 DEF MoveSlider
  <2>3. AlertsState'
    BY <1>4, <2>2 DEF MoveSlider, NothingShown, AlertsState, AlertsBounds
  <2>4. AcksAreAcks'
    BY <2>2 DEF AcksAreAcks, Acks
  <2>5. ~unsaved' => FileHasTheAck' /\ AskedIsAcked' /\ AckIsAsked'
    BY <2>2 DEF FileHasTheAck, AskedIsAcked, AckIsAsked
  <2>. QED BY <2>1, <2>3, <2>4, <2>5
<1>5. CASE Restart
  <2>0. now \in Nat /\ now' = now /\ row' = row /\ stored' = stored /\ unsaved' = unsaved
    BY <1>5, AlertsAssumption DEF Restart, AlertsState, AlertsBounds
  <2>5. AlertsBounds'
    BY <1>5, AlertsAssumption DEF Restart, AlertsState, AlertsBounds
  <2>1. AlertsState' /\ MarksApart'
    BY <1>5, <2>5 DEF Restart, NothingShown, AlertsState, MarksApart
  <2>2. ack' = stored \/ (ack' = NoAck /\ stored.kind = "snoozed" /\ stored.until <= now)
    BY <1>5 DEF Restart, load_acks
  <2>3. AcksAreAcks'
    BY <1>5, <2>0, <2>2 DEF Restart, AcksAreAcks, Acks
  <2>4. ASSUME ~unsaved
        PROVE  FileHasTheAck' /\ AskedIsAcked' /\ AckIsAsked'
    <3>0. FileHasTheAck /\ AskedIsAcked /\ AckIsAsked
      BY <2>4
    <3>1. asked' = IF asked.kind = "acknowledged" THEN [kind |-> "restarted", until |-> 0] ELSE asked
      BY <1>5 DEF Restart
    <3>2. asked'.kind # "acknowledged"
          /\ (asked'.kind = "snoozed" => asked.kind = "snoozed" /\ asked' = asked)
      BY <3>1
    <3>3. /\ stored.kind = "snoozed" => stored.until \in Nat
          /\ stored.kind = "acknowledged" => ack = stored
          /\ stored.kind = "snoozed" /\ now < stored.until => ack = stored
          /\ ack.kind # "none" => ack = stored
      <4>1. stored.kind = "snoozed" => stored.until \in Nat
        BY <2>0, KindsOfAcks DEF AcksAreAcks, SnoozeTime
      <4>. QED BY <2>0, <3>0, <4>1, KindsOfAcks DEF FileHasTheAck
    <3>4. /\ ack'.kind = "acknowledged" => ack' = ack
          /\ ack'.kind = "snoozed" /\ now < ack'.until => ack' = ack
      BY <2>2, <3>3, KindsOfAcks
    <3>5. asked.kind = "snoozed" /\ now < asked.until => ack' = asked
      <4>1. SUFFICES ASSUME asked.kind = "snoozed" /\ now < asked.until PROVE ack' = asked
        OBVIOUS
      <4>2. ack = asked /\ stored = asked
        BY <3>0, <3>3, <4>1 DEF AckIsAsked
      <4>. QED BY <2>0, <2>2, <3>3, <4>1, <4>2
    <3>6. FileHasTheAck'
      BY <2>0, <2>2 DEF FileHasTheAck
    <3>7. AskedIsAcked'
      BY <3>2 DEF AskedIsAcked
    <3>8. AckIsAsked'
      BY <2>0, <3>0, <3>1, <3>2, <3>4, <3>5 DEF AckIsAsked
    <3>. QED BY <3>6, <3>7, <3>8
  <2>. QED BY <2>0, <2>1, <2>3, <2>4
<1>. QED BY <1>1, <1>2, <1>3, <1>4, <1>5 DEF AlertsNext

LEMMA AlertsInvHolds == DesktopSpec => []AlertsInv
<1>1. AlertsInv /\ [AlertsNext]_alertVars => AlertsInv'
  BY AlertsInvStep
<1>. QED BY <1>1, AlertsInvInit, BehaviourOfEach, PTL

\* Only a frame draws a row.
LEMMA OnlyFramesShow ==
    ASSUME [AlertsNext]_alertVars, ~DrawRow
    PROVE  shownAs' \in {"none", shownAs} /\ (alertVars' = alertVars \/ shownAs' = "none")
  BY DEF AlertsNext, alertVars, Report, ClockRuns, TogglePanel, MoveSlider, Restart, NothingShown

\* A row over a threshold is drawn as an alert (gui/alert_indicator.rs,
\* gui/mod.rs), unless the user has silenced this very alert, whatever was
\* silenced, restarted and moved before.
THEOREM AlarmsAreShownHolds == DesktopSpec => AlarmsAreShown
<1>1. ASSUME AlertsInv, [AlertsNext]_alertVars
      PROVE  [StillAsked = NoAck /\ ~unsaved => shownAs' \in AtLeast \cup {"none"}]_alertVars
  <2>1. CASE ~DrawRow
    BY <1>1, <2>1, OnlyFramesShow
  <2>2. ASSUME DrawRow, StillAsked = NoAck, ~unsaved
        PROVE  shownAs' \in AtLeast
    <3>0. latest # Gone
      BY <2>2 DEF DrawRow, Drawable
    <3>1. classify \in AtLeast /\ (Recovered => "Normal" \in AtLeast)
      BY <1>1, <3>0, StateOfARow DEF AlertsInv
    <3>2. shownAs' = displayed_state(classify, Left)
      BY <2>2 DEF DrawRow
    <3>3. Left.kind # "acknowledged" /\ Left.kind # "snoozed"
      BY <1>1, <2>2, <3>0, LeftIsAsked, KindsOfAcks
    <3>. QED BY <3>1, <3>2, <3>3 DEF displayed_state
  <2>. QED BY <2>1, <2>2
<1>. QED BY <1>1, AlertsInvHolds, BehaviourOfEach, PTL DEF AlarmsAreShown

\* What the user has acknowledged or snoozed stays quiet for its time
\* (sidebar-domain alert.rs, gui/acks_store.rs), also over a restart.
THEOREM QuietIsKeptHolds == DesktopSpec => QuietIsKept
<1>1. ASSUME AlertsInv, [AlertsNext]_alertVars
      PROVE  [~unsaved /\ (asked.kind = "acknowledged" \/ (asked.kind = "snoozed" /\ now < asked.until))
              => shownAs' \in {"none", "Normal"}]_alertVars
  <2>1. CASE ~DrawRow
    BY <1>1, <2>1, OnlyFramesShow
  <2>2. ASSUME DrawRow, ~unsaved,
               asked.kind = "acknowledged" \/ (asked.kind = "snoozed" /\ now < asked.until)
        PROVE  shownAs' = "Normal"
    <3>0. latest # Gone /\ shownAs' = displayed_state(classify, Left)
      BY <2>2 DEF DrawRow, Drawable
    <3>1. CASE asked.kind = "snoozed" /\ now < asked.until
      BY <1>1, <2>2, <3>0, <3>1, LeftIsAsked DEF displayed_state
    <3>2. CASE asked.kind = "acknowledged"
      <4>1. StillAsked = NoAck \/ StillAsked = asked
        BY DEF StillAsked
      <4>2. CASE StillAsked = asked
        BY <1>1, <2>2, <3>0, <3>2, <4>2, LeftIsAsked, KindsOfAcks DEF displayed_state
      <4>3. CASE StillAsked = NoAck
        <5>1. Recovered
          BY <3>2, <4>3, KindsOfAcks DEF StillAsked
        <5>2. classify = "Normal"
          BY <1>1, <3>0, <5>1, StateOfARow DEF AlertsInv
        <5>. QED BY <3>0, <5>2 DEF displayed_state
      <4>. QED BY <4>1, <4>2, <4>3
    <3>. QED BY <2>2, <3>1, <3>2
  <2>. QED BY <2>1, <2>2
<1>. QED BY <1>1, AlertsInvHolds, BehaviourOfEach, PTL DEF QuietIsKept

LEMMA AlertsTypeHolds == DesktopSpec => []AlertsTypeOK
<1>1. AlertsInv => AlertsTypeOK
  BY DEF AlertsInv, AlertsState, AlertsBounds, AcksAreAcks, MarksApart, AlertsTypeOK
<1>. QED BY <1>1, AlertsInvHolds, PTL

-----------------------------------------------------------------------------
(* Settings                                                                *)

SettingsBounds ==
    /\ edits \in 0..changes /\ changes \in 0..MaxChanges
    /\ faults \in 0..MaxFaults /\ launches \in 0..MaxLaunches

SettingsState ==
    /\ app \in {"closed", "wizard", "saved", "sidebar"}
    /\ config \in Config /\ config.poll \in 1..60 /\ persisted \in Config
    /\ disk \in File /\ spare \in File
    /\ screens \subseteq ToSet(Displays)
    /\ bound \in {"none"} \cup ToSet(Displays) /\ docked \in {"none"} \cup ToSet(Displays)

SettingsFlags == {panel, dragging, backup, runKey, notice, excused, misread} \subseteq BOOLEAN

\* A save runs in a program that is open, and the first two kinds end the wizard.
SavingState ==
    /\ \/ saving = Idle
       \/ saving \in [step : {"write", "rename"}, after : {"event", "panel", "finish", "exit"}]
          /\ app # "closed"
    /\ saving.after \in {"finish", "exit"} => app = "wizard" /\ config.complete
    /\ saving.after = "panel" => app = "sidebar"

\* What is renamed over config.toml is the settings in memory.
SpareIsConfig == saving.step = "rename" => spare = Whole(config)

\* After the wizard the settings are complete, and with them the file.
CompleteAfterWizard ==
    app \in {"saved", "sidebar"} =>
        config.complete /\ (disk.state = "whole" => disk.config.complete)

\* The wizard of a launch that has read the file runs because it is not complete.
WizardIsNeeded ==
    app = "wizard" /\ ~misread =>
        /\ ~(disk.state = "whole" /\ disk.config.complete)
        /\ saving.after \in {"none", "event"} => ~config.complete

SettingsInv ==
    /\ SettingsBounds /\ SettingsState /\ SavingState /\ SpareIsConfig
    /\ MemoryReachesDisk /\ CompleteAfterWizard /\ WizardIsNeeded

\* The first of some monitors.
LEMMA FirstOfSome ==
    ASSUME NEW S, S \subseteq enumerate, S # {}
    PROVE  Displays[Min(S)] \in ToSet(Displays)
<1>1. S \subseteq Nat
  BY SettingsAssumption DEF enumerate
<1>2. Min(S) \in S
  BY <1>1, LeastOfSome
<1>. QED BY <1>2 DEF enumerate, ToSet

LEMMA SomeIsConnected ==
    ASSUME SettingsState, screens # {}
    PROVE  enumerate # {}
  BY DEF SettingsState, enumerate, ToSet

LEMMA TargetIsADisplay ==
    ASSUME SettingsState, screens # {}, NEW monitor
    PROVE  resolve_target(monitor) \in ToSet(Displays)
<1>1. CASE monitor \in screens
  BY <1>1 DEF resolve_target, SettingsState
<1>2. CASE monitor \notin screens
  BY <1>2, SomeIsConnected, FirstOfSome DEF resolve_target
<1>. QED BY <1>1, <1>2

LEMMA RedockedOnADisplay ==
    ASSUME SettingsState, NEW c
    PROVE  Redocked(c) \in {"none"} \cup ToSet(Displays)
  BY TargetIsADisplay DEF Redocked, SettingsState

LEMMA NextScreenIsADisplay ==
    ASSUME SettingsState, screens # {}
    PROVE  NextScreen \in ToSet(Displays)
<1>. DEFINE later == {i \in enumerate :
                        \E at \in enumerate : Displays[at] = config.monitor /\ at < i}
<1>1. CASE later = {}
  BY <1>1, SomeIsConnected, FirstOfSome DEF NextScreen
<1>2. CASE later # {}
  BY <1>2, FirstOfSome DEF NextScreen
<1>. QED BY <1>1, <1>2

\* Settings that differ from others in one of them.
LEMMA OneSetting ==
    ASSUME NEW c \in Config
    PROVE  /\ \A x \in Edges : [c EXCEPT !.edge = x] \in Config
           /\ \A x \in {"primary"} \cup ToSet(Displays) : [c EXCEPT !.monitor = x] \in Config
           /\ \A x \in BOOLEAN : [c EXCEPT !.hidden = x] \in Config
           /\ \A x \in BOOLEAN : [c EXCEPT !.run = x] \in Config
           /\ \A x \in BOOLEAN : [c EXCEPT !.complete = x] \in Config
           /\ \A x \in 0..1 : [c EXCEPT !.offset = x] \in Config
           /\ \A x \in Nat : [c EXCEPT !.poll = x] \in Config
           /\ \A x \in {"basic", "full"} : [c EXCEPT !.tier = x] \in Config
  BY DEF Config

LEMMA DefaultIsConfig ==
    /\ Default \in Config /\ Default.poll = 10 /\ Default.complete = FALSE
    /\ [Default EXCEPT !.complete = TRUE] \in Config
    /\ [Default EXCEPT !.complete = TRUE].poll = 10
    /\ [Default EXCEPT !.complete = TRUE].complete = TRUE
<1>1. Default \in Config
  BY DEF Default, Config, Edges
<1>2. Default.poll = 10 /\ Default.complete = FALSE
  BY DEF Default
<1>3. [Default EXCEPT !.complete = TRUE] \in Config
  BY <1>1, OneSetting
<1>4. [Default EXCEPT !.complete = TRUE].poll = 10 /\ [Default EXCEPT !.complete = TRUE].complete = TRUE
  BY DEF Default
<1>. QED BY <1>1, <1>2, <1>3, <1>4

\* The same settings as others, but for what clamping, the drag and the tier change.
LEMMA ClampIsConfig ==
    ASSUME NEW c \in Config
    PROVE  /\ clamp_values(c) \in Config /\ clamp_values(c).poll \in 1..60
           /\ clamp_values(c).complete = c.complete
           /\ c.poll \in 1..60 => clamp_values(c) = c
<1>1. c.poll \in Nat
  BY DEF Config
<1>. DEFINE p == CASE c.poll < 1 -> 1 [] c.poll > 60 -> 60 [] OTHER -> c.poll
<1>2. p \in 1..60 /\ (c.poll \in 1..60 => p = c.poll)
  BY <1>1
<1>. HIDE DEF p
<1>3. [c EXCEPT !.poll = p] \in Config /\ [c EXCEPT !.poll = p].poll = p
      /\ [c EXCEPT !.poll = p].complete = c.complete
      /\ (p = c.poll => [c EXCEPT !.poll = p] = c)
  BY <1>2 DEF Config
<1>4. clamp_values(c) = [c EXCEPT !.poll = p]
  BY DEF clamp_values, p
<1>. QED BY <1>2, <1>3, <1>4

LEMMA SameButTier ==
    ASSUME NEW a \in Config
    PROVE  SameSettings(a, a) /\ \A t : SameSettings(a, [a EXCEPT !.tier = t])
  BY DEF SameSettings, Config

LEMMA SameButOffset ==
    ASSUME NEW a \in Config, NEW b \in Config, SameSettings(a, b), NEW o
    PROVE  SameSettings(a, [b EXCEPT !.offset = o])
  BY DEF SameSettings, Config

LEMMA WholeIsFile ==
    ASSUME NEW c \in Config
    PROVE  /\ Whole(c) \in File /\ Whole(c).state = "whole" /\ Whole(c).config = c
           /\ Missing \in File /\ Missing.state = "missing" /\ Torn \in File /\ Torn.state = "torn"
           /\ \A f \in File : f.config \in Config
  BY DefaultIsConfig DEF Whole, Missing, Torn, File

LEMMA SettingsInvInit == SettingsInit => SettingsInv
<1>. SUFFICES ASSUME SettingsInit PROVE SettingsInv
  OBVIOUS
<1>1. SettingsBounds
  BY SettingsAssumption DEF SettingsInit, SettingsBounds
<1>2. SettingsState
  BY DefaultIsConfig, WholeIsFile DEF SettingsInit, SettingsState
<1>4. SavingState /\ SpareIsConfig /\ MemoryReachesDisk /\ CompleteAfterWizard /\ WizardIsNeeded
  BY DEF SettingsInit, SavingState, SpareIsConfig, MemoryReachesDisk, CompleteAfterWizard,
         WizardIsNeeded, Idle
<1>. QED BY <1>1, <1>2, <1>4 DEF SettingsInv

\* What a step may do to the counters.
LEMMA BoundsStep ==
    ASSUME SettingsBounds,
           \/ changes' = changes /\ edits' = edits
           \/ Input /\ edits' \in {edits, edits + 1},
           faults' = faults \/ Faulty(0) \/ Faulty(1),
           launches' = launches \/ (launches < MaxLaunches /\ launches' = launches + 1)
    PROVE  SettingsBounds'
<1>1. changes' \in 0..MaxChanges /\ edits' \in 0..changes'
  <2>1. CASE changes' = changes /\ edits' = edits
    BY <2>1 DEF SettingsBounds
  <2>2. CASE Input /\ edits' \in {edits, edits + 1}
    BY <2>2, SettingsAssumption DEF SettingsBounds, Input
  <2>. QED BY <2>1, <2>2
<1>2. faults' \in 0..MaxFaults
  BY SettingsAssumption DEF SettingsBounds, Faulty
<1>3. launches' \in 0..MaxLaunches
  BY SettingsAssumption DEF SettingsBounds
<1>. QED BY <1>1, <1>2, <1>3 DEF SettingsBounds

\* All of the invariant but the counters and the flags.
SettingsKept ==
    /\ SettingsState /\ SavingState /\ SpareIsConfig
    /\ MemoryReachesDisk /\ CompleteAfterWizard /\ WizardIsNeeded

\* An event is handled, and the settings are saved.
LEMMA EventKeeps ==
    ASSUME SettingsInv, InFrame,
           config' \in Config, config'.poll \in 1..60, config'.complete = config.complete,
           saving' = Save("event"),
           UNCHANGED <<app, persisted, disk, spare, misread, screens>>,
           bound' \in {"none"} \cup ToSet(Displays), docked' \in {"none"} \cup ToSet(Displays)
    PROVE  SettingsKept'
<1>. USE DEF SettingsInv, InFrame
<1>0. saving'.step = "write" /\ saving'.after = "event" /\ saving' # Idle
  BY DEF Save, Idle
<1>1. SettingsState'
  BY DEF SettingsState
<1>2. SavingState'
  BY <1>0 DEF SavingState, Save
<1>3. SpareIsConfig' /\ MemoryReachesDisk' /\ CompleteAfterWizard'
  BY <1>0 DEF SpareIsConfig, MemoryReachesDisk, CompleteAfterWizard
<1>4. WizardIsNeeded'
  BY DEF WizardIsNeeded, Idle
<1>. QED BY <1>1, <1>2, <1>3, <1>4 DEF SettingsKept

\* A frame of the sidebar; with the panel closed, it only moves the offset.
LEMMA FrameKeeps ==
    ASSUME SettingsInv, NEW c \in Config, c.poll \in 1..60, c.complete = config.complete,
           NEW shown, SidebarFrame(c, shown),
           shown \/ c = config \/ \E o \in 0..1 : c = [config EXCEPT !.offset = o]
    PROVE  SettingsKept'
<1>. USE DEF SettingsInv
<1>1. /\ app = "sidebar" /\ saving = Idle /\ config' = c
      /\ UNCHANGED <<app, persisted, disk, spare, screens, bound, misread>>
      /\ saving' = IF shown /\ c # persisted THEN Save("panel") ELSE Idle
      /\ excused' = (excused \/ (shown /\ c # config /\ c = persisted))
  BY DEF SidebarFrame, Drawn, InFrame, FrameSaves
<1>2. docked' \in {"none"} \cup ToSet(Displays)
  BY RedockedOnADisplay DEF SidebarFrame, SettingsState
<1>3. SettingsState'
  BY <1>1, <1>2 DEF SettingsState
<1>4. SavingState' /\ SpareIsConfig'
  BY <1>1 DEF SavingState, SpareIsConfig, Save, Idle
<1>5. CompleteAfterWizard' /\ WizardIsNeeded'
  BY <1>1 DEF CompleteAfterWizard, WizardIsNeeded
<1>6. MemoryReachesDisk'
  <2>1. SUFFICES ASSUME saving' = Idle, ~excused'
                 PROVE  disk.state = "whole" /\ SameSettings(clamp_values(disk.config), c)
    BY <1>1 DEF MemoryReachesDisk
  <2>2. disk.state = "whole" /\ SameSettings(clamp_values(disk.config), config)
    BY <1>1, <2>1 DEF MemoryReachesDisk
  <2>3. c = config \/ \E o \in 0..1 : c = [config EXCEPT !.offset = o]
    <3>1. Save("panel") # Idle
      BY DEF Save, Idle
    <3>. QED BY <1>1, <2>1, <3>1
  <2>4. clamp_values(disk.config) \in Config /\ config \in Config
    BY ClampIsConfig, WholeIsFile DEF SettingsState
  <2>. QED BY <2>2, <2>3, <2>4, SameButOffset
<1>. QED BY <1>3, <1>4, <1>5, <1>6 DEF SettingsKept

LEMMA LaunchKeeps ==
    ASSUME SettingsInv, Launch
    PROVE  SettingsKept'
<1>. USE DEF SettingsInv
<1>1. PICK seen \in {disk, Missing} :
        /\ Opened(Loaded(seen))
        /\ excused' = (seen.state # "whole") /\ misread' = (seen.state # "whole")
        /\ UNCHANGED <<disk, spare, screens>>
  BY DEF Launch
<1>. DEFINE c == Loaded(seen)
            target == resolve_target(c.monitor)
            fallback == screens # {} /\ monitor_id_is_real_fallback(c.monitor, target)
<1>2. seen.state = "whole" => seen = disk
  BY <1>1 DEF Missing
<1>3. /\ c \in Config /\ c.poll \in 1..60
      /\ c.complete <=> seen.state = "whole" /\ seen.config.complete
      /\ seen.state = "whole" => SameSettings(clamp_values(seen.config), c)
  <2>1. seen \in File /\ seen.config \in Config
    BY <1>1, WholeIsFile DEF SettingsState
  <2>2. /\ Settled(seen) \in Config /\ Settled(seen).poll \in 1..60
        /\ Settled(seen).complete <=> seen.state = "whole" /\ seen.config.complete
    <3>1. CASE seen.state = "whole"
      <4>1. Settled(seen) = clamp_values(seen.config)
        BY <3>1 DEF Settled
      <4>. QED BY <2>1, <3>1, <4>1, ClampIsConfig
    <3>2. CASE seen.state # "whole"
      BY <3>2, DefaultIsConfig DEF Settled
    <3>. QED BY <3>1, <3>2
  <2>3. c = [Settled(seen) EXCEPT !.tier = "basic"]
    BY DEF Loaded
  <2>4. c \in Config /\ c.poll = Settled(seen).poll /\ c.complete = Settled(seen).complete
    BY <2>2, <2>3, OneSetting DEF Config
  <2>5. seen.state = "whole" => Settled(seen) = clamp_values(seen.config)
    BY DEF Settled
  <2>. QED BY <2>1, <2>2, <2>3, <2>4, <2>5, ClampIsConfig, SameButTier
<1>. HIDE DEF c
<1>4. /\ app' = (IF c.complete THEN "sidebar" ELSE "wizard") /\ persisted' = c
      /\ config' = (IF fallback THEN [c EXCEPT !.monitor = target] ELSE c)
      /\ saving' = (IF fallback THEN Save("event") ELSE Idle)
      /\ bound' = (IF screens = {} THEN "none" ELSE target) /\ docked' = bound'
  BY <1>1 DEF Opened, c
<1>5. fallback => target \in ToSet(Displays)
  BY TargetIsADisplay
<1>6. bound' \in {"none"} \cup ToSet(Displays)
  BY <1>4, TargetIsADisplay
<1>. HIDE DEF fallback, target
<1>7. config' \in Config /\ config'.poll \in 1..60 /\ config'.complete = c.complete
  <2>1. CASE fallback
    BY <1>3, <1>4, <1>5, <2>1, OneSetting DEF Config
  <2>2. CASE ~fallback
    BY <1>3, <1>4, <2>2
  <2>. QED BY <2>1, <2>2
<1>8. SettingsState'
  BY <1>1, <1>3, <1>4, <1>6, <1>7 DEF SettingsState
<1>9. SavingState' /\ SpareIsConfig'
  BY <1>4 DEF SavingState, SpareIsConfig, Save, Idle
<1>10. CompleteAfterWizard' /\ WizardIsNeeded'
  BY <1>1, <1>2, <1>3, <1>4, <1>7 DEF CompleteAfterWizard, WizardIsNeeded
<1>11. MemoryReachesDisk'
  BY <1>1, <1>2, <1>3, <1>4 DEF MemoryReachesDisk, Save, Idle
<1>. QED BY <1>8, <1>9, <1>10, <1>11 DEF SettingsKept

\* The end of a save that failed, and of one that did not.
LEMMA FailureKeeps ==
    ASSUME SettingsInv, saving # Idle, Ends(FALSE), spare' \in File,
           UNCHANGED <<disk, screens, bound, docked, misread>>
    PROVE  SettingsKept'
<1>. USE DEF SettingsInv
<1>1. /\ saving' = Idle /\ excused' = TRUE
      /\ persisted' \in {config, persisted}
      /\ config' = IF saving.after = "finish" THEN [config EXCEPT !.complete = FALSE] ELSE config
      /\ app' = IF saving.after = "exit" THEN "closed" ELSE app
  BY DEF Ends
<1>2. config' \in Config /\ config'.poll \in 1..60
      /\ (config'.complete <=> saving.after # "finish" /\ config.complete)
  <2>1. [config EXCEPT !.complete = FALSE] \in Config
    BY OneSetting DEF SettingsState
  <2>2. CASE saving.after = "finish"
    <3>1. [config EXCEPT !.complete = FALSE].poll = config.poll
          /\ ~[config EXCEPT !.complete = FALSE].complete
      BY DEF SettingsState, Config
    <3>. QED BY <1>1, <2>1, <2>2, <3>1 DEF SettingsState
  <2>3. CASE saving.after # "finish"
    BY <1>1, <2>3 DEF SettingsState
  <2>. QED BY <2>2, <2>3
<1>3. SettingsState'
  <2>1. app' \in {"closed", "wizard", "saved", "sidebar"} /\ persisted' \in Config
    BY <1>1 DEF SettingsState
  <2>2. config' \in Config /\ config'.poll \in 1..60
    BY <1>2
  <2>3. disk \in File /\ screens \subseteq ToSet(Displays)
        /\ bound \in {"none"} \cup ToSet(Displays) /\ docked \in {"none"} \cup ToSet(Displays)
    BY DEF SettingsState
  <2>. QED BY <2>1, <2>2, <2>3 DEF SettingsState
<1>4. SavingState' /\ SpareIsConfig' /\ MemoryReachesDisk'
  BY <1>1 DEF SavingState, SpareIsConfig, MemoryReachesDisk, Idle
<1>5. CompleteAfterWizard'
  BY <1>1, <1>2 DEF CompleteAfterWizard, SavingState
<1>6. WizardIsNeeded'
  BY <1>1, <1>2 DEF WizardIsNeeded, SavingState
<1>. QED BY <1>3, <1>4, <1>5, <1>6 DEF SettingsKept

LEMMA SuccessKeeps ==
    ASSUME SettingsInv, saving.step = "rename", Ends(TRUE), disk' = spare, spare' = Missing,
           UNCHANGED <<screens, bound, docked, misread>>
    PROVE  SettingsKept'
<1>. USE DEF SettingsInv
<1>1. /\ saving' = Idle /\ persisted' \in {config, persisted} /\ config' = config
      /\ app' = IF saving.after = "finish" THEN "saved"
                ELSE IF saving.after = "exit" THEN "closed" ELSE app
  BY DEF Ends
<1>2. disk' \in File /\ disk'.state = "whole" /\ disk'.config = config /\ spare' \in File
  BY WholeIsFile DEF SpareIsConfig, SettingsState
<1>3. SettingsState'
  BY <1>1, <1>2 DEF SettingsState
<1>4. SavingState' /\ SpareIsConfig'
  BY <1>1 DEF SavingState, SpareIsConfig, Idle
<1>5. MemoryReachesDisk'
  <2>1. clamp_values(config) = config /\ SameSettings(config, config)
    BY ClampIsConfig, SameButTier DEF SettingsState
  <2>. QED BY <1>1, <1>2, <2>1 DEF MemoryReachesDisk
<1>6. CompleteAfterWizard'
  BY <1>1, <1>2 DEF CompleteAfterWizard, SavingState
<1>7. saving.step # "none" /\ saving.after # "none"
  BY DEF SavingState, Idle
<1>8. WizardIsNeeded'
  BY <1>1, <1>2, <1>7 DEF WizardIsNeeded, SavingState, Idle
<1>. QED BY <1>3, <1>4, <1>5, <1>6, <1>8 DEF SettingsKept

LEMMA SaveKeeps ==
    ASSUME SettingsInv, atomic_write_config
    PROVE  SettingsKept'
<1>. USE DEF SettingsInv
<1>1. UNCHANGED <<screens, bound, docked, misread>>
  BY DEF atomic_write_config, windows
<1>2. saving # Idle
  <2>1. saving.step \in {"write", "rename"}
    BY DEF atomic_write_config, WriteSpare, RenameSpare
  <2>. QED BY <2>1 DEF Idle
<1>3. CASE /\ saving.step = "write" /\ spare' = Whole(config)
           /\ saving' = [saving EXCEPT !.step = "rename"]
           /\ UNCHANGED <<app, config, persisted, excused, disk>>
  <2>1. spare' \in File
    <3>1. config \in Config
      BY DEF SettingsState
    <3>. QED BY <1>3, <3>1, WholeIsFile
  <2>2. SettingsState'
    BY <1>1, <1>3, <2>1 DEF SettingsState
  <2>3. saving \in [step : {"write", "rename"}, after : {"event", "panel", "finish", "exit"}]
    BY <1>2 DEF SavingState
  <2>4. saving' \in [step : {"write", "rename"}, after : {"event", "panel", "finish", "exit"}]
        /\ saving'.after = saving.after /\ saving' # Idle
    BY <1>3, <2>3 DEF Idle
  <2>5. SavingState'
    BY <1>2, <1>3, <2>4 DEF SavingState
  <2>6. SpareIsConfig' /\ MemoryReachesDisk' /\ CompleteAfterWizard'
    BY <1>3, <2>4 DEF SpareIsConfig, MemoryReachesDisk, CompleteAfterWizard
  <2>7. WizardIsNeeded'
    BY <1>1, <1>3, <2>4 DEF WizardIsNeeded
  <2>. QED BY <2>2, <2>5, <2>6, <2>7 DEF SettingsKept
<1>4. CASE saving.step = "write" /\ spare' \in {spare, Torn} /\ Ends(FALSE) /\ UNCHANGED disk
  <2>1. spare' \in File
    BY <1>4, DefaultIsConfig, WholeIsFile DEF SettingsState
  <2>. QED BY <1>1, <1>2, <1>4, <2>1, FailureKeeps
<1>5. CASE saving.step = "rename" /\ disk' = spare /\ spare' = Missing /\ Ends(TRUE)
  BY <1>1, <1>5, SuccessKeeps
<1>6. CASE saving.step = "rename" /\ spare' \in {spare, Missing} /\ UNCHANGED disk /\ Ends(FALSE)
  <2>1. spare' \in File
    BY <1>6, DefaultIsConfig, WholeIsFile DEF SettingsState
  <2>. QED BY <1>1, <1>2, <1>6, <2>1, FailureKeeps
<1>. QED BY <1>3, <1>4, <1>5, <1>6 DEF atomic_write_config, WriteSpare, RenameSpare

LEMMA WizardKeeps ==
    ASSUME SettingsInv, render_wizard
    PROVE  SettingsKept'
<1>. USE DEF SettingsInv
<1>1. /\ app = "wizard" /\ saving = Idle
      /\ UNCHANGED <<app, persisted, disk, spare, screens, bound, docked, excused, misread>>
  BY DEF render_wizard, Drawn, InFrame, gui, files, windows
<1>2. \/ /\ config' \in Config /\ config'.poll \in 1..60
         /\ (config'.complete <=> config.complete) /\ saving' = Idle
      \/ /\ config' \in Config /\ config'.poll \in 1..60
         /\ config'.complete /\ saving' = Save("finish")
  <2>1. ASSUME NEW edge \in Edges, config' = [config EXCEPT !.edge = edge]
        PROVE  config' \in Config /\ config'.poll = config.poll /\ (config'.complete <=> config.complete)
    BY <2>1, OneSetting DEF SettingsState, Config
  <2>2. ASSUME NEW monitor \in screens, config' = [config EXCEPT !.monitor = monitor]
        PROVE  config' \in Config /\ config'.poll = config.poll /\ (config'.complete <=> config.complete)
    BY <2>2, OneSetting DEF SettingsState, Config
  <2>3. ASSUME config' = [config EXCEPT !.complete = TRUE]
        PROVE  config' \in Config /\ config'.poll = config.poll /\ config'.complete
    BY <2>3, OneSetting DEF SettingsState, Config
  <2>4. ASSUME config' = [Default EXCEPT !.complete = TRUE]
        PROVE  config' \in Config /\ config'.poll = 10 /\ config'.complete
    BY <2>4, DefaultIsConfig
  <2>. QED BY <2>1, <2>2, <2>3, <2>4 DEF render_wizard, SettingsState
<1>3. SettingsState'
  BY <1>1, <1>2 DEF SettingsState
<1>4. SavingState' /\ SpareIsConfig' /\ MemoryReachesDisk' /\ CompleteAfterWizard'
  BY <1>1, <1>2 DEF SavingState, SpareIsConfig, MemoryReachesDisk, CompleteAfterWizard, Save, Idle
<1>5. WizardIsNeeded'
  BY <1>1, <1>2 DEF WizardIsNeeded, Save, Idle
<1>. QED BY <1>3, <1>4, <1>5 DEF SettingsKept

LEMMA SidebarKeeps ==
    ASSUME SettingsInv,
           ToggleGear \/ EditInPanel \/ EditRunAtStartup \/ handle_grip_drag
    PROVE  SettingsKept'
<1>. USE DEF SettingsInv
<1>0. config \in Config /\ config.poll \in 1..60
  BY DEF SettingsState
<1>1. CASE ToggleGear
  BY <1>0, <1>1, FrameKeeps DEF ToggleGear
<1>2. CASE EditInPanel
  <2>1. PICK c \in PanelEdits(config) : SidebarFrame(c, TRUE)
    BY <1>2 DEF EditInPanel
  <2>2. \/ \E x \in Edges : c = [config EXCEPT !.edge = x]
        \/ \E x \in Panel : c = [config EXCEPT !.poll = x]
        \/ \E x \in screens : c = [config EXCEPT !.monitor = x]
    BY <2>1 DEF PanelEdits, PicksMonitor
  <2>3. \A x \in Panel : x \in 1..60 /\ x \in Nat
    BY SettingsAssumption
  <2>4. \A x \in screens : x \in {"primary"} \cup ToSet(Displays)
    BY DEF SettingsState
  <2>5. c \in Config
    BY <1>0, <2>2, <2>3, <2>4, OneSetting
  <2>6. c.poll \in 1..60 /\ c.complete = config.complete
    BY <1>0, <2>2, <2>3 DEF Config
  <2>. QED BY <2>1, <2>5, <2>6, FrameKeeps
<1>3. CASE EditRunAtStartup
  <2>1. PICK c \in {config, [config EXCEPT !.run = ~config.run]} : SidebarFrame(c, TRUE)
    <3>1. CASE SidebarFrame([config EXCEPT !.run = ~config.run], TRUE)
      BY <3>1
    <3>2. CASE SidebarFrame(IF ~config.run THEN config ELSE [config EXCEPT !.run = ~config.run], TRUE)
      BY <3>2
    <3>. QED BY <1>3, <3>1, <3>2 DEF EditRunAtStartup, set_enabled
  <2>2. (~config.run) \in BOOLEAN
    OBVIOUS
  <2>3. c \in Config
    BY <1>0, <2>1, <2>2, OneSetting
  <2>4. c.poll \in 1..60 /\ c.complete = config.complete
    BY <1>0, <2>1 DEF Config
  <2>. QED BY <2>1, <2>3, <2>4, FrameKeeps
<1>4. CASE handle_grip_drag
  <2>1. CASE SidebarFrame(config, panel)
    BY <1>0, <2>1, FrameKeeps
  <2>2. CASE \E o \in 0..1 : SidebarFrame([config EXCEPT !.offset = o], panel)
    <3>1. PICK o \in 0..1 : SidebarFrame([config EXCEPT !.offset = o], panel)
      BY <2>2
    <3>. DEFINE c == [config EXCEPT !.offset = o]
    <3>2. c \in Config /\ c.poll = config.poll /\ c.complete = config.complete
      BY <1>0, OneSetting DEF Config
    <3>. HIDE DEF c
    <3>3. SidebarFrame(c, panel) /\ c = [config EXCEPT !.offset = o]
      BY <3>1 DEF c
    <3>. QED BY <1>0, <3>2, <3>3, FrameKeeps
  <2>. QED BY <1>4, <2>1, <2>2 DEF handle_grip_drag
<1>. QED BY <1>1, <1>2, <1>3, <1>4

LEMMA HotkeysKeep ==
    ASSUME SettingsInv,
           HotkeyVisibility \/ HotkeyCycleEdge \/ HotkeyCycleScreen \/ TierChanged
    PROVE  SettingsKept'
<1>. USE DEF SettingsInv
<1>0. config \in Config /\ config.poll \in 1..60
  BY DEF SettingsState
<1>1. PICK c : /\ EventSaves(c)
               /\ \/ \E x \in BOOLEAN : c = [config EXCEPT !.hidden = x]
                  \/ \E x \in {"basic", "full"} : c = [config EXCEPT !.tier = x]
                  \/ c = [config EXCEPT !.edge = NextEdge[config.edge]]
                  \/ screens # {} /\ c = [config EXCEPT !.monitor = NextScreen]
  BY DEF HotkeyVisibility, HotkeyCycleEdge, HotkeyCycleScreen, TierChanged
<1>2. c \in Config
  <2>1. NextEdge[config.edge] \in Edges
    BY <1>0 DEF NextEdge, Edges, Config
  <2>2. screens # {} => NextScreen \in ToSet(Displays)
    BY NextScreenIsADisplay
  <2>. QED BY <1>0, <1>1, <2>1, <2>2, OneSetting
<1>3. c.poll = config.poll /\ c.complete = config.complete
  BY <1>0, <1>1 DEF Config
<1>4. screens' = screens /\ bound' = bound /\ docked' \in {"none"} \cup ToSet(Displays)
  BY RedockedOnADisplay DEF HotkeyVisibility, HotkeyCycleEdge, HotkeyCycleScreen, TierChanged,
                            windows, SettingsState
<1>. QED BY <1>0, <1>1, <1>2, <1>3, <1>4, EventKeeps DEF EventSaves, gui, files, SettingsState

LEMMA RefreshKeeps ==
    ASSUME SettingsInv, RefreshMonitor
    PROVE  SettingsKept'
<1>. USE DEF SettingsInv
<1>. DEFINE target == resolve_target(config.monitor)
            changed == screens # {} /\ bound # target
<1>0. config \in Config /\ config.poll \in 1..60
  BY DEF SettingsState
<1>1. /\ InFrame /\ UNCHANGED <<app, persisted, disk, spare, excused, misread, screens>>
      /\ config' = IF changed /\ monitor_id_is_real_fallback(config.monitor, target)
                   THEN [config EXCEPT !.monitor = target] ELSE config
      /\ bound' = (IF changed THEN target ELSE bound)
      /\ docked' = (IF changed THEN target ELSE docked)
      /\ saving' = (IF changed THEN Save("event") ELSE Idle)
  BY DEF RefreshMonitor, gui, files
<1>2. changed => target \in ToSet(Displays)
  BY TargetIsADisplay
<1>. HIDE DEF target, changed
<1>3. bound' \in {"none"} \cup ToSet(Displays) /\ docked' \in {"none"} \cup ToSet(Displays)
  BY <1>1, <1>2 DEF SettingsState
<1>4. CASE changed
  <2>1. config' = config \/ config' = [config EXCEPT !.monitor = target]
    BY <1>1
  <2>2. config' \in Config
    BY <1>0, <1>2, <1>4, <2>1, OneSetting
  <2>3. config'.poll = config.poll /\ config'.complete = config.complete
    BY <1>0, <2>1 DEF Config
  <2>. QED BY <1>0, <1>1, <1>3, <1>4, <2>2, <2>3, EventKeeps
<1>5. CASE ~changed
  <2>1. config' = config /\ saving' = saving /\ saving = Idle
    BY <1>1, <1>5 DEF InFrame
  <2>2. SettingsState' /\ SavingState' /\ SpareIsConfig' /\ MemoryReachesDisk'
    BY <1>1, <1>3, <2>1 DEF SettingsState, SavingState, SpareIsConfig, MemoryReachesDisk
  <2>3. CompleteAfterWizard' /\ WizardIsNeeded'
    BY <1>1, <2>1 DEF CompleteAfterWizard, WizardIsNeeded
  <2>. QED BY <2>2, <2>3 DEF SettingsKept
<1>. QED BY <1>4, <1>5

LEMMA ReloadKeeps ==
    ASSUME SettingsInv, HotkeyReload
    PROVE  SettingsKept'
<1>. USE DEF SettingsInv
<1>1. /\ InFrame
      /\ UNCHANGED <<app, persisted, saving, disk, spare, screens, bound, misread>>
      /\ \/ /\ disk.state = "whole" /\ config' = clamp_values(disk.config) /\ excused' = FALSE
         \/ UNCHANGED <<config, excused>>
  BY DEF HotkeyReload, gui, files
<1>2. disk.config \in Config
  BY WholeIsFile DEF SettingsState
<1>3. /\ clamp_values(disk.config) \in Config /\ clamp_values(disk.config).poll \in 1..60
      /\ clamp_values(disk.config).complete = disk.config.complete
      /\ SameSettings(clamp_values(disk.config), clamp_values(disk.config))
  BY <1>2, ClampIsConfig, SameButTier
<1>4. docked' \in {"none"} \cup ToSet(Displays)
  BY RedockedOnADisplay DEF HotkeyReload
<1>5. SettingsState'
  BY <1>1, <1>3, <1>4 DEF SettingsState
<1>6. SavingState' /\ SpareIsConfig'
  BY <1>1 DEF SavingState, SpareIsConfig, InFrame, Idle
<1>7. MemoryReachesDisk'
  BY <1>1, <1>3 DEF MemoryReachesDisk
<1>8. CompleteAfterWizard' /\ WizardIsNeeded'
  BY <1>1, <1>3 DEF CompleteAfterWizard, WizardIsNeeded
<1>. QED BY <1>5, <1>6, <1>7, <1>8 DEF SettingsKept

LEMMA EndsAndOthersKeep ==
    ASSUME SettingsInv, Exit \/ Crash \/ SwitchScreens \/ HandEdit \/ UNCHANGED settingsVars
    PROVE  SettingsKept'
<1>. USE DEF SettingsInv
<1>1. CASE Exit
  <2>1. /\ app # "closed" /\ saving = Idle
        /\ UNCHANGED <<persisted, disk, spare, screens, bound, docked, excused, misread>>
    BY <1>1 DEF Exit, InFrame, files, windows
  <2>2. CASE app = "wizard"
    <3>1. config' = [Default EXCEPT !.complete = TRUE] /\ saving' = Save("exit") /\ app' = app
      BY <1>1, <2>2 DEF Exit
    <3>2. config' \in Config /\ config'.poll \in 1..60 /\ config'.complete
      BY <3>1, DefaultIsConfig
    <3>3. SettingsState'
      BY <2>1, <3>1, <3>2 DEF SettingsState
    <3>. QED BY <2>1, <2>2, <3>1, <3>2, <3>3
         DEF SettingsKept, SavingState, SpareIsConfig, MemoryReachesDisk, CompleteAfterWizard,
             WizardIsNeeded, Save, Idle
  <2>3. CASE app # "wizard"
    <3>1. app' = "closed" /\ config' = config /\ saving' = Idle
      BY <1>1, <2>1, <2>3 DEF Exit
    <3>2. SettingsState'
      BY <2>1, <3>1 DEF SettingsState
    <3>. QED BY <2>1, <3>1, <3>2
         DEF SettingsKept, SavingState, SpareIsConfig, MemoryReachesDisk, CompleteAfterWizard,
             WizardIsNeeded, Idle
  <2>. QED BY <2>2, <2>3
<1>2. CASE Crash
  <2>1. /\ app' = "closed" /\ saving' = Idle /\ spare' \in {spare, Torn, Whole(config)}
        /\ UNCHANGED <<config, persisted, disk, screens, bound, docked>>
    BY <1>2 DEF Crash, windows
  <2>2. spare' \in File
    BY <2>1, WholeIsFile DEF SettingsState
  <2>3. SettingsState'
    BY <2>1, <2>2 DEF SettingsState
  <2>. QED BY <2>1, <2>3
       DEF SettingsKept, SavingState, SpareIsConfig, MemoryReachesDisk, CompleteAfterWizard,
           WizardIsNeeded, Idle
<1>3. CASE SwitchScreens
  <2>1. /\ UNCHANGED <<app, config, persisted, saving, disk, spare, bound, excused, misread>>
        /\ screens' \subseteq ToSet(Displays) /\ docked' \in {docked, "none"}
    BY <1>3 DEF SwitchScreens, gui, files
  <2>2. SettingsState'
    BY <2>1 DEF SettingsState
  <2>. QED BY <2>1, <2>2
       DEF SettingsKept, SavingState, SpareIsConfig, MemoryReachesDisk, CompleteAfterWizard,
           WizardIsNeeded
<1>4. CASE HandEdit
  <2>1. /\ UNCHANGED <<app, config, persisted, saving, spare, screens, bound, docked, misread>>
        /\ excused' = TRUE /\ disk.state = "whole" /\ disk.config.complete
        /\ disk' \in {Torn} \cup {Whole([disk.config EXCEPT !.poll = poll]) : poll \in Typed}
    BY <1>4 DEF HandEdit, gui, windows
  <2>2. disk' \in File /\ (disk'.state = "whole" => disk'.config.complete)
    <3>1. CASE disk' = Torn
      BY <3>1, DefaultIsConfig, WholeIsFile
    <3>2. CASE \E poll \in Typed : disk' = Whole([disk.config EXCEPT !.poll = poll])
      <4>1. PICK poll \in Typed : disk' = Whole([disk.config EXCEPT !.poll = poll])
        BY <3>2
      <4>2. disk.config \in Config /\ poll \in Nat
        BY SettingsAssumption, WholeIsFile DEF SettingsState
      <4>. DEFINE c == [disk.config EXCEPT !.poll = poll]
      <4>3. c \in Config /\ c.complete
        BY <2>1, <4>2, OneSetting DEF Config
      <4>. HIDE DEF c
      <4>4. disk' = Whole(c)
        BY <4>1 DEF c
      <4>. QED BY <4>3, <4>4, WholeIsFile
    <3>. QED BY <2>1, <3>1, <3>2
  <2>3. SettingsState'
    BY <2>1, <2>2 DEF SettingsState
  <2>. QED BY <2>1, <2>2, <2>3
       DEF SettingsKept, SavingState, SpareIsConfig, MemoryReachesDisk, CompleteAfterWizard,
           WizardIsNeeded
<1>5. CASE UNCHANGED settingsVars
  BY <1>5 DEF settingsVars, SettingsState, SettingsKept, SavingState, SpareIsConfig,
              MemoryReachesDisk, CompleteAfterWizard, WizardIsNeeded
<1>. QED BY <1>1, <1>2, <1>3, <1>4, <1>5

LEMMA SettingsBoundsKept ==
    ASSUME SettingsInv, [SettingsNext]_settingsVars
    PROVE  SettingsBounds'
<1>. USE DEF SettingsInv
<1>0. Faulty(0) => faults' = faults \/ Faulty(0)
  OBVIOUS
<1>1. CASE Launch
  BY <1>1, BoundsStep DEF Launch
<1>2. CASE atomic_write_config
  BY <1>2, BoundsStep DEF atomic_write_config, WriteSpare, RenameSpare
<1>3. CASE render_wizard
  BY <1>3, BoundsStep DEF render_wizard, files
<1>4. CASE ToggleGear \/ EditInPanel \/ handle_grip_drag
  <2>1. \E c, shown : SidebarFrame(c, shown)
    BY <1>4 DEF ToggleGear, EditInPanel, handle_grip_drag
  <2>2. Input /\ edits' = edits /\ launches' = launches
    BY <2>1 DEF SidebarFrame
  <2>3. faults' = faults
    BY <1>4 DEF ToggleGear, EditInPanel, handle_grip_drag
  <2>. QED BY <2>2, <2>3, BoundsStep
<1>5. CASE EditRunAtStartup
  <2>1. \E c, shown : SidebarFrame(c, shown)
    BY <1>5 DEF EditRunAtStartup, set_enabled
  <2>2. Input /\ edits' = edits /\ launches' = launches
    BY <2>1 DEF SidebarFrame
  <2>3. Faulty(0) \/ Faulty(1)
    BY <1>5 DEF EditRunAtStartup, set_enabled
  <2>. QED BY <2>2, <2>3, BoundsStep
<1>6. CASE HotkeyVisibility \/ HotkeyCycleEdge \/ HotkeyCycleScreen \/ TierChanged
  <2>1. Input /\ \E c : EventSaves(c)
    BY <1>6 DEF HotkeyVisibility, HotkeyCycleEdge, HotkeyCycleScreen, TierChanged
  <2>. QED BY <2>1, BoundsStep DEF EventSaves, files
<1>7. CASE HotkeyReload
  BY <1>7, BoundsStep DEF HotkeyReload, files
<1>8. CASE RefreshMonitor \/ Exit \/ UNCHANGED settingsVars
  BY <1>8, BoundsStep DEF RefreshMonitor, Exit, settingsVars, files, counts
<1>9. CASE Crash
  BY <1>9, BoundsStep DEF Crash
<1>10. CASE SwitchScreens
  BY <1>10, BoundsStep DEF SwitchScreens, files
<1>11. CASE HandEdit
  BY <1>11, BoundsStep DEF HandEdit
<1>. QED BY <1>1, <1>2, <1>3, <1>4, <1>5, <1>6, <1>7, <1>8, <1>9, <1>10, <1>11 DEF SettingsNext

LEMMA SettingsInvStep ==
    ASSUME SettingsInv, [SettingsNext]_settingsVars
    PROVE  SettingsInv'
<1>1. SettingsBounds'
  BY SettingsBoundsKept
<1>2. SettingsKept'
  BY LaunchKeeps, SaveKeeps, WizardKeeps, SidebarKeeps, HotkeysKeep, RefreshKeeps, ReloadKeeps,
     EndsAndOthersKeep
  DEF SettingsNext
<1>. QED BY <1>1, <1>2 DEF SettingsInv, SettingsKept

LEMMA SettingsInvHolds == DesktopSpec => []SettingsInv
<1>1. SettingsInv /\ [SettingsNext]_settingsVars => SettingsInv'
  BY SettingsInvStep
<1>. QED BY <1>1, SettingsInvInit, BehaviourOfEach, PTL

\* Between saves the file holds the settings in memory (gui/mod.rs,
\* try_persist_config and its callers), whatever fails, ends or reloads.
THEOREM MemoryReachesDiskHolds == DesktopSpec => []MemoryReachesDisk
<1>1. SettingsInv => MemoryReachesDisk
  BY DEF SettingsInv
<1>. QED BY <1>1, SettingsInvHolds, PTL

\* Only a rename puts something else into config.toml, and that is the settings in
\* memory (gui/mod.rs, atomic_write_config).
LEMMA WhoWritesTheFile ==
    ASSUME SettingsInv, [SettingsNext]_settingsVars, disk' # disk
    PROVE  \/ HandEdit
           \/ saving.step = "rename" /\ disk' = Whole(config)
<1>1. Launch => disk' = disk
  BY DEF Launch
<1>2. atomic_write_config => disk' = disk \/ (saving.step = "rename" /\ disk' = Whole(config))
  BY DEF atomic_write_config, WriteSpare, RenameSpare, SettingsInv, SpareIsConfig
<1>3. render_wizard \/ HotkeyReload \/ RefreshMonitor \/ Exit \/ Crash \/ SwitchScreens => disk' = disk
  BY DEF render_wizard, HotkeyReload, RefreshMonitor, Exit, Crash, SwitchScreens, files
<1>4. ToggleGear \/ EditInPanel \/ EditRunAtStartup \/ handle_grip_drag => disk' = disk
  BY DEF ToggleGear, EditInPanel, EditRunAtStartup, set_enabled, handle_grip_drag, SidebarFrame
<1>5. HotkeyVisibility \/ HotkeyCycleEdge \/ HotkeyCycleScreen \/ TierChanged => disk' = disk
  BY DEF HotkeyVisibility, HotkeyCycleEdge, HotkeyCycleScreen, TierChanged, EventSaves, files
<1>. QED BY <1>1, <1>2, <1>3, <1>4, <1>5 DEF SettingsNext, settingsVars

\* A completed setup is never undone (gui/wizard.rs, gui/mod.rs), unless the
\* launch could not read the file.
THEOREM SetupIsKeptHolds == DesktopSpec => SetupIsKept
<1>1. ASSUME SettingsInv, [SettingsNext]_settingsVars
      PROVE  [disk.state = "whole" /\ disk.config.complete /\ ~misread /\ disk'.state = "whole" =>
                disk'.config.complete]_settingsVars
  <2>1. SUFFICES ASSUME disk.state = "whole", disk.config.complete, ~misread,
                        disk'.state = "whole", disk' # disk
                 PROVE  disk'.config.complete
    OBVIOUS
  <2>2. CASE HandEdit
    <3>1. PICK poll \in Typed : disk' = Whole([disk.config EXCEPT !.poll = poll])
      BY <2>1, <2>2 DEF HandEdit, Torn
    <3>2. disk.config \in Config
      BY <1>1, WholeIsFile DEF SettingsInv, SettingsState
    <3>3. [disk.config EXCEPT !.poll = poll].complete
      BY <2>1, <3>2 DEF Config
    <3>. QED BY <3>1, <3>3 DEF Whole
  <2>3. CASE saving.step = "rename" /\ disk' = Whole(config)
    <3>1. app # "closed" /\ app # "wizard"
      <4>1. app # "closed"
        BY <1>1, <2>3 DEF SettingsInv, SavingState, Idle
      <4>. QED BY <1>1, <2>1, <4>1 DEF SettingsInv, WizardIsNeeded
    <3>2. config.complete
      BY <1>1, <3>1 DEF SettingsInv, SettingsState, CompleteAfterWizard
    <3>. QED BY <2>3, <3>2 DEF Whole
  <2>. QED BY <1>1, <2>1, <2>2, <2>3, WhoWritesTheFile
<1>. QED BY <1>1, SettingsInvHolds, BehaviourOfEach, PTL DEF SetupIsKept

\* "primary" follows the primary display (settings_panel.rs): only a choice of the
\* user replaces it in the settings, never a monitor that goes, a launch that
\* falls back, a save that fails or a process that ends.
THEOREM PrimaryIsDynamicHolds == DesktopSpec => PrimaryIsDynamic
<1>1. ASSUME SettingsInv, [SettingsNext]_settingsVars
      PROVE  [app # "closed" /\ config.monitor = "primary" /\ config'.monitor # "primary" =>
                app = "wizard" \/ panel \/ changes' # changes]_settingsVars
  <2>1. SUFFICES ASSUME app # "closed", config.monitor = "primary", app # "wizard",
                        changes' = changes, SettingsNext
                 PROVE  config'.monitor = "primary"
    BY <1>1 DEF settingsVars
  <2>2. changes \in Nat /\ config \in Config
    BY <1>1, SettingsAssumption DEF SettingsInv, SettingsBounds, SettingsState
  <2>3. ~Input
    BY <2>1, <2>2 DEF Input
  <2>4. CASE atomic_write_config
    <3>1. config' \in {config, [config EXCEPT !.complete = FALSE]}
      BY <2>4 DEF atomic_write_config, WriteSpare, RenameSpare, Ends
    <3>. QED BY <2>1, <2>2, <3>1 DEF Config
  <2>5. CASE RefreshMonitor
    <3>1. ~monitor_id_is_real_fallback(config.monitor, resolve_target(config.monitor))
      BY <2>1 DEF monitor_id_is_real_fallback
    <3>. QED BY <2>1, <2>5, <3>1 DEF RefreshMonitor
  <2>6. CASE Exit \/ Crash
    BY <2>1, <2>6 DEF Exit, Crash
  <2>7. ~Launch
    BY <2>1 DEF Launch
  <2>8. ~(ToggleGear \/ EditInPanel \/ EditRunAtStartup \/ handle_grip_drag)
    BY <2>3 DEF ToggleGear, EditInPanel, EditRunAtStartup, set_enabled, handle_grip_drag,
                SidebarFrame
  <2>9. ~(\/ render_wizard \/ HotkeyVisibility \/ HotkeyCycleEdge \/ HotkeyCycleScreen
          \/ HotkeyReload \/ TierChanged \/ SwitchScreens \/ HandEdit)
    BY <2>3 DEF render_wizard, HotkeyVisibility, HotkeyCycleEdge, HotkeyCycleScreen,
                HotkeyReload, TierChanged, SwitchScreens, HandEdit
  <2>. QED BY <2>1, <2>4, <2>5, <2>6, <2>7, <2>8, <2>9 DEF SettingsNext
<1>. QED BY <1>1, SettingsInvHolds, BehaviourOfEach, PTL DEF PrimaryIsDynamic

\* What the program puts in the place of config.toml is whole, and is the settings
\* in memory (gui/mod.rs, atomic_write_config).
THEOREM OnlyWholeSavesHolds == DesktopSpec => OnlyWholeSaves
<1>1. ASSUME SettingsInv, [SettingsNext]_settingsVars
      PROVE  [edits' = edits => disk' \in {disk, Whole(config)}]_settingsVars
  <2>1. HandEdit => edits' # edits
    BY <1>1 DEF HandEdit, SettingsInv, SettingsBounds
  <2>. QED BY <1>1, <2>1, WhoWritesTheFile
<1>. QED BY <1>1, SettingsInvHolds, BehaviourOfEach, PTL DEF OnlyWholeSaves

\* The flags.
LEMMA SettingsFlagsStep ==
    ASSUME SettingsFlags, [SettingsNext]_settingsVars
    PROVE  SettingsFlags'
<1>0. /\ panel \in BOOLEAN /\ dragging \in BOOLEAN /\ backup \in BOOLEAN /\ runKey \in BOOLEAN
      /\ notice \in BOOLEAN /\ excused \in BOOLEAN /\ misread \in BOOLEAN
  BY DEF SettingsFlags
<1>1. backup' \in BOOLEAN
  <2>1. Launch => backup' \in BOOLEAN
    BY <1>0 DEF Launch
  <2>2. ~Launch => backup' = backup
    BY DEF SettingsNext, settingsVars, files, atomic_write_config, WriteSpare, RenameSpare,
           render_wizard, ToggleGear, EditInPanel, EditRunAtStartup, set_enabled,
           handle_grip_drag, SidebarFrame, HotkeyVisibility, HotkeyCycleEdge,
           HotkeyCycleScreen, TierChanged, EventSaves, HotkeyReload, RefreshMonitor, Exit,
           Crash, SwitchScreens, HandEdit
  <2>. QED BY <1>0, <2>1, <2>2
<1>2. runKey' \in BOOLEAN
  <2>1. EditRunAtStartup => runKey' \in BOOLEAN
    BY <1>0 DEF EditRunAtStartup, set_enabled
  <2>2. ~EditRunAtStartup => runKey' = runKey
    BY DEF SettingsNext, settingsVars, files, Launch, atomic_write_config, WriteSpare,
           RenameSpare, render_wizard, ToggleGear, EditInPanel, handle_grip_drag,
           HotkeyVisibility, HotkeyCycleEdge, HotkeyCycleScreen, TierChanged, EventSaves,
           HotkeyReload, RefreshMonitor, Exit, Crash, SwitchScreens, HandEdit
  <2>. QED BY <1>0, <2>1, <2>2
<1>3. panel' \in BOOLEAN /\ dragging' \in BOOLEAN
  <2>1. CASE ToggleGear \/ EditInPanel \/ EditRunAtStartup \/ handle_grip_drag
    <3>1. panel' \in {panel, ~panel, TRUE}
      BY <2>1 DEF ToggleGear, EditInPanel, EditRunAtStartup, set_enabled, handle_grip_drag,
                  SidebarFrame
    <3>2. dragging' \in {dragging, TRUE, FALSE}
      BY <2>1 DEF ToggleGear, EditInPanel, EditRunAtStartup, handle_grip_drag
    <3>. QED BY <1>0, <3>1, <3>2
  <2>2. CASE ~(ToggleGear \/ EditInPanel \/ EditRunAtStartup \/ handle_grip_drag)
    <3>1. panel' \in {panel, FALSE} /\ dragging' \in {dragging, FALSE}
      BY <2>2 DEF SettingsNext, settingsVars, gui, Launch, atomic_write_config, render_wizard,
                  HotkeyVisibility, HotkeyCycleEdge, HotkeyCycleScreen, TierChanged,
                  EventSaves, HotkeyReload, RefreshMonitor, Exit, Crash, SwitchScreens, HandEdit
    <3>. QED BY <1>0, <3>1
  <2>. QED BY <2>1, <2>2
<1>4. notice' \in BOOLEAN
  <2>1. SwitchScreens => notice' \in BOOLEAN
    BY DEF SwitchScreens
  <2>2. ~SwitchScreens => notice' \in {notice, FALSE}
    BY DEF SettingsNext, settingsVars, windows, Launch, atomic_write_config, render_wizard,
           ToggleGear, EditInPanel, EditRunAtStartup, set_enabled, handle_grip_drag,
           SidebarFrame, HotkeyVisibility, HotkeyCycleEdge, HotkeyCycleScreen, TierChanged,
           HotkeyReload, RefreshMonitor, Exit, Crash, HandEdit
  <2>. QED BY <1>0, <2>1, <2>2
<1>5. misread' \in BOOLEAN
  <2>1. Launch => misread' \in BOOLEAN
    BY DEF Launch
  <2>2. ~Launch => misread' = misread
    BY DEF SettingsNext, settingsVars, atomic_write_config, render_wizard,
           ToggleGear, EditInPanel, EditRunAtStartup, set_enabled, handle_grip_drag,
           SidebarFrame, HotkeyVisibility, HotkeyCycleEdge, HotkeyCycleScreen, TierChanged,
           EventSaves, HotkeyReload, RefreshMonitor, Exit, Crash, SwitchScreens, HandEdit
  <2>. QED BY <1>0, <2>1, <2>2
<1>6. excused' \in BOOLEAN
  <2>1. CASE Launch \/ HotkeyReload \/ HandEdit
    BY <1>0, <2>1 DEF Launch, HotkeyReload, HandEdit
  <2>2. CASE atomic_write_config
    BY <1>0, <2>2 DEF atomic_write_config, WriteSpare, RenameSpare, Ends
  <2>3. CASE ToggleGear \/ EditInPanel \/ EditRunAtStartup \/ handle_grip_drag
    <3>1. PICK c, shown : SidebarFrame(c, shown)
      BY <2>3 DEF ToggleGear, EditInPanel, EditRunAtStartup, set_enabled, handle_grip_drag
    <3>. QED BY <3>1 DEF SidebarFrame
  <2>4. CASE ~(Launch \/ HotkeyReload \/ HandEdit \/ atomic_write_config \/ ToggleGear
               \/ EditInPanel \/ EditRunAtStartup \/ handle_grip_drag)
    <3>1. excused' = excused
      BY <2>4 DEF SettingsNext, settingsVars, render_wizard, HotkeyVisibility,
                  HotkeyCycleEdge, HotkeyCycleScreen, TierChanged, EventSaves,
                  RefreshMonitor, Exit, Crash, SwitchScreens
    <3>. QED BY <1>0, <3>1
  <2>. QED BY <2>1, <2>2, <2>3, <2>4
<1>. QED BY <1>1, <1>2, <1>3, <1>4, <1>5, <1>6 DEF SettingsFlags

LEMMA SettingsTypeHolds == DesktopSpec => []SettingsTypeOK
<1>1. SettingsInit => SettingsFlags
  BY DEF SettingsInit, SettingsFlags
<1>2. SettingsFlags /\ [SettingsNext]_settingsVars => SettingsFlags'
  BY SettingsFlagsStep
<1>3. SettingsInv /\ SettingsFlags => SettingsTypeOK
  <2>1. SettingsBounds => edits \in 0..MaxChanges /\ changes \in 0..MaxChanges
                          /\ faults \in 0..MaxFaults /\ launches \in 0..MaxLaunches
    BY SettingsAssumption DEF SettingsBounds
  <2>2. SavingState => saving \in [step : {"none", "write", "rename"},
                                   after : {"none", "event", "panel", "finish", "exit"}]
    BY DEF SavingState, Idle
  <2>. QED BY <2>1, <2>2 DEF SettingsInv, SettingsState, SettingsFlags, SettingsTypeOK
<1>. QED BY <1>1, <1>2, <1>3, SettingsInvHolds, BehaviourOfEach, PTL
-----------------------------------------------------------------------------
(* History                                                                 *)

Batches == UNION {[found -> Nat] : found \in SUBSET Source}

\* The types, with those of the queue and of the batches that were taken.
HistoryState ==
    /\ ticks \in Nat /\ ticks <= MaxTicks
    /\ fresh \in Nat /\ fresh <= ticks
    /\ queue \in Seq([tick : Nat, values : Batches]) /\ Len(queue) <= ReadingsCapacity
    /\ \A i \in 1..Len(queue) : queue[i].tick <= ticks
    /\ lagged \in BOOLEAN
    /\ readings \in Batches /\ applied \in Seq(Batches)
    /\ popup \in {"none"} \cup {MetricOf(s) : s \in Source}

\* The readings on the screen are those of the last batch taken.
ShowsTheLast ==
    readings = IF applied = <<>> THEN NoReadings ELSE applied[Len(applied)]

\* Since batch k, which is without it or is before the first, a sensor is in all batches.
AbsentUntil(s, k) ==
    /\ k \in 0..Len(applied)
    /\ k = 0 \/ s \notin DOMAIN applied[k]
    /\ \A i \in k + 1 .. Len(applied) : s \in DOMAIN applied[i]

\* A window with its last samples of the batches behind the k-th.
EndsWith(line, s, k) ==
    /\ line \in Seq(Nat)
    /\ Len(line) = IF Len(applied) - k < WindowSize THEN Len(applied) - k ELSE WindowSize
    /\ \A j \in 1..Len(line) : line[j] = applied[Len(applied) - Len(line) + j][s]

\* WindowsFollowReadings with the batch that a window begins behind as a witness
\* and not as a maximum: this, and that the screen shows the last batch, is what
\* a new batch preserves.
HistoryInv ==
    /\ HistoryState /\ ShowsTheLast
    /\ DOMAIN traces = DOMAIN readings
    /\ \A s \in DOMAIN traces :
        \E k \in Nat : AbsentUntil(s, k) /\ EndsWith(traces[s], s, k)

LEMMA HistoryInvInit == HistoryInit => HistoryInv
<1>. SUFFICES ASSUME HistoryInit PROVE HistoryInv
  OBVIOUS
<1>1. NoReadings \in Batches
  BY DEF NoReadings, Batches
<1>2. ticks \in Nat /\ ticks <= MaxTicks /\ fresh \in Nat /\ fresh <= ticks
  BY HistoryAssumption DEF HistoryInit
<1>3. /\ queue \in Seq([tick : Nat, values : Batches]) /\ Len(queue) = 0
      /\ applied \in Seq(Batches)
  BY DEF HistoryInit
<1>4. HistoryState
  <2>1. lagged \in BOOLEAN /\ popup \in {"none"} \cup {MetricOf(s) : s \in Source}
    BY DEF HistoryInit
  <2>2. readings \in Batches
    BY <1>1 DEF HistoryInit
  <2>3. Len(queue) <= ReadingsCapacity /\ \A i \in 1..Len(queue) : queue[i].tick <= ticks
    BY <1>3, HistoryAssumption
  <2>. QED BY <1>2, <1>3, <2>1, <2>2, <2>3 DEF HistoryState
<1>. QED BY <1>4 DEF HistoryInit, HistoryInv, ShowsTheLast, NoReadings

\* The window of a sensor that is not there is empty, and that is what it has of
\* the batches since it was: the last.
LEMMA AnyWindow ==
    ASSUME HistoryInv, NEW s
    PROVE  \E k \in Nat : AbsentUntil(s, k) /\ EndsWith(Window(s), s, k)
<1>1. CASE s \in DOMAIN traces
  BY <1>1 DEF HistoryInv, Window
<1>2. CASE s \notin DOMAIN traces
  <2>1. AbsentUntil(s, Len(applied))
    BY <1>2 DEF HistoryInv, HistoryState, ShowsTheLast, AbsentUntil
  <2>2. EndsWith(<<>>, s, Len(applied))
    BY HistoryAssumption DEF HistoryInv, HistoryState, EndsWith
  <2>. QED BY <1>2, <2>1, <2>2 DEF Window, HistoryInv, HistoryState
<1>. QED BY <1>1, <1>2

\* A batch that has the sensor goes to the end of its window.
LEMMA PushKeeps ==
    ASSUME applied \in Seq(Batches), NEW values \in Batches, applied' = Append(applied, values),
           NEW s \in DOMAIN values, NEW line, NEW k \in Nat,
           AbsentUntil(s, k), EndsWith(line, s, k)
    PROVE  /\ AbsentUntil(s, k)'
           /\ EndsWith(push(line, values[s]), s, k)'
<1>. DEFINE n == Len(applied)
            cut == IF Len(line) >= WindowSize THEN Tail(line) ELSE line
<1>1. /\ n \in Nat /\ Len(applied') = n + 1 /\ applied'[n + 1] = values
      /\ \A i \in 1..n : applied'[i] = applied[i]
  OBVIOUS
<1>2. AbsentUntil(s, k)'
  <2>1. ASSUME NEW i \in k + 1 .. n + 1 PROVE s \in DOMAIN applied'[i]
    BY <1>1 DEF AbsentUntil
  <2>. QED BY <1>1, <2>1 DEF AbsentUntil
<1>3. values[s] \in Nat
  BY DEF Batches
<1>4. /\ line \in Seq(Nat) /\ Len(line) \in Nat /\ k <= n
      /\ Len(line) = IF n - k < WindowSize THEN n - k ELSE WindowSize
      /\ \A j \in 1..Len(line) : line[j] = applied[n - Len(line) + j][s]
  BY DEF EndsWith, AbsentUntil
<1>5. PICK m \in Nat : m = Len(cut)
  <2>1. Len(line) >= WindowSize => line # <<>>
    BY <1>4, HistoryAssumption
  <2>2. CASE Len(line) >= WindowSize
    <3>1. Tail(line) \in Seq(Nat) /\ cut = Tail(line)
      BY <1>4, <2>1, <2>2, HeadTailProperties
    <3>. QED BY <3>1, LenProperties
  <2>3. CASE ~(Len(line) >= WindowSize)
    BY <1>4, <2>3
  <2>. QED BY <2>2, <2>3
<1>6. /\ cut \in Seq(Nat) /\ m < WindowSize /\ m <= n - k
      /\ m + 1 = IF n + 1 - k < WindowSize THEN n + 1 - k ELSE WindowSize
      /\ \A j \in 1..m : cut[j] = applied[n - m + j][s]
  <2>1. CASE Len(line) >= WindowSize
    <3>1. /\ Len(line) = WindowSize /\ line # <<>>
          /\ cut = Tail(line) /\ m = WindowSize - 1
      BY <1>4, <1>5, <2>1, HistoryAssumption
    <3>2. \A j \in 1..m : cut[j] = line[j + 1] /\ j + 1 \in 1..Len(line)
      BY <1>4, <3>1, HistoryAssumption
    <3>3. \A j \in 1..m : cut[j] = applied[n - Len(line) + (j + 1)][s]
      BY <1>4, <3>2
    <3>4. \A j \in 1..m : n - Len(line) + (j + 1) = n - m + j
      BY <1>1, <3>1, HistoryAssumption
    <3>5. \A j \in 1..m : cut[j] = applied[n - m + j][s]
      BY <3>3, <3>4
    <3>6. /\ m < WindowSize /\ m <= n - k
          /\ m + 1 = IF n + 1 - k < WindowSize THEN n + 1 - k ELSE WindowSize
      BY <1>1, <1>4, <3>1, HistoryAssumption
    <3>7. cut \in Seq(Nat)
      BY <1>4, <3>1, HeadTailProperties
    <3>. QED BY <3>5, <3>6, <3>7
  <2>2. CASE Len(line) < WindowSize
    <3>1. cut = line /\ m = Len(line) /\ m = n - k
      BY <1>1, <1>4, <1>5, <2>2, HistoryAssumption
    <3>2. m + 1 = IF n + 1 - k < WindowSize THEN n + 1 - k ELSE WindowSize
      BY <1>1, <3>1, <2>2, HistoryAssumption
    <3>3. m < WindowSize /\ m <= n - k
      BY <1>1, <3>1, <2>2, HistoryAssumption
    <3>. QED BY <1>4, <3>1, <3>2, <3>3
  <2>. QED BY <1>4, <2>1, <2>2, HistoryAssumption
<1>7. push(line, values[s]) = Append(cut, values[s])
  BY DEF push
<1>8. EndsWith(Append(cut, values[s]), s, k)'
  <2>. DEFINE longer == Append(cut, values[s])
  <2>1. /\ longer \in Seq(Nat) /\ Len(longer) = m + 1
        /\ longer[m + 1] = values[s]
        /\ \A j \in 1..m : longer[j] = cut[j]
    BY <1>3, <1>5, <1>6
  <2>2. ASSUME NEW j \in 1 .. m + 1
        PROVE  longer[j] = applied'[n + 1 - (m + 1) + j][s]
    <3>1. CASE j = m + 1
      BY <1>1, <2>1, <3>1
    <3>2. CASE j \in 1..m
      <4>1. n - m + j \in 1..n /\ n + 1 - (m + 1) + j = n - m + j
        BY <1>1, <1>4, <1>6, <3>2
      <4>2. applied'[n + 1 - (m + 1) + j] = applied[n - m + j]
        BY <1>1, <4>1
      <4>3. cut[j] = applied[n - m + j][s]
        BY <1>6, <3>2
      <4>. QED BY <2>1, <3>2, <4>2, <4>3
    <3>3. j = m + 1 \/ j \in 1..m
      BY <1>5
    <3>. QED BY <3>1, <3>2, <3>3
  <2>3. Len(applied') = n + 1 /\ WindowSize' = WindowSize
    BY <1>1
  <2>. HIDE DEF longer
  <2>4. Len(longer) = IF Len(applied') - k < WindowSize THEN Len(applied') - k ELSE WindowSize
    BY <1>6, <2>1, <2>3
  <2>5. \A j \in 1..Len(longer) : longer[j] = applied'[Len(applied') - Len(longer) + j][s]
    <3>1. ASSUME NEW j \in 1 .. m + 1
          PROVE  longer[j] = applied'[Len(applied') - Len(longer) + j][s]
      <4>1. Len(applied') - Len(longer) + j = n + 1 - (m + 1) + j
        BY <1>1, <2>1, <2>3
      <4>. QED BY <2>2, <4>1
    <3>. QED BY <2>1, <3>1
  <2>6. longer \in Seq(Nat)
    BY <2>1
  <2>7. EndsWith(longer, s, k)'
    BY <2>3, <2>4, <2>5, <2>6 DEF EndsWith
  <2>. QED BY <2>7 DEF longer
<1>. QED BY <1>2, <1>7, <1>8

\* A step of the poller leaves what the GUI has.
LEMMA SendKeeps ==
    ASSUME HistoryInv, Send
    PROVE  HistoryInv'
<1>1. PICK sample \in [tick : Nat, values : Batches] :
        /\ sample.tick = ticks + 1
        /\ queue' = Append(IF Len(queue) = ReadingsCapacity THEN Tail(queue) ELSE queue, sample)
  <2>1. PICK found \in Plugged, silent \in SUBSET Source :
          queue' = Append(IF Len(queue) = ReadingsCapacity THEN Tail(queue) ELSE queue,
                          [tick |-> ticks + 1,
                           values |-> [s \in found |-> IF s \in silent THEN NotANumber
                                                       ELSE ticks + 1]])
    BY HistoryAssumption DEF Send
  <2>2. [s \in found |-> IF s \in silent THEN NotANumber ELSE ticks + 1] \in [found -> Nat]
    BY DEF HistoryInv, HistoryState, NotANumber
  <2>3. [s \in found |-> IF s \in silent THEN NotANumber ELSE ticks + 1] \in Batches
    BY <2>2, HistoryAssumption DEF Batches
  <2>4. ticks + 1 \in Nat
    BY DEF HistoryInv, HistoryState
  <2>5. [tick |-> ticks + 1,
         values |-> [s \in found |-> IF s \in silent THEN NotANumber ELSE ticks + 1]]
          \in [tick : Nat, values : Batches]
    BY <2>3, <2>4
  <2>. QED BY <2>1, <2>5
<1>2. /\ ticks' = ticks + 1 /\ ticks' \in Nat /\ ticks' <= MaxTicks
      /\ ticks \in Nat
  BY HistoryAssumption DEF Send, HistoryInv, HistoryState
<1>3. /\ queue' \in Seq([tick : Nat, values : Batches]) /\ Len(queue') <= ReadingsCapacity
      /\ \A i \in 1..Len(queue') : queue'[i].tick <= ticks'
  <2>. DEFINE kept == IF Len(queue) = ReadingsCapacity THEN Tail(queue) ELSE queue
  <2>1. /\ kept \in Seq([tick : Nat, values : Batches]) /\ Len(kept) < ReadingsCapacity
        /\ \A i \in 1..Len(kept) : kept[i].tick <= ticks
    <3>1. CASE Len(queue) = ReadingsCapacity
      <4>1. queue # <<>> /\ kept = Tail(queue)
        BY <3>1, HistoryAssumption DEF HistoryInv, HistoryState
      <4>2. /\ kept \in Seq([tick : Nat, values : Batches]) /\ Len(kept) = Len(queue) - 1
            /\ \A i \in 1..Len(kept) : kept[i] = queue[i + 1]
        BY <4>1, HeadTailProperties DEF HistoryInv, HistoryState
      <4>. QED BY <3>1, <4>2, HistoryAssumption DEF HistoryInv, HistoryState
    <3>2. CASE Len(queue) # ReadingsCapacity
      BY <3>2, HistoryAssumption DEF HistoryInv, HistoryState
    <3>. QED BY <3>1, <3>2
  <2>2. queue' = Append(kept, sample)
    BY <1>1
  <2>. HIDE DEF kept
  <2>3. /\ queue' \in Seq([tick : Nat, values : Batches]) /\ Len(queue') = Len(kept) + 1
        /\ queue'[Len(kept) + 1] = sample
        /\ \A i \in 1..Len(kept) : queue'[i] = kept[i]
    BY <2>1, <2>2, AppendProperties
  <2>4. Len(kept) \in Nat /\ \A i \in 1..Len(kept) : kept[i].tick \in Nat
    <3>1. \A i \in 1..Len(kept) : kept[i] \in [tick : Nat, values : Batches]
      BY <2>1, ElementOfSeq
    <3>. QED BY <2>1, <3>1, LenProperties
  <2>5. ASSUME NEW i \in 1 .. Len(kept) + 1 PROVE queue'[i].tick <= ticks'
    <3>1. CASE i = Len(kept) + 1
      BY <1>1, <1>2, <2>3, <3>1
    <3>2. CASE i \in 1..Len(kept)
      <4>1. queue'[i].tick = kept[i].tick /\ kept[i].tick <= ticks /\ kept[i].tick \in Nat
        BY <2>1, <2>3, <2>4, <3>2
      <4>. QED BY <1>2, <4>1
    <3>. QED BY <2>4, <3>1, <3>2
  <2>. QED BY <2>1, <2>3, <2>4, <2>5, HistoryAssumption
<1>4. UNCHANGED <<readings, traces, applied, fresh, popup>> /\ lagged' \in BOOLEAN
  BY DEF Send, HistoryInv, HistoryState
<1>5. fresh' \in Nat /\ fresh' <= ticks'
  BY <1>2, <1>4 DEF HistoryInv, HistoryState
<1>6. HistoryState'
  BY <1>2, <1>3, <1>4, <1>5 DEF HistoryInv, HistoryState
<1>7. \A s \in DOMAIN traces' :
        \E k \in Nat : AbsentUntil(s, k)' /\ EndsWith(traces[s], s, k)'
  BY <1>4 DEF HistoryInv, AbsentUntil, EndsWith
<1>. QED BY <1>4, <1>6, <1>7 DEF HistoryInv, ShowsTheLast

\* Nor does a drain that finds nothing, whatever becomes of the queue.
LEMMA NothingTaken ==
    ASSUME HistoryInv, UNCHANGED <<ticks, readings, traces, applied, fresh>>,
           queue' \in {queue, <<>>}, lagged' \in BOOLEAN,
           popup' \in {"none"} \cup {MetricOf(s) : s \in Source}
    PROVE  HistoryInv'
<1>1. /\ queue' \in Seq([tick : Nat, values : Batches]) /\ Len(queue') <= ReadingsCapacity
      /\ \A i \in 1..Len(queue') : queue'[i].tick <= ticks'
  <2>1. CASE queue' = queue
    BY <2>1 DEF HistoryInv, HistoryState
  <2>2. CASE queue' = <<>>
    BY <2>2, HistoryAssumption
  <2>. QED BY <2>1, <2>2
<1>2. HistoryState'
  BY <1>1 DEF HistoryInv, HistoryState
<1>3. \A s \in DOMAIN traces' :
        \E k \in Nat : AbsentUntil(s, k)' /\ EndsWith(traces[s], s, k)'
  BY DEF HistoryInv, AbsentUntil, EndsWith
<1>. QED BY <1>2, <1>3 DEF HistoryInv, ShowsTheLast

\* A batch that is taken extends the windows of its sensors, and no other stays.
LEMMA ReplaceKeeps ==
    ASSUME HistoryInv, NEW sample \in [tick : Nat, values : Batches], sample.tick <= ticks,
           replace_readings(sample), UNCHANGED ticks, queue' = <<>>, lagged' \in BOOLEAN,
           popup' \in {"none"} \cup {MetricOf(s) : s \in Source}
    PROVE  HistoryInv'
<1>1. PICK values \in Batches : values = sample.values
  OBVIOUS
<1>2. /\ readings' = values /\ applied' = Append(applied, values) /\ applied \in Seq(Batches)
      /\ traces' = [s \in DOMAIN values |-> push(Window(s), values[s])]
  BY <1>1 DEF replace_readings, retain_recent, HistoryInv, HistoryState
<1>3. /\ applied' \in Seq(Batches) /\ Len(applied') = Len(applied) + 1
      /\ applied'[Len(applied')] = values /\ applied' # <<>>
  BY <1>2, AppendProperties
<1>4. fresh' \in Nat /\ fresh' <= ticks'
  BY DEF replace_readings, HistoryInv, HistoryState
<1>5. HistoryState'
  BY <1>2, <1>3, <1>4, HistoryAssumption DEF HistoryInv, HistoryState
<1>6. ASSUME NEW s \in DOMAIN traces'
      PROVE  \E k \in Nat : AbsentUntil(s, k)' /\ EndsWith(traces[s], s, k)'
  <2>1. s \in DOMAIN values /\ traces'[s] = push(Window(s), values[s])
    BY <1>2
  <2>2. PICK k \in Nat : AbsentUntil(s, k) /\ EndsWith(Window(s), s, k)
    BY AnyWindow
  <2>3. AbsentUntil(s, k)' /\ EndsWith(traces[s], s, k)'
    <3>1. PICK line : line = Window(s)
      OBVIOUS
    <3>2. AbsentUntil(s, k) /\ EndsWith(line, s, k)
      BY <2>2, <3>1
    <3>3. AbsentUntil(s, k)' /\ EndsWith(push(line, values[s]), s, k)'
      BY <1>2, <2>1, <3>2, PushKeeps
    <3>4. traces'[s] = push(line, values[s])
      BY <2>1, <3>1
    <3>. QED BY <3>3, <3>4 DEF EndsWith
  <2>. QED BY <2>3
<1>7. DOMAIN traces' = DOMAIN readings'
  BY <1>2
<1>. QED BY <1>2, <1>3, <1>5, <1>6, <1>7 DEF HistoryInv, ShowsTheLast

LEMMA HistoryInvStep ==
    ASSUME HistoryInv, [HistoryNext]_historyVars
    PROVE  HistoryInv'
<1>1. CASE UNCHANGED historyVars
  <2>1. queue' \in {queue, <<>>} /\ lagged' \in BOOLEAN
    BY <1>1 DEF historyVars, HistoryInv, HistoryState
  <2>2. popup' \in {"none"} \cup {MetricOf(s) : s \in Source}
    BY <1>1 DEF historyVars, HistoryInv, HistoryState
  <2>. QED BY <1>1, <2>1, <2>2, NothingTaken DEF historyVars
<1>2. CASE Send
  BY <1>2, SendKeeps
<1>3. CASE Frame \/ HiddenFrame
  <2>1. /\ UNCHANGED ticks
        /\ popup' \in {"none"} \cup {MetricOf(s) : s \in Source}
    BY <1>3 DEF Frame, HiddenFrame, HistoryInv, HistoryState
  <2>2. /\ lagged' \in BOOLEAN
        /\ Take \/ UNCHANGED <<queue, readings, traces, applied, fresh>>
    BY <1>3 DEF Frame, HiddenFrame, drain_broadcast, HistoryInv, HistoryState
  <2>3. CASE Take /\ queue # <<>>
    <3>1. /\ Len(queue) \in 1..Len(queue) /\ Last(queue) = queue[Len(queue)]
          /\ \A i \in 1..Len(queue) : queue[i] \in [tick : Nat, values : Batches]
      <4>1. queue \in Seq([tick : Nat, values : Batches])
        BY DEF HistoryInv, HistoryState
      <4>2. Len(queue) \in 1..Len(queue)
        BY <2>3, <4>1
      <4>3. \A i \in 1..Len(queue) : queue[i] \in [tick : Nat, values : Batches]
        BY <4>1, ElementOfSeq
      <4>. QED BY <4>2, <4>3 DEF Last
    <3>2. PICK sample \in [tick : Nat, values : Batches] :
            sample = Last(queue) /\ sample.tick <= ticks
      BY <3>1 DEF HistoryInv, HistoryState
    <3>3. replace_readings(sample) /\ queue' = <<>>
      BY <2>3, <3>2 DEF Take
    <3>. QED BY <2>1, <2>2, <3>2, <3>3, ReplaceKeeps
  <2>4. CASE ~(Take /\ queue # <<>>)
    <3>1. UNCHANGED <<readings, traces, applied, fresh>> /\ queue' \in {queue, <<>>}
      BY <2>2, <2>4 DEF Take
    <3>. QED BY <2>1, <2>2, <3>1, NothingTaken
  <2>. QED BY <2>3, <2>4
<1>. QED BY <1>1, <1>2, <1>3 DEF HistoryNext

LEMMA HistoryInvHolds == DesktopSpec => []HistoryInv
<1>1. HistoryInv /\ [HistoryNext]_historyVars => HistoryInv'
  BY HistoryInvStep
<1>. QED BY <1>1, HistoryInvInit, BehaviourOfEach, PTL

LEMMA HistoryTypes ==
    ASSUME HistoryInv
    PROVE  HistoryTypeOK
<1>1. ASSUME NEW s \in DOMAIN traces PROVE Len(traces[s]) <= WindowSize
  BY HistoryAssumption DEF HistoryInv, HistoryState, AbsentUntil, EndsWith
<1>2. DOMAIN readings \subseteq Source
  BY DEF HistoryInv, HistoryState, Batches
<1>3. ticks \in 0..MaxTicks /\ fresh \in 0..ticks
  BY HistoryAssumption DEF HistoryInv, HistoryState
<1>. QED BY <1>1, <1>2, <1>3 DEF HistoryInv, HistoryState, HistoryTypeOK

LEMMA SinceIsKnown ==
    ASSUME HistoryInv, NEW s, NEW k \in Nat, AbsentUntil(s, k)
    PROVE  Since(s) = [i \in 1 .. Len(applied) - k |-> applied[k + i][s]]
<1>. DEFINE absent == {i \in DOMAIN applied : s \notin DOMAIN applied[i]}
<1>1. /\ Len(applied) \in Nat /\ DOMAIN applied = 1..Len(applied) /\ k <= Len(applied)
      /\ applied \in Seq(Batches)
  BY LenProperties DEF HistoryInv, HistoryState, AbsentUntil
<1>2. k \in absent \cup {0} /\ \A i \in absent \cup {0} : i \in Nat /\ k >= i
  <2>1. ASSUME NEW i \in absent PROVE i \in Nat /\ k >= i
    BY <1>1 DEF AbsentUntil
  <2>2. k \in absent \cup {0}
    BY <1>1 DEF AbsentUntil
  <2>. QED BY <2>1, <2>2
<1>3. Max(absent \cup {0}) = k
  <2>. DEFINE some == absent \cup {0}
  <2>1. k \in some /\ \A i \in some : i \in Nat /\ k >= i
    BY <1>2
  <2>. HIDE DEF some
  <2>2. \A x \in some : (\A y \in some : x >= y) => x = k
    BY <2>1
  <2>3. Max(some) = k
    BY <2>1, <2>2 DEF Max
  <2>. QED BY <2>3 DEF some
<1>. DEFINE present == SubSeq(applied, k + 1, Len(applied))
<1>4. /\ DOMAIN present = 1 .. Len(applied) - k
      /\ \A i \in 1 .. Len(applied) - k : present[i] = applied[k + i]
  BY <1>1, SubSeqProperties
<1>5. Since(s) = [i \in DOMAIN present |-> present[i][s]]
  BY <1>3 DEF Since
<1>. QED BY <1>4, <1>5

\* A window is the end of the samples of its sensor since the sensor was absent.
LEMMA WindowIsTheEnd ==
    ASSUME HistoryInv, NEW s, NEW k \in Nat, NEW line,
           AbsentUntil(s, k), EndsWith(line, s, k)
    PROVE  LET all == Since(s)
           IN  line = SubSeq(all, Max({1, Len(all) - WindowSize + 1}), Len(all))
<1>. DEFINE all == Since(s)
<1>1. PICK n \in Nat : /\ n = Len(applied) - k /\ Len(applied) = k + n
                       /\ \A i \in 1..n : applied[k + i] \in Batches /\ s \in DOMAIN applied[k + i]
  <2>1. Len(applied) \in Nat /\ k <= Len(applied) /\ applied \in Seq(Batches)
    BY LenProperties DEF HistoryInv, HistoryState, AbsentUntil
  <2>2. \A i \in 1 .. Len(applied) - k : k + i \in 1..Len(applied) /\ k + i \in k + 1 .. Len(applied)
    BY <2>1
  <2>3. \A i \in 1 .. Len(applied) - k : applied[k + i] \in Batches /\ s \in DOMAIN applied[k + i]
    BY <2>1, <2>2, ElementOfSeq DEF AbsentUntil
  <2>4. Len(applied) - k \in Nat /\ Len(applied) = k + (Len(applied) - k)
    BY <2>1
  <2>. QED BY <2>3, <2>4
<1>2. all = [i \in 1..n |-> applied[k + i][s]]
  BY <1>1, SinceIsKnown
<1>3. ASSUME NEW i \in 1..n PROVE applied[k + i][s] \in Nat
  <2>1. PICK values : values = applied[k + i] /\ values \in Batches /\ s \in DOMAIN values
    BY <1>1
  <2>2. values[s] \in Nat
    BY <2>1 DEF Batches
  <2>. QED BY <2>1, <2>2
<1>4. Len(all) = n /\ \A i \in 1..n : all[i] = applied[k + i][s] /\ all[i] \in Nat
  BY <1>2, <1>3
<1>5. PICK m \in Nat : /\ m = Len(line) /\ m = IF n < WindowSize THEN n ELSE WindowSize
                       /\ line \in Seq(Nat)
                       /\ \A j \in 1..m : line[j] = applied[k + n - m + j][s]
  <2>1. Len(line) \in Nat /\ line \in Seq(Nat)
    BY LenProperties DEF EndsWith
  <2>2. Len(line) = IF n < WindowSize THEN n ELSE WindowSize
    BY <1>1 DEF EndsWith
  <2>3. \A j \in 1..Len(line) : line[j] = applied[k + n - Len(line) + j][s]
    <3>1. \A j \in 1..Len(line) : line[j] = applied[Len(applied) - Len(line) + j][s]
      BY DEF EndsWith
    <3>. QED BY <1>1, <3>1
  <2>4. PICK m \in Nat : m = Len(line)
    BY <2>1
  <2>. QED BY <2>1, <2>2, <2>3, <2>4
<1>6. Max({1, n - WindowSize + 1}) = n - m + 1
  <2>1. n - m + 1 \in {1, n - WindowSize + 1}
    BY <1>5, HistoryAssumption
  <2>2. \A y \in {1, n - WindowSize + 1} : y \in Int /\ n - m + 1 \in Int /\ n - m + 1 >= y
    BY <1>5, HistoryAssumption
  <2>3. PICK some, most : some = {1, n - WindowSize + 1} /\ most = n - m + 1
    OBVIOUS
  <2>4. \A x \in some : (\A y \in some : x >= y) => x = most
    BY <2>1, <2>2, <2>3
  <2>5. Max(some) = most
    BY <2>1, <2>2, <2>3, <2>4 DEF Max
  <2>. QED BY <2>3, <2>5
<1>. DEFINE end == SubSeq(all, n - m + 1, n)
<1>7. n - m + 1 \in Int /\ n \in Int /\ m <= n /\ n - (n - m + 1) + 1 = m
      /\ (n - m + 1 <= n \/ m = 0)
  BY <1>5, HistoryAssumption
<1>8. \A i \in n - m + 1 .. n : i \in 1..n
  BY <1>7, <1>5
<1>9. \A i \in n - m + 1 .. n : all[i] \in Nat
  BY <1>4, <1>8
<1>. HIDE DEF all
<1>10. /\ end \in Seq(Nat)
       /\ Len(end) = IF n - m + 1 <= n THEN n - (n - m + 1) + 1 ELSE 0
       /\ \A i \in 1 .. n - (n - m + 1) + 1 : end[i] = all[(n - m + 1) + i - 1]
  BY <1>7, <1>9, SubSeqProperties
<1>11. Len(end) = m /\ \A i \in 1..m : end[i] = all[(n - m + 1) + i - 1]
  BY <1>7, <1>10
<1>12. ASSUME NEW i \in 1..m PROVE line[i] = end[i]
  <2>1. (n - m + 1) + i - 1 = n - m + i /\ n - m + i \in 1..n /\ k + (n - m + i) = k + n - m + i
    BY <1>7
  <2>2. end[i] = applied[k + n - m + i][s]
    BY <1>4, <1>11, <2>1
  <2>. QED BY <1>5, <2>2
<1>. HIDE DEF end
<1>13. line = end
  BY <1>5, <1>10, <1>11, <1>12, SeqEqual
<1>. QED BY <1>4, <1>6, <1>13 DEF end, all

LEMMA HistoryWindows ==
    ASSUME HistoryInv
    PROVE  WindowsFollowReadings
<1>1. ASSUME NEW s \in DOMAIN traces
      PROVE  LET all == Since(s)
             IN  traces[s] = SubSeq(all, Max({1, Len(all) - WindowSize + 1}), Len(all))
  <2>1. PICK k \in Nat : AbsentUntil(s, k) /\ EndsWith(traces[s], s, k)
    BY DEF HistoryInv
  <2>. QED BY <2>1, WindowIsTheEnd
<1>. QED BY <1>1 DEF HistoryInv, WindowsFollowReadings

\* THEOREM.  A sensor has a window as long as it is among the readings on the
\* screen, and the window ends its samples since it was last absent (replace_readings
\* and retain_recent in graph.rs), whatever the channel drops and the frames skip.
THEOREM WindowsFollowReadingsHolds == DesktopSpec => []WindowsFollowReadings
<1>. QED BY HistoryInvHolds, HistoryWindows, PTL

\* A window ends with the reading on the screen.
EndsInReadings ==
    \A s \in DOMAIN readings : traces[s] # <<>> /\ Last(traces[s]) = readings[s]

LEMMA WindowEndsInReading ==
    ASSUME HistoryInv, NEW s \in DOMAIN readings
    PROVE  traces[s] # <<>> /\ Last(traces[s]) = readings[s]
<1>1. PICK k \in Nat : AbsentUntil(s, k) /\ EndsWith(traces[s], s, k)
  BY DEF HistoryInv
<1>2. applied # <<>> /\ applied \in Seq(Batches) /\ readings = applied[Len(applied)]
  <2>1. DOMAIN NoReadings = {}
    BY DEF NoReadings
  <2>2. applied # <<>>
    BY <2>1 DEF HistoryInv, ShowsTheLast
  <2>. QED BY <2>2 DEF HistoryInv, HistoryState, ShowsTheLast
<1>3. Len(applied) \in Nat \ {0}
  BY <1>2
<1>4. k < Len(applied)
  BY <1>1, <1>2, <1>3 DEF AbsentUntil
<1>5. Len(traces[s]) \in Nat \ {0} /\ traces[s] \in Seq(Nat)
  BY <1>1, <1>3, <1>4, HistoryAssumption DEF EndsWith
<1>6. traces[s][Len(traces[s])] = applied[Len(applied)][s]
  <2>1. PICK m \in Nat, n \in Nat \ {0} : m = Len(applied) /\ n = Len(traces[s])
    BY <1>3, <1>5
  <2>2. \A j \in 1..n : traces[s][j] = applied[m - n + j][s]
    BY <1>1, <2>1 DEF EndsWith
  <2>3. n \in 1..n /\ m - n + n = m
    BY <2>1
  <2>4. traces[s][n] = applied[m - n + n][s]
    BY <2>2, <2>3
  <2>. QED BY <2>1, <2>3, <2>4
<1>. QED BY <1>2, <1>5, <1>6 DEF Last

LEMMA WindowsEndInReadings == DesktopSpec => []EndsInReadings
<1>1. HistoryInv => EndsInReadings
  BY WindowEndsInReading DEF EndsInReadings
<1>. QED BY <1>1, HistoryInvHolds, PTL

\* The popup shows a metric that is on the screen, and ends with its reading
\* (snapshot_for_kind and the popup of gui/mod.rs): a sensor that goes takes the
\* popup with it, and one of the same kind that stays is drawn up to now.
THEOREM PopupIsLiveHolds == DesktopSpec => []PopupIsLive
<1>1. HistoryInit => PopupIsLive
  BY DEF HistoryInit, PopupIsLive
<1>2. ASSUME HistoryInv, HistoryInv', EndsInReadings', PopupIsLive, [HistoryNext]_historyVars
      PROVE  PopupIsLive'
  <2>1. CASE Frame
    <3>1. SUFFICES ASSUME graph' # NoGraph
                   PROVE  \E s \in DOMAIN readings' :
                            /\ MetricOf(s) = graph'.kind
                            /\ graph'.samples # <<>> /\ Last(graph'.samples) = readings'[s]
      BY DEF PopupIsLive
    <3>2. PICK kind, samples :
            /\ IsPresent(kind) /\ samples \in snapshot_for_kind(kind)
            /\ graph' = [kind |-> kind, samples |-> samples]
      BY <2>1, <3>1 DEF Frame
    <3>3. DOMAIN traces' = DOMAIN readings'
      BY <1>2 DEF HistoryInv
    <3>4. PICK s \in DOMAIN readings' : MetricOf(s) = kind /\ samples = traces'[s]
      BY <3>2, <3>3 DEF IsPresent, snapshot_for_kind
    <3>5. traces'[s] # <<>> /\ Last(traces'[s]) = readings'[s]
      BY <1>2, <3>4 DEF EndsInReadings
    <3>. QED BY <3>2, <3>4, <3>5
  <2>2. CASE HiddenFrame
    BY <2>2 DEF HiddenFrame, PopupIsLive
  <2>3. CASE Send \/ UNCHANGED historyVars
    BY <1>2, <2>3 DEF Send, historyVars, PopupIsLive
  <2>. QED BY <1>2, <2>1, <2>2, <2>3 DEF HistoryNext
<1>. QED BY <1>1, <1>2, HistoryInvHolds, WindowsEndInReadings, BehaviourOfEach, PTL

LEMMA HistoryTypeHolds == DesktopSpec => []HistoryTypeOK
<1>. QED BY HistoryInvHolds, HistoryTypes, PTL

-----------------------------------------------------------------------------
(* Hotkeys                                                                 *)

HotkeyIds == 1..9
Combination == [modifiers : SUBSET Modifiers, key : Keys \cup {"none", "junk"}]

LEMMA AllHotkeys ==
    /\ DOMAIN HotkeyKind = HotkeyIds /\ Len(HotkeyKind) = 9
    /\ ToSet(HotkeyKind) = {HotkeyKind[id] : id \in HotkeyIds}
<1>1. DOMAIN HotkeyKind = 1..9 /\ Len(HotkeyKind) = 9
  BY DEF HotkeyKind
<1>. QED BY <1>1 DEF ToSet, HotkeyIds

\* The types; what is bound to a hotkey that the configuration leaves out is blank.
HotkeysState ==
    /\ bindings \in [ToSet(HotkeyKind) -> Spellings \cup {<<>>}]
    /\ \A kind \in ToSet(HotkeyKind) \ Bindable : bindings[kind] = <<>>
    /\ taken \subseteq Combination
    /\ registered \in Nat /\ registered <= 9
    /\ messages \in Seq({Quit} \cup {Hotkey(id) : id \in HotkeyIds})
    /\ forwarded \in Seq(ToSet(HotkeyKind)) /\ dispatched \in Seq(ToSet(HotkeyKind))
    /\ thread \in {"none", "probes", "tells", "registers", "pumps", "unregisters", "returned"}
    /\ window \in {"starts", "waits", "open", "closes", "exits", "joins", "gone"}
    /\ thread # "none" => window # "starts"

\* What the thread was given, and what it has made of the part it has tried.
Registrations ==
    /\ thread = "none" => DOMAIN specs = {}
    /\ thread # "none" => specs = [id \in bound_kinds |-> combo_of(HotkeyKind[id])]
    /\ thread \in {"none", "probes", "tells"} => registered = 0 /\ DOMAIN owned = {}
    /\ thread = "registers" =>
        \A id \in DOMAIN specs : id <= registered => specs[id] \in taken \cup DOMAIN owned
    /\ \A combo \in DOMAIN owned :
        /\ combo \in Combination
        /\ owned[combo] \in HotkeyIds /\ HotkeyKind[owned[combo]] = FirstBound(combo)

\* The presses in the order of the queue: those handled, those in the channel,
\* and, until the thread has read WM_QUIT, the messages before it.
Listens == thread \notin {"unregisters", "returned"}

PressesInOrder ==
    LET d == Len(dispatched)
        f == Len(forwarded)
    IN  /\ d + f <= Len(presses)
        /\ \A i \in 1..d : dispatched[i] = FirstBound(presses[i])
        /\ \A i \in 1..f : forwarded[i] = FirstBound(presses[d + i])
        /\ Listens =>
            \A i \in 1..Len(messages) :
                (\A j \in 1..i : messages[j] # Quit) =>
                    /\ d + f + i <= Len(presses)
                    /\ kind_of(messages[i].id) = FirstBound(presses[d + f + i])
        /\ Listens /\ (\A i \in 1..Len(messages) : messages[i] # Quit) =>
            Len(presses) = d + f + Len(messages)

\* PressesKeepTheirOrder with the messages that the thread has not read, which
\* come next; each is what the press was when Windows posted it, because a
\* combination is owned under the id of the first hotkey that is bound to it.
HotkeysInv ==
    HotkeysState /\ Registrations /\ presses \in Seq(Combination) /\ PressesInOrder

LEMMA ParseIsCombination ==
    ASSUME NEW tokens
    PROVE  parse(tokens) \in Combination
<1>. DEFINE rest == {n \in DOMAIN tokens :
                        \/ tokens[n] \notin Modifiers
                        \/ \E m \in 1 .. n - 1 : tokens[m] = tokens[n]}
            key == {k \in Keys : \E n \in rest : rest = {n} /\ tokens[n] = k}
            chosen == IF rest = {} THEN "none" ELSE IF key = {} THEN "junk" ELSE CHOOSE k \in key : TRUE
<1>1. chosen \in Keys \cup {"none", "junk"}
  <2>1. key # {} => (CHOOSE k \in key : TRUE) \in key
    OBVIOUS
  <2>2. key \subseteq Keys
    OBVIOUS
  <2>. HIDE DEF key, rest
  <2>. QED BY <2>1, <2>2
<1>2. parse(tokens) = [modifiers |-> Modifiers \cap ToSet(tokens), key |-> chosen]
  BY DEF parse
<1>. HIDE DEF chosen
<1>. QED BY <1>1, <1>2 DEF Combination

LEMMA BlankIsNoCombo == ~IsCombo(parse(<<>>))
<1>1. parse(<<>>).key = "none"
  BY DEF parse
<1>. QED BY <1>1 DEF IsCombo, Keys

LEMMA HotkeysInvInit == HotkeysInit => HotkeysInv
<1>. SUFFICES ASSUME HotkeysInit PROVE HotkeysInv
  OBVIOUS
<1>1. PICK spelled \in [Bindable -> Spellings \cup {<<>>}] :
        bindings = [kind \in ToSet(HotkeyKind) |-> IF kind \in Bindable THEN spelled[kind] ELSE <<>>]
  BY DEF HotkeysInit
<1>2. /\ bindings \in [ToSet(HotkeyKind) -> Spellings \cup {<<>>}]
      /\ \A kind \in ToSet(HotkeyKind) \ Bindable : bindings[kind] = <<>>
  BY <1>1, HotkeysAssumption
<1>3. taken \subseteq Combination
  BY ParseIsCombination DEF HotkeysInit, combo_of
<1>4. HotkeysState
  BY <1>2, <1>3 DEF HotkeysInit, HotkeysState
<1>5. Registrations
  BY DEF HotkeysInit, Registrations
<1>6. presses \in Seq(Combination) /\ PressesInOrder
  BY DEF HotkeysInit, PressesInOrder
<1>. QED BY <1>4, <1>5, <1>6 DEF HotkeysInv

\* The next hotkey is the first bound to its combination, if that can be had.
LEMMA NextIsFirst ==
    ASSUME HotkeysState, Registrations, thread = "registers", Untried # {},
           specs[NextSpec] \notin taken \cup DOMAIN owned
    PROVE  HotkeyKind[NextSpec] = FirstBound(specs[NextSpec])
<1>1. specs = [id \in bound_kinds |-> combo_of(HotkeyKind[id])] /\ bound_kinds \subseteq HotkeyIds
  BY AllHotkeys DEF Registrations, bound_kinds
<1>2. Untried \in SUBSET Nat /\ NextSpec \in Untried /\ \A id \in Untried : NextSpec <= id
  <2>1. Untried \in SUBSET Nat
    <3>1. DOMAIN specs = bound_kinds
      BY <1>1
    <3>2. HotkeyIds \subseteq Nat
      BY DEF HotkeyIds
    <3>. QED BY <1>1, <3>1, <3>2 DEF Untried
  <2>. QED BY <2>1, LeastOfSome DEF NextSpec
<1>3. PICK c : c = specs[NextSpec]
  OBVIOUS
<1>. DEFINE same == {id \in DOMAIN HotkeyKind : combo_of(HotkeyKind[id]) = c}
<1>4. NextSpec \in same /\ IsCombo(c)
  BY <1>1, <1>2, <1>3, AllHotkeys DEF Untried, bound_kinds
<1>5. \A id \in same : id \in Nat /\ NextSpec <= id
  <2>1. SUFFICES ASSUME NEW id \in same, ~(NextSpec <= id) PROVE FALSE
    BY AllHotkeys DEF HotkeyIds
  <2>2. id \in bound_kinds /\ specs[id] = c
    BY <1>1, <1>4 DEF bound_kinds
  <2>3. id \in DOMAIN specs /\ id \notin Untried
    BY <1>1, <1>2, <2>1, <2>2
  <2>4. id <= registered
    BY <1>1, <2>2, <2>3 DEF Untried, HotkeyIds, HotkeysState
  <2>. QED BY <1>3, <2>2, <2>3, <2>4 DEF Registrations
<1>6. Min(same) = NextSpec
  <2>1. same \in SUBSET Nat /\ same # {}
    BY <1>4, <1>5
  <2>. HIDE DEF same
  <2>2. Min(same) \in same /\ Min(same) <= NextSpec
    BY <1>4, <2>1, LeastOfSome
  <2>. QED BY <1>5, <1>4, <2>2
<1>. QED BY <1>3, <1>6 DEF FirstBound

LEMMA SameFirst ==
    ASSUME UNCHANGED bindings
    PROVE  \A c : FirstBound(c)' = FirstBound(c)
  BY DEF FirstBound, combo_of

\* Steps that leave the presses where they are.
LEMMA PressesStay ==
    ASSUME PressesInOrder, UNCHANGED <<bindings, messages, forwarded, dispatched, presses>>,
           Listens' => Listens
    PROVE  PressesInOrder'
  BY SameFirst DEF PressesInOrder, kind_of

LEMMA PressKeeps ==
    ASSUME HotkeysInv, Press
    PROVE  PressesInOrder' /\ presses' \in Seq(Combination)
           /\ messages' \in Seq({Quit} \cup {Hotkey(id) : id \in HotkeyIds})
<1>1. PICK combo \in DOMAIN owned :
        /\ presses' = Append(presses, combo)
        /\ messages' = Append(messages, Hotkey(owned[combo]))
  BY DEF Press
<1>2. /\ combo \in Combination /\ owned[combo] \in HotkeyIds
      /\ HotkeyKind[owned[combo]] = FirstBound(combo)
  BY DEF HotkeysInv, Registrations
<1>3. PICK message \in {Hotkey(id) : id \in HotkeyIds} :
        /\ message = Hotkey(owned[combo]) /\ message # Quit
        /\ kind_of(message.id) = FirstBound(combo)
  <2>1. PICK id \in HotkeyIds : id = owned[combo] /\ HotkeyKind[id] = FirstBound(combo)
    BY <1>2
  <2>2. Hotkey(id).id = id /\ Hotkey(id).message # Quit.message
    BY DEF Hotkey, Quit
  <2>3. Hotkey(id) # Quit /\ kind_of(Hotkey(id).id) = FirstBound(combo)
    BY <2>1, <2>2 DEF kind_of
  <2>. QED BY <2>1, <2>3
<1>. DEFINE Message == {Quit} \cup {Hotkey(id) : id \in HotkeyIds}
<1>4. /\ messages \in Seq(Message) /\ presses \in Seq(Combination)
      /\ message \in Message
  BY <1>3 DEF HotkeysInv, HotkeysState
<1>. HIDE DEF Message
<1>5. PICK d \in Nat, f \in Nat, p \in Nat, m \in Nat :
        /\ d = Len(dispatched) /\ f = Len(forwarded) /\ p = Len(presses) /\ m = Len(messages)
  BY <1>4, LenProperties DEF HotkeysInv, HotkeysState
<1>6. /\ presses' \in Seq(Combination) /\ Len(presses') = p + 1 /\ presses'[p + 1] = combo
      /\ \A i \in 1..p : presses'[i] = presses[i]
  BY <1>1, <1>2, <1>4, <1>5, AppendProperties
<1>7. /\ messages' \in Seq(Message) /\ Len(messages') = m + 1 /\ messages'[m + 1] = message
      /\ \A i \in 1..m : messages'[i] = messages[i]
  BY <1>1, <1>3, <1>4, <1>5, AppendProperties
<1>8. UNCHANGED <<bindings, dispatched, forwarded, thread>>
  BY DEF Press, keys
<1>9. \A c : FirstBound(c)' = FirstBound(c)
  BY <1>8, SameFirst
<1>10. /\ d + f <= p
       /\ \A i \in 1..d : dispatched[i] = FirstBound(presses[i])
       /\ \A i \in 1..f : forwarded[i] = FirstBound(presses[d + i])
       /\ Listens => \A i \in 1..m : (\A j \in 1..i : messages[j] # Quit) =>
            d + f + i <= p /\ kind_of(messages[i].id) = FirstBound(presses[d + f + i])
       /\ Listens /\ (\A i \in 1..m : messages[i] # Quit) => p = d + f + m
  BY <1>5 DEF HotkeysInv, PressesInOrder
<1>11. /\ d + f <= p + 1
       /\ \A i \in 1..d : dispatched'[i] = FirstBound(presses[i])'
       /\ \A i \in 1..f : forwarded'[i] = FirstBound(presses[d + i])'
  <2>1. ASSUME NEW i \in 1..d PROVE dispatched'[i] = FirstBound(presses[i])'
    <3>1. i \in 1..p
      BY <1>10
    <3>2. PICK c : c = presses[i] /\ c = presses'[i]
      BY <1>6, <3>1
    <3>3. dispatched[i] = FirstBound(c) /\ FirstBound(presses[i])' = FirstBound(c)'
      BY <1>10, <3>2 DEF FirstBound
    <3>. QED BY <1>8, <1>9, <3>3
  <2>2. ASSUME NEW i \in 1..f PROVE forwarded'[i] = FirstBound(presses[d + i])'
    <3>1. d + i \in 1..p
      BY <1>10
    <3>2. PICK c : c = presses[d + i] /\ c = presses'[d + i]
      BY <1>6, <3>1
    <3>3. forwarded[i] = FirstBound(c) /\ FirstBound(presses[d + i])' = FirstBound(c)'
      BY <1>10, <3>2 DEF FirstBound
    <3>. QED BY <1>8, <1>9, <3>3
  <2>. QED BY <1>10, <2>1, <2>2
<1>12. Listens => \A i \in 1 .. m + 1 : (\A j \in 1..i : messages'[j] # Quit) =>
         d + f + i <= p + 1 /\ kind_of(messages'[i].id) = FirstBound(presses[d + f + i])'
  <2>. SUFFICES ASSUME Listens, NEW i \in 1 .. m + 1, \A j \in 1..i : messages'[j] # Quit
                PROVE  d + f + i <= p + 1
                       /\ kind_of(messages'[i].id) = FirstBound(presses[d + f + i])'
    OBVIOUS
  <2>1. \A j \in 1..i : j \in 1..m => messages[j] # Quit
    BY <1>7
  <2>2. CASE i \in 1..m
    <3>1. \A j \in 1..i : messages[j] # Quit
      BY <2>1, <2>2
    <3>2. d + f + i <= p /\ kind_of(messages[i].id) = FirstBound(presses[d + f + i])
      BY <1>10, <2>2, <3>1
    <3>3. d + f + i \in 1..p
      BY <3>2, <2>2
    <3>4. PICK c : c = presses[d + f + i] /\ c = presses'[d + f + i]
      BY <1>6, <3>3
    <3>5. FirstBound(presses[d + f + i])' = FirstBound(c)' /\ messages'[i] = messages[i]
      BY <1>7, <2>2, <3>4 DEF FirstBound
    <3>. QED BY <1>9, <3>2, <3>4, <3>5
  <2>3. CASE i = m + 1
    <3>1. \A j \in 1..m : messages[j] # Quit
      BY <2>1, <2>3
    <3>2. p = d + f + m
      BY <1>10, <3>1
    <3>3. d + f + i = p + 1
      BY <2>3, <3>2
    <3>4. presses'[d + f + i] = combo /\ messages'[i] = message
      BY <1>6, <1>7, <2>3, <3>3
    <3>5. FirstBound(presses[d + f + i])' = FirstBound(combo)'
      BY <3>4 DEF FirstBound
    <3>. QED BY <1>3, <1>9, <3>3, <3>4, <3>5
  <2>4. i \in 1..m \/ i = m + 1
    OBVIOUS
  <2>. QED BY <2>2, <2>3, <2>4
<1>13. Listens /\ (\A i \in 1 .. m + 1 : messages'[i] # Quit) => p + 1 = d + f + (m + 1)
  <2>. SUFFICES ASSUME Listens, \A i \in 1 .. m + 1 : messages'[i] # Quit
                PROVE  p + 1 = d + f + (m + 1)
    OBVIOUS
  <2>1. \A i \in 1..m : messages[i] # Quit
    BY <1>7
  <2>2. p = d + f + m
    BY <1>10, <2>1
  <2>. QED BY <2>2
<1>14. PressesInOrder'
  <2>1. Len(dispatched') = d /\ Len(forwarded') = f /\ (Listens' <=> Listens)
    BY <1>5, <1>8 DEF Listens
  <2>2. \A i \in 1 .. m + 1 : kind_of(messages[i].id)' = kind_of(messages'[i].id)
    BY DEF kind_of
  <2>. QED BY <1>6, <1>7, <1>11, <1>12, <1>13, <2>1, <2>2 DEF PressesInOrder
<1>. QED BY <1>6, <1>7, <1>14 DEF Message

LEMMA GetMessageKeeps ==
    ASSUME HotkeysInv, GetMessage
    PROVE  PressesInOrder'
           /\ messages' \in Seq({Quit} \cup {Hotkey(id) : id \in HotkeyIds})
           /\ forwarded' \in Seq(ToSet(HotkeyKind))
<1>. DEFINE Message == {Quit} \cup {Hotkey(id) : id \in HotkeyIds}
<1>1. messages \in Seq(Message) /\ messages # <<>> /\ forwarded \in Seq(ToSet(HotkeyKind))
      /\ Listens
  <2>1. messages \in Seq(Message) /\ forwarded \in Seq(ToSet(HotkeyKind))
    BY Zenon DEF HotkeysInv, HotkeysState
  <2>2. messages # <<>> /\ thread = "pumps"
    BY Zenon DEF GetMessage
  <2>. QED BY <2>1, <2>2 DEF Listens
<1>. HIDE DEF Message
<1>2. PICK d \in Nat, f \in Nat, p \in Nat, m \in Nat :
        /\ d = Len(dispatched) /\ f = Len(forwarded) /\ p = Len(presses) /\ m + 1 = Len(messages)
  <2>1. /\ Len(dispatched) \in Nat /\ Len(forwarded) \in Nat /\ Len(presses) \in Nat
        /\ Len(messages) - 1 \in Nat /\ (Len(messages) - 1) + 1 = Len(messages)
    BY <1>1, LenProperties DEF HotkeysInv, HotkeysState
  <2>. QED BY <2>1
<1>3. /\ messages' \in Seq(Message) /\ Len(messages') = m
      /\ \A i \in 1..m : messages'[i] = messages[i + 1]
  BY <1>1, <1>2, HeadTailProperties DEF GetMessage
<1>4. UNCHANGED <<bindings, dispatched, presses>>
  BY DEF GetMessage, keys
<1>5. \A c : FirstBound(c)' = FirstBound(c)
  BY <1>4, SameFirst
<1>6. /\ d + f <= p
      /\ \A i \in 1..d : dispatched[i] = FirstBound(presses[i])
      /\ \A i \in 1..f : forwarded[i] = FirstBound(presses[d + i])
      /\ \A i \in 1 .. m + 1 : (\A j \in 1..i : messages[j] # Quit) =>
           d + f + i <= p /\ kind_of(messages[i].id) = FirstBound(presses[d + f + i])
      /\ (\A i \in 1 .. m + 1 : messages[i] # Quit) => p = d + f + (m + 1)
  BY <1>1, <1>2 DEF HotkeysInv, PressesInOrder
<1>7. \A i : FirstBound(presses[i])' = FirstBound(presses[i])
  BY <1>4 DEF FirstBound, combo_of
<1>8. CASE messages[1] = Quit
  <2>1. thread' = "unregisters" /\ UNCHANGED forwarded
    BY <1>8, <1>1, HeadTailProperties DEF GetMessage
  <2>2. ~Listens'
    BY <2>1 DEF Listens
  <2>. QED BY <1>1, <1>2, <1>3, <1>4, <1>6, <1>7, <2>1, <2>2 DEF PressesInOrder, Message
<1>9. CASE messages[1] # Quit
  <2>1. Head(messages) = messages[1] /\ messages[1] \in Message
    BY <1>1, <1>2, HeadTailProperties, ElementOfSeq
  <2>2. forwarded' = Append(forwarded, kind_of(messages[1].id)) /\ UNCHANGED thread
    BY <1>9, <2>1 DEF GetMessage
  <2>3. PICK id \in HotkeyIds : messages[1] = Hotkey(id)
    BY <1>9, <2>1 DEF Message
  <2>4. kind_of(messages[1].id) \in ToSet(HotkeyKind)
    BY <2>3, AllHotkeys DEF kind_of, Hotkey
  <2>5. /\ forwarded' \in Seq(ToSet(HotkeyKind)) /\ Len(forwarded') = f + 1
        /\ forwarded'[f + 1] = kind_of(messages[1].id)
        /\ \A i \in 1..f : forwarded'[i] = forwarded[i]
    BY <1>1, <1>2, <2>2, <2>4, AppendProperties
  <2>6. d + (f + 1) <= p /\ kind_of(messages[1].id) = FirstBound(presses[d + f + 1])
    <3>1. 1 \in 1 .. m + 1 /\ \A j \in 1..1 : messages[j] # Quit
      BY <1>9
    <3>2. d + f + 1 <= p /\ kind_of(messages[1].id) = FirstBound(presses[d + f + 1])
      BY <1>6, <3>1
    <3>. QED BY <3>2
  <2>7. \A i \in 1..d : dispatched'[i] = FirstBound(presses[i])'
    BY <1>4, <1>6, <1>7
  <2>8. \A i \in 1 .. f + 1 : forwarded'[i] = FirstBound(presses[d + i])'
    <3>1. SUFFICES ASSUME NEW i \in 1 .. f + 1
                   PROVE  forwarded'[i] = FirstBound(presses[d + i])
      BY <1>7
    <3>2. CASE i \in 1..f
      BY <1>6, <2>5, <3>2
    <3>3. CASE i = f + 1
      <4>1. d + i = d + f + 1
        BY <3>3
      <4>. QED BY <2>5, <2>6, <3>3, <4>1
    <3>. QED BY <3>2, <3>3
  <2>9. ASSUME NEW i \in 1..m, \A j \in 1..i : messages'[j] # Quit
        PROVE  /\ d + (f + 1) + i <= p
               /\ kind_of(messages[i].id)' = FirstBound(presses[d + (f + 1) + i])'
    <3>1. ASSUME NEW j \in 1 .. i + 1 PROVE messages[j] # Quit
      <4>1. CASE j = 1
        BY <1>9, <4>1
      <4>2. CASE j \in 2 .. i + 1
        <5>1. j - 1 \in 1..i /\ j - 1 \in 1..m /\ (j - 1) + 1 = j
          BY <4>2
        <5>2. messages'[j - 1] = messages[j]
          BY <1>3, <5>1
        <5>. QED BY <2>9, <5>1, <5>2
      <4>. QED BY <4>1, <4>2
    <3>2. i + 1 \in 1 .. m + 1
      OBVIOUS
    <3>3. /\ d + f + (i + 1) <= p
          /\ kind_of(messages[i + 1].id) = FirstBound(presses[d + f + (i + 1)])
      BY <1>6, <3>1, <3>2
    <3>4. d + f + (i + 1) = d + (f + 1) + i
      OBVIOUS
    <3>5. kind_of(messages[i].id)' = kind_of(messages[i + 1].id)
      BY <1>3 DEF kind_of
    <3>. QED BY <1>7, <3>3, <3>4, <3>5
  <2>10. ASSUME \A i \in 1..m : messages'[i] # Quit
         PROVE  p = d + (f + 1) + m
    <3>1. ASSUME NEW j \in 1 .. m + 1 PROVE messages[j] # Quit
      <4>1. CASE j = 1
        BY <1>9, <4>1
      <4>2. CASE j \in 2 .. m + 1
        <5>1. j - 1 \in 1..m /\ (j - 1) + 1 = j
          BY <4>2
        <5>2. messages'[j - 1] = messages[j]
          BY <1>3, <5>1
        <5>. QED BY <2>10, <5>1, <5>2
      <4>. QED BY <4>1, <4>2
    <3>2. p = d + f + (m + 1)
      BY <1>6, <3>1
    <3>. QED BY <3>2
  <2>11. Len(dispatched') = d /\ Len(presses') = p
    BY <1>2, <1>4
  <2>12. PressesInOrder'
    BY <1>3, <2>5, <2>6, <2>7, <2>8, <2>9, <2>10, <2>11 DEF PressesInOrder
  <2>. QED BY <1>3, <2>5, <2>12 DEF Message
<1>. QED BY <1>8, <1>9

LEMMA PollKeeps ==
    ASSUME HotkeysInv, Poll
    PROVE  PressesInOrder' /\ forwarded' \in Seq(ToSet(HotkeyKind))
           /\ dispatched' \in Seq(ToSet(HotkeyKind))
<1>1. /\ forwarded \in Seq(ToSet(HotkeyKind)) /\ forwarded # <<>>
      /\ dispatched \in Seq(ToSet(HotkeyKind))
  <2>1. forwarded \in Seq(ToSet(HotkeyKind)) /\ dispatched \in Seq(ToSet(HotkeyKind))
    BY Zenon DEF HotkeysInv, HotkeysState
  <2>2. forwarded # <<>>
    BY Zenon DEF Poll
  <2>. QED BY <2>1, <2>2
<1>2. PICK d \in Nat, f \in Nat, p \in Nat, m \in Nat :
        /\ d = Len(dispatched) /\ f + 1 = Len(forwarded) /\ p = Len(presses) /\ m = Len(messages)
  <2>1. /\ Len(dispatched) \in Nat /\ Len(messages) \in Nat /\ Len(presses) \in Nat
        /\ Len(forwarded) - 1 \in Nat /\ (Len(forwarded) - 1) + 1 = Len(forwarded)
    BY <1>1, LenProperties DEF HotkeysInv, HotkeysState
  <2>. QED BY <2>1
<1>3. /\ forwarded' \in Seq(ToSet(HotkeyKind)) /\ Len(forwarded') = f
      /\ \A i \in 1..f : forwarded'[i] = forwarded[i + 1]
  BY <1>1, <1>2, HeadTailProperties DEF Poll
<1>4. forwarded[1] \in ToSet(HotkeyKind) /\ dispatched' = Append(dispatched, forwarded[1])
  BY <1>1, <1>2, HeadTailProperties, ElementOfSeq DEF Poll
<1>5. /\ dispatched' \in Seq(ToSet(HotkeyKind)) /\ Len(dispatched') = d + 1
      /\ dispatched'[d + 1] = forwarded[1] /\ \A i \in 1..d : dispatched'[i] = dispatched[i]
  BY <1>1, <1>2, <1>4, AppendProperties
<1>6. UNCHANGED <<bindings, messages, presses, thread>>
  BY DEF Poll, keys
<1>7. /\ \A i : FirstBound(presses[i])' = FirstBound(presses[i])
      /\ \A i : kind_of(messages[i].id)' = kind_of(messages[i].id)
  BY <1>6 DEF FirstBound, combo_of, kind_of
<1>8. /\ d + (f + 1) <= p
      /\ \A i \in 1..d : dispatched[i] = FirstBound(presses[i])
      /\ \A i \in 1 .. f + 1 : forwarded[i] = FirstBound(presses[d + i])
      /\ Listens => \A i \in 1..m : (\A j \in 1..i : messages[j] # Quit) =>
           d + (f + 1) + i <= p
           /\ kind_of(messages[i].id) = FirstBound(presses[d + (f + 1) + i])
      /\ Listens /\ (\A i \in 1..m : messages[i] # Quit) => p = d + (f + 1) + m
  BY <1>2 DEF HotkeysInv, PressesInOrder
<1>9. ASSUME NEW i \in 1 .. d + 1 PROVE dispatched'[i] = FirstBound(presses[i])'
  BY <1>5, <1>7, <1>8
<1>10. ASSUME NEW i \in 1..f PROVE forwarded'[i] = FirstBound(presses[(d + 1) + i])'
  <2>1. i + 1 \in 1 .. f + 1 /\ d + (i + 1) = (d + 1) + i
    OBVIOUS
  <2>2. forwarded'[i] = forwarded[i + 1]
    BY <1>3
  <2>3. forwarded[i + 1] = FirstBound(presses[d + (i + 1)])
    BY <1>8, <2>1
  <2>. QED BY <1>7, <2>1, <2>2, <2>3
<1>11. \A i \in Nat : d + (f + 1) + i = (d + 1) + f + i
  OBVIOUS
<1>12. Listens' => \A i \in 1..m : (\A j \in 1..i : messages'[j] # Quit) =>
         (d + 1) + f + i <= p
         /\ kind_of(messages[i].id)' = FirstBound(presses[(d + 1) + f + i])'
  <2>1. ASSUME Listens, NEW i \in 1..m, \A j \in 1..i : messages[j] # Quit
        PROVE  (d + 1) + f + i <= p
               /\ kind_of(messages[i].id) = FirstBound(presses[(d + 1) + f + i])
    BY <1>8, <1>11, <2>1
  <2>. QED BY <1>6, <1>7, <2>1 DEF Listens
<1>13. Listens' /\ (\A i \in 1..m : messages'[i] # Quit) => p = (d + 1) + f + m
  BY <1>6, <1>8, <1>11 DEF Listens
<1>14. (d + 1) + f <= p /\ Len(presses') = p /\ Len(messages') = m
  BY <1>2, <1>6, <1>8
<1>15. PressesInOrder'
  BY <1>3, <1>5, <1>9, <1>10, <1>12, <1>13, <1>14 DEF PressesInOrder
<1>. QED BY <1>3, <1>5, <1>15

\* WM_QUIT is behind all messages, and bounds those that will be read.
LEMMA PostsQuitKeeps ==
    ASSUME HotkeysInv, PostsQuit
    PROVE  PressesInOrder'
           /\ messages' \in Seq({Quit} \cup {Hotkey(id) : id \in HotkeyIds})
<1>. DEFINE Message == {Quit} \cup {Hotkey(id) : id \in HotkeyIds}
<1>1. UNCHANGED <<bindings, dispatched, forwarded, presses, thread>>
  BY DEF PostsQuit, keys
<1>2. CASE ~hasQueue
  <2>1. UNCHANGED messages
    BY <1>2 DEF PostsQuit
  <2>. QED BY <1>1, <2>1, PressesStay DEF HotkeysInv, HotkeysState, Listens
<1>3. CASE hasQueue
  <2>1. messages' = Append(messages, Quit) /\ messages \in Seq(Message) /\ Quit \in Message
    BY <1>3 DEF PostsQuit, HotkeysInv, HotkeysState
  <2>. HIDE DEF Message
  <2>2. PICK m \in Nat : m = Len(messages)
    BY <2>1, LenProperties
  <2>3. /\ messages' \in Seq(Message) /\ Len(messages') = m + 1 /\ messages'[m + 1] = Quit
        /\ \A i \in 1..m : messages'[i] = messages[i]
    BY <2>1, <2>2, AppendProperties
  <2>4. \A i : FirstBound(presses[i])' = FirstBound(presses[i])
    BY <1>1 DEF FirstBound, combo_of
  <2>5. ~(\A i \in 1 .. m + 1 : messages'[i] # Quit)
    BY <2>3
  <2>6. ASSUME Listens, NEW i \in 1 .. m + 1, \A j \in 1..i : messages'[j] # Quit
        PROVE  /\ Len(dispatched) + Len(forwarded) + i <= Len(presses)
               /\ kind_of(messages[i].id)'
                    = FirstBound(presses[Len(dispatched) + Len(forwarded) + i])'
    <3>1. i # m + 1
      BY <2>3, <2>6
    <3>2. i \in 1..m /\ \A j \in 1..i : messages[j] # Quit
      BY <2>3, <2>6, <3>1
    <3>3. /\ Len(dispatched) + Len(forwarded) + i <= Len(presses)
          /\ kind_of(messages[i].id) = FirstBound(presses[Len(dispatched) + Len(forwarded) + i])
      BY <2>2, <2>6, <3>2 DEF HotkeysInv, PressesInOrder
    <3>4. kind_of(messages[i].id)' = kind_of(messages[i].id)
      BY <2>3, <3>2 DEF kind_of
    <3>5. FirstBound(presses[Len(dispatched) + Len(forwarded) + i])'
            = FirstBound(presses[Len(dispatched) + Len(forwarded) + i])
      BY <1>1 DEF FirstBound, combo_of
    <3>. QED BY <3>3, <3>4, <3>5
  <2>7. /\ Len(dispatched) + Len(forwarded) <= Len(presses)
        /\ \A i \in 1..Len(dispatched) : dispatched[i] = FirstBound(presses[i])
        /\ \A i \in 1..Len(forwarded) : forwarded[i] = FirstBound(presses[Len(dispatched) + i])
    BY DEF HotkeysInv, PressesInOrder
  <2>8. PressesInOrder'
    BY <1>1, <2>3, <2>4, <2>5, <2>6, <2>7 DEF PressesInOrder, Listens
  <2>. QED BY <2>3, <2>8 DEF Message
<1>. QED BY <1>2, <1>3

LEMMA RegisterKeeps ==
    ASSUME HotkeysInv, RegisterHotKey
    PROVE  Registrations' /\ registered' \in Nat /\ registered' <= 9
<1>1. /\ thread = "registers" /\ UNCHANGED <<bindings, specs, taken, thread>>
      /\ Untried # {} /\ registered' = NextSpec
  BY DEF RegisterHotKey, RegistersAs, keys
<1>2. specs = [id \in bound_kinds |-> combo_of(HotkeyKind[id])] /\ bound_kinds \subseteq HotkeyIds
      /\ DOMAIN specs = bound_kinds /\ DOMAIN specs \subseteq HotkeyIds /\ HotkeyIds \subseteq Nat
  BY <1>1, AllHotkeys DEF HotkeysInv, Registrations, bound_kinds, HotkeyIds
<1>3. NextSpec \in Untried /\ \A id \in Untried : NextSpec <= id
  <2>1. Untried \in SUBSET Nat
    BY <1>2 DEF Untried
  <2>. QED BY <1>1, <2>1, LeastOfSome DEF NextSpec
<1>4. PICK n \in HotkeyIds : n = NextSpec
  BY <1>2, <1>3 DEF Untried
<1>5. n \in DOMAIN specs /\ \A id \in DOMAIN specs : id <= n => id = n \/ id <= registered
  <2>1. n \in DOMAIN specs
    BY <1>3, <1>4 DEF Untried
  <2>2. ASSUME NEW id \in DOMAIN specs, id <= n, ~(id <= registered) PROVE id = n
    <3>1. id \in Nat /\ n \in Nat /\ registered \in Nat
      BY <1>2, <1>4 DEF HotkeysInv, HotkeysState
    <3>2. id \in Untried
      BY <2>2, <3>1 DEF Untried
    <3>. QED BY <1>3, <1>4, <2>2, <3>1, <3>2
  <2>. QED BY <2>1, <2>2
<1>6. PICK combo : combo = specs[n]
  OBVIOUS
<1>7. combo \in Combination
  BY <1>2, <1>5, <1>6, ParseIsCombination DEF combo_of
<1>8. /\ DOMAIN owned' = IF combo \in taken THEN DOMAIN owned ELSE DOMAIN owned \cup {combo}
      /\ \A c \in DOMAIN owned : owned'[c] = owned[c]
      /\ combo \notin taken \cup DOMAIN owned => owned'[combo] = n
  BY <1>4, <1>6 DEF RegisterHotKey, RegistersAs
<1>9. combo \notin taken \cup DOMAIN owned => HotkeyKind[n] = FirstBound(combo)
  BY <1>1, <1>4, <1>6, NextIsFirst DEF HotkeysInv
<1>10. \A c : FirstBound(c)' = FirstBound(c)
  BY <1>1, SameFirst
<1>11. ASSUME NEW c \in DOMAIN owned'
       PROVE  c \in Combination /\ owned'[c] \in HotkeyIds /\ HotkeyKind[owned'[c]] = FirstBound(c)'
  BY <1>4, <1>7, <1>8, <1>9, <1>10 DEF HotkeysInv, Registrations
<1>12. ASSUME NEW id \in DOMAIN specs, id <= n
       PROVE  specs[id] \in taken \cup DOMAIN owned'
  BY <1>1, <1>5, <1>6, <1>8, <1>12 DEF HotkeysInv, Registrations
<1>13. bound_kinds' = bound_kinds /\ \A id : combo_of(HotkeyKind[id])' = combo_of(HotkeyKind[id])
  BY <1>1 DEF bound_kinds, combo_of
<1>14. specs' = [id \in bound_kinds |-> combo_of(HotkeyKind[id])]'
  BY <1>1, <1>2, <1>13
<1>15. Registrations'
  BY <1>1, <1>4, <1>11, <1>12, <1>14 DEF Registrations
<1>16. registered' \in Nat /\ registered' <= 9
  BY <1>1, <1>4 DEF HotkeyIds
<1>. QED BY <1>15, <1>16

\* Steps that register nothing: the thread goes on, or the combinations are given back.
LEMMA RegistrationsStay ==
    ASSUME HotkeysInv, UNCHANGED <<bindings, taken, specs, registered>>,
           \/ thread' = thread /\ owned' = owned
           \/ thread = "probes" /\ thread' = "tells" /\ owned' = owned
           \/ thread = "tells" /\ thread' = "registers" /\ owned' = owned
           \/ thread # "none" /\ thread' \in {"pumps", "unregisters", "returned"}
              /\ (owned' = owned \/ owned' = <<>>)
    PROVE  Registrations'
<1>1. bound_kinds' = bound_kinds /\ \A id : combo_of(HotkeyKind[id])' = combo_of(HotkeyKind[id])
  BY DEF bound_kinds, combo_of
<1>2. thread' # "none" => specs' = [id \in bound_kinds |-> combo_of(HotkeyKind[id])]'
  BY <1>1 DEF HotkeysInv, Registrations
<1>3. thread' = "none" => DOMAIN specs' = {}
  BY DEF HotkeysInv, Registrations
<1>4. \A c : FirstBound(c)' = FirstBound(c)
  BY SameFirst
<1>5. ASSUME NEW c \in DOMAIN owned'
      PROVE  c \in Combination /\ owned'[c] \in HotkeyIds /\ HotkeyKind[owned'[c]] = FirstBound(c)'
  <2>1. owned' = owned
    BY <1>5
  <2>. QED BY <1>4, <2>1 DEF HotkeysInv, Registrations
<1>6. thread' \in {"none", "probes", "tells"} => registered' = 0 /\ DOMAIN owned' = {}
  BY DEF HotkeysInv, Registrations
<1>7. thread' = "registers" =>
        \A id \in DOMAIN specs' : id <= registered' => specs'[id] \in taken' \cup DOMAIN owned'
  <2>1. CASE thread = "registers" /\ thread' = "registers"
    BY <2>1 DEF HotkeysInv, Registrations
  <2>2. CASE thread = "tells" /\ thread' = "registers"
    <3>1. registered' = 0 /\ DOMAIN specs' \subseteq HotkeyIds
      BY <2>2, AllHotkeys DEF HotkeysInv, Registrations, bound_kinds
    <3>. QED BY <3>1 DEF HotkeyIds
  <2>. QED BY <2>1, <2>2
<1>. QED BY <1>2, <1>3, <1>5, <1>6, <1>7 DEF Registrations

LEMMA ConfigureKeeps ==
    ASSUME HotkeysInv, configure_platform
    PROVE  Registrations' /\ PressesInOrder'
<1>1. /\ thread = "none" /\ registered = 0 /\ DOMAIN owned = {}
      /\ UNCHANGED <<bindings, taken, registered, owned, messages, forwarded, dispatched, presses>>
      /\ specs' = [id \in bound_kinds |-> combo_of(HotkeyKind[id])]
      /\ bound_kinds = {} => thread' = "none"
      /\ bound_kinds # {} => thread' = "probes"
  BY DEF configure_platform, HotkeysInv, HotkeysState, Registrations
<1>2. PressesInOrder'
  BY <1>1, PressesStay DEF HotkeysInv, Listens
<1>3. bound_kinds' = bound_kinds /\ \A id : combo_of(HotkeyKind[id])' = combo_of(HotkeyKind[id])
  BY <1>1 DEF bound_kinds, combo_of
<1>4. specs' = [id \in bound_kinds |-> combo_of(HotkeyKind[id])]'
  BY <1>1, <1>3
<1>5. thread' = "none" => DOMAIN specs' = {}
  BY <1>1
<1>6. Registrations'
  BY <1>1, <1>4, <1>5 DEF Registrations
<1>. QED BY <1>2, <1>6

LEMMA HotkeysStateKept ==
    ASSUME HotkeysState, UNCHANGED <<bindings, taken>>,
           registered' \in Nat, registered' <= 9,
           messages' \in Seq({Quit} \cup {Hotkey(id) : id \in HotkeyIds}),
           forwarded' \in Seq(ToSet(HotkeyKind)), dispatched' \in Seq(ToSet(HotkeyKind)),
           thread' \in {"none", "probes", "tells", "registers", "pumps", "unregisters", "returned"},
           window' \in {"waits", "open", "closes", "exits", "joins", "gone"}
                \/ (window' = window /\ (thread' # "none" => thread # "none"))
    PROVE  HotkeysState'
  BY DEF HotkeysState

LEMMA HotkeysInvStep ==
    ASSUME HotkeysInv, [HotkeysNext]_hotkeyVars
    PROVE  HotkeysInv'
<1>. USE DEF HotkeysInv
<1>1. /\ registered \in Nat /\ registered <= 9
      /\ messages \in Seq({Quit} \cup {Hotkey(id) : id \in HotkeyIds})
      /\ forwarded \in Seq(ToSet(HotkeyKind)) /\ dispatched \in Seq(ToSet(HotkeyKind))
      /\ thread \in {"none", "probes", "tells", "registers", "pumps", "unregisters", "returned"}
      /\ presses \in Seq(Combination)
  BY DEF HotkeysState
<1>2. CASE UNCHANGED hotkeyVars
  <2>1. HotkeysState'
    BY <1>1, <1>2, HotkeysStateKept DEF hotkeyVars
  <2>2. Registrations'
    BY <1>2, RegistrationsStay DEF hotkeyVars
  <2>3. PressesInOrder'
    BY <1>2, PressesStay DEF hotkeyVars, Listens
  <2>. QED BY <1>1, <1>2, <2>1, <2>2, <2>3 DEF hotkeyVars
<1>3. CASE MakesQueue \/ TellsId \/ EndsRegistering \/ UnregisterHotKeys
  <2>1. HotkeysState'
    BY <1>1, <1>3, HotkeysStateKept
       DEF MakesQueue, TellsId, EndsRegistering, UnregisterHotKeys, keys
  <2>2. Registrations'
    BY <1>3, RegistrationsStay DEF MakesQueue, TellsId, EndsRegistering, UnregisterHotKeys, keys
  <2>3. PressesInOrder' /\ UNCHANGED presses
    BY <1>3, PressesStay
       DEF MakesQueue, TellsId, EndsRegistering, UnregisterHotKeys, keys, Listens
  <2>. QED BY <1>1, <2>1, <2>2, <2>3
<1>4. CASE RegisterHotKey
  <2>1. UNCHANGED <<bindings, taken, thread, window, messages, forwarded, dispatched, presses>>
    BY <1>4 DEF RegisterHotKey, RegistersAs, keys
  <2>2. Registrations' /\ registered' \in Nat /\ registered' <= 9
    BY <1>4, RegisterKeeps
  <2>3. HotkeysState'
    BY <1>1, <2>1, <2>2, HotkeysStateKept
  <2>4. PressesInOrder'
    BY <2>1, PressesStay DEF Listens
  <2>. QED BY <1>1, <2>1, <2>2, <2>3, <2>4
<1>5. CASE GetMessage
  <2>1. /\ UNCHANGED <<bindings, taken, specs, registered, owned, window, dispatched, presses>>
        /\ thread' = thread \/ (thread = "pumps" /\ thread' = "unregisters")
    BY <1>5 DEF GetMessage, keys
  <2>2. /\ PressesInOrder' /\ forwarded' \in Seq(ToSet(HotkeyKind))
        /\ messages' \in Seq({Quit} \cup {Hotkey(id) : id \in HotkeyIds})
    BY <1>5, GetMessageKeeps
  <2>3. HotkeysState'
    BY <1>1, <2>1, <2>2, HotkeysStateKept
  <2>4. Registrations'
    BY <2>1, RegistrationsStay
  <2>. QED BY <1>1, <2>1, <2>2, <2>3, <2>4
<1>6. CASE Press
  <2>1. UNCHANGED <<bindings, taken, specs, registered, owned, thread, window, forwarded, dispatched>>
    BY <1>6 DEF Press, keys
  <2>2. /\ PressesInOrder' /\ presses' \in Seq(Combination)
        /\ messages' \in Seq({Quit} \cup {Hotkey(id) : id \in HotkeyIds})
    BY <1>6, PressKeeps
  <2>3. HotkeysState'
    BY <1>1, <2>1, <2>2, HotkeysStateKept
  <2>4. Registrations'
    BY <2>1, RegistrationsStay
  <2>. QED BY <2>2, <2>3, <2>4
<1>7. CASE configure_platform
  <2>1. Registrations' /\ PressesInOrder'
    BY <1>7, ConfigureKeeps
  <2>2. HotkeysState' /\ UNCHANGED presses
    BY <1>1, <1>7, HotkeysStateKept DEF configure_platform
  <2>. QED BY <1>1, <2>1, <2>2
<1>8. CASE Poll
  <2>1. /\ UNCHANGED <<bindings, taken, specs, registered, owned, thread, messages, presses>>
        /\ window' \in {"closes", window}
    BY <1>8 DEF Poll, keys
  <2>2. /\ PressesInOrder' /\ forwarded' \in Seq(ToSet(HotkeyKind))
        /\ dispatched' \in Seq(ToSet(HotkeyKind))
    BY <1>8, PollKeeps
  <2>3. HotkeysState'
    BY <1>1, <2>1, <2>2, HotkeysStateKept
  <2>4. Registrations'
    BY <2>1, RegistrationsStay
  <2>. QED BY <1>1, <2>1, <2>2, <2>3, <2>4
<1>9. CASE UserCloses \/ LastFrame \/ Joined
  <2>1. HotkeysState' /\ UNCHANGED presses
    BY <1>1, <1>9, HotkeysStateKept DEF UserCloses, LastFrame, Joined, keys
  <2>2. Registrations'
    BY <1>9, RegistrationsStay DEF UserCloses, LastFrame, Joined, keys
  <2>3. PressesInOrder'
    BY <1>9, PressesStay DEF UserCloses, LastFrame, Joined, keys, Listens
  <2>. QED BY <1>1, <2>1, <2>2, <2>3
<1>10. CASE PostsQuit
  <2>1. /\ UNCHANGED <<bindings, taken, specs, registered, owned, thread, forwarded, dispatched,
                       presses>>
        /\ window' = "joins"
    BY <1>10 DEF PostsQuit, keys
  <2>2. /\ PressesInOrder'
        /\ messages' \in Seq({Quit} \cup {Hotkey(id) : id \in HotkeyIds})
    BY <1>10, PostsQuitKeeps
  <2>3. HotkeysState'
    BY <1>1, <2>1, <2>2, HotkeysStateKept
  <2>4. Registrations'
    BY <2>1, RegistrationsStay
  <2>. QED BY <1>1, <2>1, <2>2, <2>3, <2>4
<1>. QED BY <1>2, <1>3, <1>4, <1>5, <1>6, <1>7, <1>8, <1>9, <1>10 DEF HotkeysNext, HotkeyThread

LEMMA HotkeysInvHolds == DesktopSpec => []HotkeysInv
<1>1. HotkeysInv /\ [HotkeysNext]_hotkeyVars => HotkeysInv'
  BY HotkeysInvStep
<1>. QED BY <1>1, HotkeysInvInit, BehaviourOfEach, PTL

LEMMA HandledIsAPrefix ==
    ASSUME HotkeysInv
    PROVE  PressesKeepTheirOrder
<1>. DEFINE handled == dispatched \o forwarded
            first == [i \in DOMAIN presses |-> FirstBound(presses[i])]
<1>1. PICK d \in Nat, f \in Nat, p \in Nat :
        d = Len(dispatched) /\ f = Len(forwarded) /\ p = Len(presses)
  BY LenProperties DEF HotkeysInv, HotkeysState
<1>2. /\ dispatched \in Seq(ToSet(HotkeyKind)) /\ forwarded \in Seq(ToSet(HotkeyKind))
      /\ presses \in Seq(Combination)
  BY DEF HotkeysInv, HotkeysState
<1>3. /\ handled \in Seq(ToSet(HotkeyKind)) /\ Len(handled) = d + f
      /\ \A i \in 1 .. d + f : handled[i] = IF i <= d THEN dispatched[i] ELSE forwarded[i - d]
  BY <1>1, <1>2, ConcatProperties
<1>4. /\ d + f <= p
      /\ \A i \in 1..d : dispatched[i] = FirstBound(presses[i])
      /\ \A i \in 1..f : forwarded[i] = FirstBound(presses[d + i])
  BY <1>1 DEF HotkeysInv, PressesInOrder
<1>5. DOMAIN first = 1..p /\ \A i \in 1..p : first[i] = FirstBound(presses[i])
  BY <1>1, <1>2
<1>6. Len(first) = p
  BY <1>5
<1>7. ASSUME NEW i \in 1 .. d + f PROVE handled[i] = first[i]
  <2>1. i \in 1..p
    BY <1>4
  <2>2. CASE i <= d
    BY <1>3, <1>4, <1>5, <2>1, <2>2
  <2>3. CASE ~(i <= d)
    <3>1. i - d \in 1..f /\ d + (i - d) = i
      BY <2>3
    <3>2. forwarded[i - d] = FirstBound(presses[d + (i - d)])
      BY <1>4, <3>1
    <3>. QED BY <1>3, <1>5, <2>1, <2>3, <3>1, <3>2
  <2>. QED BY <2>2, <2>3
<1>. HIDE DEF handled, first
<1>8. SubSeq(handled, 1, d + f) = SubSeq(first, 1, d + f)
  <2>1. /\ \A i \in 1 .. d + f : handled[i] \in ToSet(HotkeyKind)
        /\ \A i \in 1 .. d + f : first[i] \in ToSet(HotkeyKind)
    BY <1>3, <1>7, ElementOfSeq
  <2>2. d + f \in Int /\ 1 \in Int
    OBVIOUS
  <2>3. /\ SubSeq(handled, 1, d + f) \in Seq(ToSet(HotkeyKind))
        /\ Len(SubSeq(handled, 1, d + f)) = IF 1 <= d + f THEN d + f - 1 + 1 ELSE 0
        /\ \A i \in 1 .. d + f - 1 + 1 : SubSeq(handled, 1, d + f)[i] = handled[1 + i - 1]
    BY <2>1, <2>2, SubSeqProperties
  <2>4. /\ SubSeq(first, 1, d + f) \in Seq(ToSet(HotkeyKind))
        /\ Len(SubSeq(first, 1, d + f)) = IF 1 <= d + f THEN d + f - 1 + 1 ELSE 0
        /\ \A i \in 1 .. d + f - 1 + 1 : SubSeq(first, 1, d + f)[i] = first[1 + i - 1]
    BY <2>1, <2>2, SubSeqProperties
  <2>5. ASSUME NEW i \in 1 .. d + f PROVE SubSeq(handled, 1, d + f)[i] = SubSeq(first, 1, d + f)[i]
    <3>1. i \in 1 .. d + f - 1 + 1 /\ 1 + i - 1 = i
      OBVIOUS
    <3>. QED BY <1>7, <2>3, <2>4, <3>1
  <2>6. Len(SubSeq(handled, 1, d + f)) = d + f /\ Len(SubSeq(first, 1, d + f)) = d + f
    BY <2>3, <2>4
  <2>. QED BY <2>3, <2>4, <2>5, <2>6, SeqEqual
<1>. QED BY <1>3, <1>4, <1>6, <1>8 DEF handled, first, PressesKeepTheirOrder, IsPrefix

\* A press is handled as the first hotkey bound to it, in the order of the presses
\* (the hotkey thread of configure_platform and PlatformRuntime::poll in gui/mod.rs),
\* whatever is bound, taken, or pressed while the thread registers or the window closes.
THEOREM PressesKeepTheirOrderHolds == DesktopSpec => []PressesKeepTheirOrder
<1>. QED BY HotkeysInvHolds, HandledIsAPrefix, PTL

\* The flags and the bounds, which no other part of the invariant depends on.
HotkeysFlags ==
    /\ clickThrough \in BOOLEAN /\ transparent \in BOOLEAN
    /\ unrefreshed \in BOOLEAN /\ hasQueue \in BOOLEAN

HotkeysBounds ==
    /\ presses \in Seq(Combination) /\ Len(presses) <= MaxPresses
    /\ refusals \in Nat /\ refusals <= MaxRefusals

LEMMA HotkeysFlagsHold == DesktopSpec => []HotkeysFlags
<1>1. HotkeysInit => HotkeysFlags
  BY DEF HotkeysInit, HotkeysFlags
<1>2. HotkeysFlags /\ [HotkeysNext]_hotkeyVars => HotkeysFlags'
  BY DEF HotkeysFlags, HotkeysNext, HotkeyThread, hotkeyVars, keys, style, MakesQueue, TellsId,
         RegisterHotKey, RegistersAs, EndsRegistering, GetMessage, UnregisterHotKeys, Press,
         configure_platform, Poll, UserCloses, LastFrame, PostsQuit, Joined, Sets, Refused
<1>. QED BY <1>1, <1>2, BehaviourOfEach, PTL

LEMMA HotkeysBoundsHold == DesktopSpec => []HotkeysBounds
<1>1. HotkeysInit => HotkeysBounds
  BY HotkeysAssumption DEF HotkeysInit, HotkeysBounds
<1>2. ASSUME HotkeysBounds, HotkeysInv', [HotkeysNext]_hotkeyVars
      PROVE  HotkeysBounds'
  <2>1. Len(presses') <= MaxPresses
    <3>1. CASE Press
      <4>1. PICK combo : presses' = Append(presses, combo) /\ Len(presses) < MaxPresses
        BY <3>1 DEF Press
      <4>2. Len(presses') = Len(presses) + 1 /\ Len(presses) \in Nat
        BY <4>1, LenProperties DEF HotkeysBounds
      <4>. QED BY <4>1, <4>2, HotkeysAssumption
    <3>2. CASE ~Press
      <4>1. UNCHANGED presses
        BY <1>2, <3>2 DEF HotkeysNext, HotkeyThread, hotkeyVars, MakesQueue, TellsId,
           RegisterHotKey, RegistersAs, EndsRegistering, GetMessage, UnregisterHotKeys,
           configure_platform, Poll, UserCloses, LastFrame, PostsQuit, Joined
      <4>. QED BY <1>2, <4>1 DEF HotkeysBounds
    <3>. QED BY <3>1, <3>2
  <2>2. refusals' \in Nat /\ refusals' <= MaxRefusals
    <3>1. refusals' = refusals \/ (refusals < MaxRefusals /\ refusals' = refusals + 1)
      BY <1>2 DEF HotkeysNext, HotkeyThread, hotkeyVars, style, MakesQueue, TellsId, Press,
         RegisterHotKey, RegistersAs, EndsRegistering, GetMessage, UnregisterHotKeys,
         configure_platform, Poll, UserCloses, LastFrame, PostsQuit, Joined, Sets
    <3>. QED BY <1>2, <3>1, HotkeysAssumption DEF HotkeysBounds
  <2>. QED BY <1>2, <2>1, <2>2 DEF HotkeysBounds, HotkeysInv
<1>3. ASSUME HotkeysBounds, HotkeysInv, [HotkeysNext]_hotkeyVars
      PROVE  HotkeysBounds'
  <2>1. HotkeysInv'
    BY <1>3, HotkeysInvStep
  <2>. QED BY <1>2, <1>3, <2>1
<1>4. HotkeysBounds /\ HotkeysInv /\ [HotkeysNext]_hotkeyVars => HotkeysBounds'
  BY <1>3
<1>. QED BY <1>1, <1>4, HotkeysInvHolds, BehaviourOfEach, PTL

LEMMA HotkeyTypes ==
    ASSUME HotkeysInv, HotkeysFlags, HotkeysBounds
    PROVE  HotkeysTypeOK
<1>1. \A kind \in ToSet(HotkeyKind) : bindings[kind] \in Spellings \cup {<<>>}
  BY DEF HotkeysInv, HotkeysState
<1>2. ASSUME NEW id \in DOMAIN specs
      PROVE  HotkeyKind[id] \in Bindable /\ specs[id].modifiers # {}
  <2>1. specs = [i \in bound_kinds |-> combo_of(HotkeyKind[i])] /\ id \in bound_kinds
    BY DEF HotkeysInv, Registrations
  <2>2. /\ HotkeyKind[id] \in ToSet(HotkeyKind) /\ IsCombo(parse(bindings[HotkeyKind[id]]))
        /\ specs[id] = parse(bindings[HotkeyKind[id]])
    BY <2>1, AllHotkeys DEF bound_kinds, combo_of
  <2>3. HotkeyKind[id] \in Bindable
    BY <2>2, BlankIsNoCombo DEF HotkeysInv, HotkeysState
  <2>. QED BY <2>2, <2>3 DEF IsCombo
<1>3. /\ \A combo \in taken \cup DOMAIN owned : combo.modifiers \subseteq Modifiers
      /\ \A combo \in DOMAIN owned : owned[combo] \in 1..Len(HotkeyKind)
  BY AllHotkeys DEF HotkeysInv, HotkeysState, Registrations, Combination, HotkeyIds
<1>4. \A i \in DOMAIN messages : messages[i] \in {Quit} \cup {Hotkey(n) : n \in 1..Len(HotkeyKind)}
  BY AllHotkeys, ElementOfSeq DEF HotkeysInv, HotkeysState, HotkeyIds
<1>5. ToSet(dispatched) \cup ToSet(forwarded) \subseteq ToSet(HotkeyKind)
  <2>1. \A s \in Seq(ToSet(HotkeyKind)) : \A i \in DOMAIN s : s[i] \in ToSet(HotkeyKind)
    BY ElementOfSeq
  <2>. QED BY <2>1 DEF HotkeysInv, HotkeysState, ToSet
<1>6. /\ Len(presses) \in 0..MaxPresses /\ refusals \in 0..MaxRefusals
      /\ registered \in 0..Len(HotkeyKind)
  BY AllHotkeys, HotkeysAssumption, LenProperties DEF HotkeysBounds, HotkeysInv, HotkeysState
<1>7. /\ thread \in {"none", "probes", "tells", "registers", "pumps", "unregisters", "returned"}
      /\ window \in {"starts", "waits", "open", "closes", "exits", "joins", "gone"}
  BY DEF HotkeysInv, HotkeysState
<1>8. {clickThrough, transparent, unrefreshed, hasQueue} \subseteq BOOLEAN
  BY DEF HotkeysFlags
<1>. QED BY <1>1, <1>2, <1>3, <1>4, <1>5, <1>6, <1>7, <1>8 DEF HotkeysTypeOK

LEMMA HotkeysTypeHolds == DesktopSpec => []HotkeysTypeOK
<1>. QED BY HotkeysInvHolds, HotkeysFlagsHold, HotkeysBoundsHold, HotkeyTypes, PTL

\* The flag that the next press turns over, and the exit looks at, is the style of
\* the window (set_click_through in hotkey.rs and its callers), unless the last
\* call changed the style and failed to refresh the window.
THEOREM FlagIsTheStyleHolds == DesktopSpec => []FlagIsTheStyle
<1>1. HotkeysInit => FlagIsTheStyle
  BY DEF HotkeysInit, FlagIsTheStyle
<1>2. ASSUME HotkeysFlags, HotkeysBounds, FlagIsTheStyle, [HotkeysNext]_hotkeyVars
      PROVE  FlagIsTheStyle'
  <2>1. CASE Poll
    <3>1. window # "gone"
      BY <2>1 DEF Poll
    <3>2. CASE UNCHANGED style
      BY <1>2, <3>1, <3>2 DEF style, FlagIsTheStyle
    <3>3. CASE /\ Sets(~clickThrough)
               /\ clickThrough' = IF Refused THEN clickThrough ELSE ~clickThrough
      <4>1. CASE transparent' = ~clickThrough /\ unrefreshed' = FALSE /\ UNCHANGED refusals
        BY <3>3, <4>1 DEF Refused, FlagIsTheStyle
      <4>2. CASE refusals' = refusals + 1 /\ unrefreshed' = TRUE
        BY <4>2 DEF FlagIsTheStyle
      <4>3. CASE refusals' = refusals + 1 /\ UNCHANGED <<transparent, unrefreshed>>
        <5>1. Refused
          BY <1>2, <4>3 DEF Refused, HotkeysBounds
        <5>. QED BY <1>2, <3>1, <3>3, <4>3, <5>1 DEF FlagIsTheStyle
      <4>. QED BY <3>3, <4>1, <4>2, <4>3 DEF Sets
    <3>. QED BY <2>1, <3>2, <3>3 DEF Poll
  <2>2. CASE Joined
    BY <2>2 DEF Joined, FlagIsTheStyle
  <2>3. CASE configure_platform \/ UserCloses \/ LastFrame \/ PostsQuit \/ Press \/ HotkeyThread
    <3>1. UNCHANGED style
      BY <2>3 DEF configure_platform, UserCloses, LastFrame, PostsQuit, Press, HotkeyThread, MakesQueue,
                  TellsId, RegisterHotKey, RegistersAs, EndsRegistering, GetMessage,
                  UnregisterHotKeys
    <3>2. window = "gone" => window' = "gone"
      BY <2>3 DEF configure_platform, UserCloses, LastFrame, PostsQuit, Press, HotkeyThread, MakesQueue,
                  TellsId, RegisterHotKey, RegistersAs, EndsRegistering, GetMessage,
                  UnregisterHotKeys
    <3>. QED BY <1>2, <3>1, <3>2 DEF style, FlagIsTheStyle
  <2>4. CASE UNCHANGED hotkeyVars
    BY <1>2, <2>4 DEF hotkeyVars, style, FlagIsTheStyle
  <2>. QED BY <1>2, <2>1, <2>2, <2>3, <2>4 DEF HotkeysNext
<1>. QED BY <1>1, <1>2, HotkeysFlagsHold, HotkeysBoundsHold, BehaviourOfEach, PTL

-----------------------------------------------------------------------------
(* The list of metrics                                                     *)

\* A list without one of its places, and with one more.
LEMMA RemovedAt ==
    ASSUME NEW S, NEW s \in Seq(S), NEW i \in 1..Len(s)
    PROVE  /\ RemoveAt(s, i) \in Seq(S) /\ Len(RemoveAt(s, i)) = Len(s) - 1
           /\ \A k \in 1..(Len(s) - 1) :
                RemoveAt(s, i)[k] = IF k < i THEN s[k] ELSE s[k + 1]
<1>. DEFINE a == SubSeq(s, 1, i - 1)
           b == SubSeq(s, i + 1, Len(s))
<1>0. i \in Int /\ Len(s) \in Nat /\ i \in 1..Len(s) /\ \A k \in 1..Len(s) : s[k] \in S
  OBVIOUS
<1>1. a \in Seq(S) /\ Len(a) = i - 1 /\ \A k \in 1..(i - 1) : a[k] = s[k]
  <2>1. \A k \in 1..(i - 1) : s[k] \in S
    BY <1>0, SMTT(30)
  <2>. QED BY <1>0, <2>1, SubSeqProperties, SMTT(30)
<1>2. /\ b \in Seq(S) /\ Len(b) = Len(s) - i
      /\ \A k \in 1..(Len(s) - i) : b[k] = s[i + k]
  <2>1. \A k \in (i + 1)..Len(s) : s[k] \in S
    BY <1>0
  <2>2. /\ b \in Seq(S) /\ Len(b) = IF i + 1 <= Len(s) THEN Len(s) - (i + 1) + 1 ELSE 0
        /\ \A k \in 1..(Len(s) - (i + 1) + 1) : b[k] = s[(i + 1) + k - 1]
    BY <1>0, <2>1, SubSeqProperties, SMTT(30)
  <2>3. Len(b) = Len(s) - i /\ Len(s) - (i + 1) + 1 = Len(s) - i
    BY <1>0, <2>2
  <2>4. ASSUME NEW k \in 1..(Len(s) - i) PROVE b[k] = s[i + k]
    <3>1. b[k] = s[(i + 1) + k - 1]
      BY <2>2, <2>3
    <3>2. (i + 1) + k - 1 = i + k
      BY <1>0
    <3>. QED BY <3>1, <3>2, Zenon
  <2>. QED BY <2>2, <2>3, <2>4
<1>. HIDE DEF a, b
<1>3. /\ a \o b \in Seq(S) /\ Len(a \o b) = Len(a) + Len(b)
      /\ \A k \in 1..(Len(a) + Len(b)) :
            (a \o b)[k] = IF k <= Len(a) THEN a[k] ELSE b[k - Len(a)]
  BY <1>1, <1>2, ConcatProperties
<1>4. RemoveAt(s, i) = a \o b
  BY DEF RemoveAt, a, b
<1>5. ASSUME NEW k \in 1..(Len(s) - 1)
      PROVE  (a \o b)[k] = IF k < i THEN s[k] ELSE s[k + 1]
  <2>1. (a \o b)[k] = IF k <= i - 1 THEN a[k] ELSE b[k - (i - 1)]
    BY <1>0, <1>1, <1>2, <1>3
  <2>2. CASE k < i
    BY <1>0, <1>1, <2>1, <2>2
  <2>3. CASE ~(k < i)
    <3>1. k - (i - 1) \in 1..(Len(s) - i) /\ i + (k - (i - 1)) = k + 1 /\ ~(k <= i - 1)
      BY <1>0, <2>3
    <3>. QED BY <1>2, <2>1, <2>3, <3>1
  <2>. QED BY <2>2, <2>3
<1>. QED BY <1>0, <1>1, <1>2, <1>3, <1>4, <1>5

LEMMA InsertedAt ==
    ASSUME NEW S, NEW s \in Seq(S), NEW i \in 1..(Len(s) + 1), NEW e \in S
    PROVE  /\ InsertAt(s, i, e) \in Seq(S) /\ Len(InsertAt(s, i, e)) = Len(s) + 1
           /\ InsertAt(s, i, e)[i] = e
           /\ \A k \in 1..(Len(s) + 1) : k < i => InsertAt(s, i, e)[k] = s[k]
           /\ \A k \in 1..(Len(s) + 1) : k > i => InsertAt(s, i, e)[k] = s[k - 1]
<1>. DEFINE a == SubSeq(s, 1, i - 1)
           b == SubSeq(s, i, Len(s))
           c == a \o <<e>>
<1>0. i \in Int /\ Len(s) \in Nat /\ i \in 1..(Len(s) + 1) /\ \A k \in 1..Len(s) : s[k] \in S
  OBVIOUS
<1>1. a \in Seq(S) /\ Len(a) = i - 1 /\ \A k \in 1..(i - 1) : a[k] = s[k]
  <2>1. \A k \in 1..(i - 1) : s[k] \in S
    BY <1>0
  <2>. QED BY <1>0, <2>1, SubSeqProperties
<1>2. /\ b \in Seq(S) /\ Len(b) = Len(s) - i + 1
      /\ \A k \in 1..(Len(s) - i + 1) : b[k] = s[i + k - 1]
  <2>1. \A k \in i..Len(s) : s[k] \in S
    BY <1>0
  <2>2. /\ b \in Seq(S) /\ Len(b) = IF i <= Len(s) THEN Len(s) - i + 1 ELSE 0
        /\ \A k \in 1..(Len(s) - i + 1) : b[k] = s[i + k - 1]
    BY <1>0, <2>1, SubSeqProperties
  <2>. QED BY <1>0, <2>2
<1>3. <<e>> \in Seq(S) /\ Len(<<e>>) = 1 /\ <<e>>[1] = e
  OBVIOUS
<1>. HIDE DEF a, b
<1>4. /\ c \in Seq(S) /\ Len(c) = i /\ c[i] = e /\ \A k \in 1..(i - 1) : c[k] = s[k]
  <2>1. /\ c \in Seq(S) /\ Len(c) = Len(a) + Len(<<e>>)
        /\ \A k \in 1..(Len(a) + Len(<<e>>)) :
              c[k] = IF k <= Len(a) THEN a[k] ELSE <<e>>[k - Len(a)]
    BY <1>1, <1>3, ConcatProperties
  <2>2. i \in 1..(Len(a) + Len(<<e>>)) /\ ~(i <= Len(a)) /\ i - Len(a) = 1
    BY <1>0, <1>1, <1>3
  <2>3. c[i] = e
    BY <1>3, <2>1, <2>2
  <2>4. Len(c) = i
    BY <1>0, <1>1, <1>3, <2>1
  <2>5. ASSUME NEW k \in 1..(i - 1) PROVE c[k] = s[k]
    <3>1. k \in 1..(Len(a) + Len(<<e>>)) /\ k <= Len(a)
      BY <1>0, <1>1, <1>3
    <3>. QED BY <1>1, <2>1, <3>1
  <2>. QED BY <2>1, <2>3, <2>4, <2>5
<1>. HIDE DEF c
<1>5. /\ c \o b \in Seq(S) /\ Len(c \o b) = Len(c) + Len(b)
      /\ \A k \in 1..(Len(c) + Len(b)) :
            (c \o b)[k] = IF k <= Len(c) THEN c[k] ELSE b[k - Len(c)]
  BY <1>2, <1>4, ConcatProperties
<1>6. InsertAt(s, i, e) = c \o b
  BY DEF InsertAt, a, b, c
<1>7. Len(c \o b) = Len(s) + 1 /\ Len(c) + Len(b) = Len(s) + 1
  BY <1>0, <1>2, <1>4, <1>5
<1>8. (c \o b)[i] = e
  BY <1>0, <1>4, <1>5, <1>7
<1>9. ASSUME NEW k \in 1..(Len(s) + 1), k < i PROVE (c \o b)[k] = s[k]
  <2>1. k \in 1..(i - 1) /\ k <= Len(c)
    BY <1>0, <1>4, <1>9
  <2>. QED BY <1>4, <1>5, <1>7, <2>1
<1>10. ASSUME NEW k \in 1..(Len(s) + 1), k > i PROVE (c \o b)[k] = s[k - 1]
  <2>1. k - i \in 1..(Len(s) - i + 1) /\ i + (k - i) - 1 = k - 1 /\ ~(k <= Len(c))
    BY <1>0, <1>4, <1>10
  <2>2. (c \o b)[k] = b[k - i]
    BY <1>4, <1>5, <1>7, <2>1
  <2>3. b[k - i] = s[i + (k - i) - 1]
    BY <1>2, <2>1
  <2>. QED BY <2>1, <2>2, <2>3
<1>. QED BY <1>5, <1>6, <1>7, <1>8, <1>9, <1>10

\* The first occurrence of a name that a list holds once is the only one.
LEMMA RemovedFirst ==
    ASSUME NEW S, NEW s \in Seq(S), IsInjective(s), NEW i \in 1..Len(s)
    PROVE  RemoveFirst(s, s[i]) = RemoveAt(s, i)
<1>. DEFINE I == {k \in 1..Len(s) : s[k] = s[i]}
<1>1. I = {i}
  BY DEF IsInjective
<1>2. Min(I) = i
  <2>1. I \in SUBSET Nat /\ I # {}
    BY <1>1
  <2>. QED BY <1>1, <2>1, LeastOfSome
<1>3. SelectInSeq(s, LAMBDA v : v = s[i]) = i
  BY <1>1, <1>2 DEF SelectInSeq
<1>. QED BY <1>3 DEF RemoveFirst

\* A metric that is moved is at its new place, and the list without it is the
\* list that it was taken from.
LEMMA MoveKeeps ==
    ASSUME NEW list \in Seq(Metric), IsInjective(list), NEW from \in 1..Len(list), NEW to \in Nat \ {0}
    PROVE  LET moved == move_metric(list, from, to)
           IN  /\ moved \in Seq(Metric) /\ IsInjective(moved) /\ Len(moved) = Len(list)
               /\ ToSet(moved) = ToSet(list)
               /\ RemoveFirst(moved, list[from]) = RemoveFirst(list, list[from])
<1>. DEFINE n == Len(list)
            rest == RemoveAt(list, from)
            moved == InsertAt(rest, to, list[from])
<1>1. CASE from = to \/ to > Len(list)
  BY <1>1 DEF move_metric
<1>2. CASE ~(from = to \/ to > Len(list))
  <2>0. move_metric(list, from, to) = moved
    BY <1>2 DEF move_metric
  <2>1. n \in Nat /\ to \in 1..n /\ from \in 1..n /\ list[from] \in Metric
    BY <1>2
  <2>2. /\ rest \in Seq(Metric) /\ Len(rest) = n - 1
        /\ \A k \in 1..(n - 1) : rest[k] = IF k < from THEN list[k] ELSE list[k + 1]
    BY RemovedAt
  <2>. HIDE DEF rest
  <2>3. to \in 1..(Len(rest) + 1) /\ Len(rest) + 1 = n
    BY <2>1, <2>2
  <2>4. /\ moved \in Seq(Metric) /\ Len(moved) = n /\ moved[to] = list[from]
        /\ \A k \in 1..n : k < to => moved[k] = rest[k]
        /\ \A k \in 1..n : k > to => moved[k] = rest[k - 1]
    <3>1. /\ moved \in Seq(Metric) /\ Len(moved) = Len(rest) + 1 /\ moved[to] = list[from]
          /\ \A k \in 1..(Len(rest) + 1) : k < to => moved[k] = rest[k]
          /\ \A k \in 1..(Len(rest) + 1) : k > to => moved[k] = rest[k - 1]
      <4>1. ASSUME NEW e \in Metric
            PROVE  /\ InsertAt(rest, to, e) \in Seq(Metric) /\ Len(InsertAt(rest, to, e)) = Len(rest) + 1
                   /\ InsertAt(rest, to, e)[to] = e
                   /\ \A k \in 1..(Len(rest) + 1) : k < to => InsertAt(rest, to, e)[k] = rest[k]
                   /\ \A k \in 1..(Len(rest) + 1) : k > to => InsertAt(rest, to, e)[k] = rest[k - 1]
        <5>1. PICK r \in Seq(Metric) : r = rest
          BY <2>2
        <5>2. to \in 1..(Len(r) + 1)
          BY <2>3, <5>1
        <5>3. /\ InsertAt(r, to, e) \in Seq(Metric) /\ Len(InsertAt(r, to, e)) = Len(r) + 1
              /\ InsertAt(r, to, e)[to] = e
              /\ \A k \in 1..(Len(r) + 1) : k < to => InsertAt(r, to, e)[k] = r[k]
              /\ \A k \in 1..(Len(r) + 1) : k > to => InsertAt(r, to, e)[k] = r[k - 1]
          BY <5>2, InsertedAt
        <5>. QED BY <5>1, <5>3
      <4>. QED BY <2>1, <4>1
    <3>. HIDE DEF moved
    <3>. QED BY <2>3, <3>1
  <2>. HIDE DEF moved, n
  \* Where each place of the new list comes from.
  <2>. DEFINE Was(k) == IF k = to THEN from
                        ELSE IF k < to THEN (IF k < from THEN k ELSE k + 1)
                        ELSE IF k - 1 < from THEN k - 1 ELSE k
  <2>5. ASSUME NEW k \in 1..n PROVE Was(k) \in 1..n /\ moved[k] = list[Was(k)]
    <3>1. CASE k = to
      BY <2>1, <2>4, <3>1
    <3>2. CASE k < to
      <4>1. k \in 1..(n - 1)
        BY <2>1, <3>2
      <4>2. moved[k] = IF k < from THEN list[k] ELSE list[k + 1]
        BY <2>2, <2>4, <3>2, <4>1
      <4>. QED BY <2>1, <3>2, <4>1, <4>2
    <3>3. CASE k > to
      <4>1. k - 1 \in 1..(n - 1)
        BY <2>1, <3>3
      <4>2. moved[k] = IF k - 1 < from THEN list[k - 1] ELSE list[(k - 1) + 1]
        BY <2>2, <2>4, <3>3, <4>1
      <4>3. (k - 1) + 1 = k /\ ~(k = to) /\ ~(k < to)
        BY <2>1, <3>3
      <4>. QED BY <2>1, <3>3, <4>1, <4>2, <4>3
    <3>. QED BY <2>1, <3>1, <3>2, <3>3
  <2>6. ASSUME NEW j \in 1..n, NEW k \in 1..n, Was(j) = Was(k) PROVE j = k
    BY <2>1, <2>6
  <2>7. ASSUME NEW j \in 1..n
        PROVE  \E k \in 1..n : Was(k) = j
    <3>. DEFINE k == IF j = from THEN to
                     ELSE IF j < from THEN (IF j < to THEN j ELSE j + 1)
                     ELSE IF j - 1 < to THEN j - 1 ELSE j
    <3>1. k \in 1..n /\ Was(k) = j
      BY <2>1
    <3>. QED BY <3>1
  <2>. HIDE DEF Was
  <2>8. DOMAIN moved = 1..n /\ DOMAIN list = 1..n
    BY <2>1, <2>4 DEF n
  <2>9. IsInjective(moved)
    <3>1. \A j, k \in 1..n : list[j] = list[k] => j = k
      BY <2>8 DEF IsInjective
    <3>2. ASSUME NEW j \in 1..n, NEW k \in 1..n, moved[j] = moved[k] PROVE j = k
      <4>1. Was(j) = Was(k)
        BY <2>5, <3>1, <3>2
      <4>. QED BY <2>6, <4>1
    <3>. QED BY <2>8, <3>2 DEF IsInjective
  <2>10. ToSet(moved) = ToSet(list)
    <3>1. ASSUME NEW k \in 1..n PROVE moved[k] \in ToSet(list)
      BY <2>5, <2>8 DEF ToSet
    <3>2. ASSUME NEW j \in 1..n PROVE list[j] \in ToSet(moved)
      <4>1. PICK k \in 1..n : Was(k) = j
        BY <2>7
      <4>. QED BY <2>5, <2>8, <4>1 DEF ToSet
    <3>3. ToSet(moved) \subseteq ToSet(list)
      BY <2>8, <3>1 DEF ToSet
    <3>4. ToSet(list) \subseteq ToSet(moved)
      BY <2>8, <3>2 DEF ToSet
    <3>. QED BY <3>3, <3>4
  <2>11. RemoveFirst(moved, list[from]) = RemoveFirst(list, list[from])
    <3>1. RemoveFirst(list, list[from]) = rest
      BY RemovedFirst DEF rest
    <3>2. RemoveFirst(moved, moved[to]) = RemoveAt(moved, to)
      BY <2>1, <2>4, <2>9, RemovedFirst
    <3>3. /\ RemoveAt(moved, to) \in Seq(Metric) /\ Len(RemoveAt(moved, to)) = n - 1
          /\ \A k \in 1..(n - 1) :
                RemoveAt(moved, to)[k] = IF k < to THEN moved[k] ELSE moved[k + 1]
      BY <2>1, <2>4, RemovedAt
    <3>4. ASSUME NEW k \in 1..(n - 1) PROVE RemoveAt(moved, to)[k] = rest[k]
      <4>1. CASE k < to
        <5>1. k \in 1..n
          BY <2>1
        <5>. QED BY <2>4, <3>3, <4>1, <5>1
      <4>2. CASE ~(k < to)
        <5>1. k + 1 \in 1..n /\ k + 1 > to /\ (k + 1) - 1 = k
          BY <2>1, <4>2
        <5>2. moved[k + 1] = rest[(k + 1) - 1]
          BY <2>4, <5>1
        <5>. QED BY <3>3, <4>2, <5>1, <5>2
      <4>. QED BY <4>1, <4>2
    <3>5. RemoveAt(moved, to) = rest
      BY <2>2, <3>3, <3>4, SeqEqual
    <3>. QED BY <2>4, <3>1, <3>2, <3>5
  <2>. QED BY <2>0, <2>4, <2>9, <2>10, <2>11 DEF n
<1>. QED BY <1>1, <1>2

\* No metric is named twice, in the list and among those that are drawn.
Listed(list) == list \in Seq(Metric) /\ IsInjective(list)

MetricListInv == Listed(order) /\ Listed(enabled)

\* There are no more places in such a list than metrics.
LEMMA ListedIsList ==
    ASSUME NEW list
    PROVE  list \in Lists <=> Listed(list)
<1>1. ASSUME list \in Lists PROVE Listed(list)
  <2>1. PICK n \in 0..Cardinality(Metric) : list \in [1..n -> Metric] /\ IsInjective(list)
    BY <1>1 DEF Lists
  <2>2. n \in Nat
    OBVIOUS
  <2>. QED BY <2>1, <2>2, SeqDef DEF Listed
<1>2. ASSUME Listed(list) PROVE list \in Lists
  <2>1. list \in [1..Len(list) -> Metric] /\ Len(list) \in Nat /\ IsInjective(list)
    BY <1>2 DEF Listed
  <2>2. list \in Injection(1..Len(list), Metric)
    BY <2>1 DEF Injection, IsInjective
  <2>3. Cardinality(1..Len(list)) <= Cardinality(Metric) /\ Cardinality(Metric) \in Nat
    BY <2>2, FS_Injection, FS_CardinalityType, MetricListAssumption
  <2>4. Cardinality(1..Len(list)) = Len(list)
    <3>1. Cardinality(1..Len(list)) = IF 1 > Len(list) THEN 0 ELSE Len(list) - 1 + 1
      BY <2>1, FS_Interval
    <3>. QED BY <2>1, <3>1
  <2>5. Len(list) \in 0..Cardinality(Metric)
    BY <2>1, <2>3, <2>4
  <2>. QED BY <2>1, <2>5 DEF Lists
<1>. QED BY <1>1, <1>2

LEMMA ToggleKeeps ==
    ASSUME Listed(enabled), NEW name \in Metric
    PROVE  Listed(toggle_enabled(name))
<1>1. enabled \in Seq(Metric) /\ IsInjective(enabled) /\ Len(enabled) \in Nat
      /\ DOMAIN enabled = 1..Len(enabled)
  BY DEF Listed
<1>2. CASE name \in ToSet(enabled)
  <2>1. PICK i \in 1..Len(enabled) : enabled[i] = name
    BY <1>1, <1>2 DEF ToSet
  <2>. DEFINE rest == RemoveAt(enabled, i)
  <2>2. toggle_enabled(name) = rest
    <3>1. RemoveFirst(enabled, name) = rest
      BY <1>1, <2>1, RemovedFirst, Zenon
    <3>. QED BY <1>2, <3>1 DEF toggle_enabled
  <2>3. /\ rest \in Seq(Metric) /\ Len(rest) = Len(enabled) - 1
        /\ \A k \in 1..(Len(enabled) - 1) :
              rest[k] = IF k < i THEN enabled[k] ELSE enabled[k + 1]
    BY <1>1, RemovedAt
  <2>. HIDE DEF rest
  <2>4. \A j, k \in 1..Len(enabled) : enabled[j] = enabled[k] => j = k
    BY <1>1 DEF IsInjective
  <2>5. ASSUME NEW j \in 1..(Len(enabled) - 1), NEW k \in 1..(Len(enabled) - 1), rest[j] = rest[k]
        PROVE  j = k
    <3>1. /\ j \in 1..Len(enabled) /\ j + 1 \in 1..Len(enabled)
          /\ k \in 1..Len(enabled) /\ k + 1 \in 1..Len(enabled)
      BY <1>1
    <3>. QED BY <1>1, <2>3, <2>4, <2>5, <3>1
  <2>6. DOMAIN rest = 1..(Len(enabled) - 1)
    BY <2>3
  <2>7. IsInjective(rest)
    BY <2>5, <2>6 DEF IsInjective
  <2>. QED BY <2>2, <2>3, <2>7 DEF Listed
<1>3. CASE name \notin ToSet(enabled)
  <2>. DEFINE more == Append(enabled, name)
  <2>1. /\ more \in Seq(Metric) /\ Len(more) = Len(enabled) + 1 /\ more[Len(enabled) + 1] = name
        /\ \A k \in 1..Len(enabled) : more[k] = enabled[k]
    BY <1>1, AppendProperties
  <2>2. toggle_enabled(name) = more
    BY <1>3 DEF toggle_enabled
  <2>. HIDE DEF more
  <2>3. \A k \in 1..Len(enabled) : enabled[k] # name
    BY <1>1, <1>3 DEF ToSet
  <2>4. \A j, k \in 1..Len(enabled) : enabled[j] = enabled[k] => j = k
    BY <1>1 DEF IsInjective
  <2>5. ASSUME NEW j \in 1..(Len(enabled) + 1), NEW k \in 1..(Len(enabled) + 1), more[j] = more[k]
        PROVE  j = k
    <3>1. /\ j \in 1..Len(enabled) \/ j = Len(enabled) + 1
          /\ k \in 1..Len(enabled) \/ k = Len(enabled) + 1
      BY <1>1
    <3>. QED BY <2>1, <2>3, <2>4, <2>5, <3>1
  <2>6. DOMAIN more = 1..(Len(enabled) + 1)
    BY <2>1
  <2>7. IsInjective(more)
    BY <2>5, <2>6 DEF IsInjective
  <2>. QED BY <2>1, <2>2, <2>7 DEF Listed
<1>. QED BY <1>2, <1>3

LEMMA MetricListInvInit == MetricListInit => MetricListInv
  BY ListedIsList DEF MetricListInit, MetricListInv

\* A drop exchanges nothing: it takes one metric from its place to another.
LEMMA DropMoves ==
    ASSUME MetricListInv, DropOnRow \/ DropBelow
    PROVE  /\ Listed(order') /\ UNCHANGED enabled
           /\ Len(order') = Len(order) /\ ToSet(order') = ToSet(order)
           /\ \E moved \in ToSet(order) :
                RemoveFirst(order', moved) = RemoveFirst(order, moved)
<1>1. /\ order \in Seq(Metric) /\ IsInjective(order)
      /\ DOMAIN order = 1..Len(order) /\ Len(order) \in Nat
  BY DEF MetricListInv, Listed
<1>2. /\ UNCHANGED enabled
      /\ \E from \in 1..Len(order), to \in Nat \ {0} : order' = move_metric(order, from, to)
  BY <1>1 DEF DropOnRow, DropBelow
<1>3. PICK from \in 1..Len(order), to \in Nat \ {0} : order' = move_metric(order, from, to)
  BY <1>2
<1>. DEFINE moved == move_metric(order, from, to)
<1>4. /\ moved \in Seq(Metric) /\ IsInjective(moved) /\ Len(moved) = Len(order)
      /\ ToSet(moved) = ToSet(order)
      /\ RemoveFirst(moved, order[from]) = RemoveFirst(order, order[from])
  BY <1>1, MoveKeeps
<1>5. order' = moved
  BY <1>3
<1>6. order[from] \in ToSet(order)
  BY <1>1 DEF ToSet
<1>. HIDE DEF moved
<1>. QED BY <1>2, <1>4, <1>5, <1>6 DEF Listed

LEMMA ToggleLeaves ==
    ASSUME MetricListInv, ToggleMetric
    PROVE  Listed(enabled') /\ order' = order
<1>1. PICK name \in ToSet(order) : enabled' = toggle_enabled(name)
  BY DEF ToggleMetric
<1>2. name \in Metric
  BY DEF MetricListInv, Listed, ToSet
<1>. QED BY <1>1, <1>2, ToggleKeeps DEF ToggleMetric, MetricListInv

LEMMA MetricListInvStep ==
    ASSUME MetricListInv, [MetricListNext]_metricVars
    PROVE  MetricListInv'
<1>1. CASE ToggleMetric
  BY <1>1, ToggleLeaves DEF MetricListInv
<1>2. CASE DropOnRow \/ DropBelow
  BY <1>2, DropMoves DEF MetricListInv
<1>3. CASE UNCHANGED metricVars
  BY <1>3 DEF MetricListInv, metricVars
<1>. QED BY <1>1, <1>2, <1>3 DEF MetricListNext

LEMMA MetricListInvHolds == DesktopSpec => []MetricListInv
<1>1. MetricListInv /\ [MetricListNext]_metricVars => MetricListInv'
  BY MetricListInvStep
<1>. QED BY <1>1, MetricListInvInit, BehaviourOfEach, PTL

(***************************************************************************)
(* A drag takes one metric to its new place, and the others keep their     *)
(* order: move_metric takes it out and puts it in, with the index of the   *)
(* place below the last row, and of a row beyond the list, refused.        *)
(***************************************************************************)
THEOREM OthersKeepTheirOrderHolds == DesktopSpec => OthersKeepTheirOrder
<1>1. ASSUME MetricListInv, [MetricListNext]_metricVars, order # <<>>
      PROVE  \E moved \in ToSet(order) :
                RemoveFirst(order', moved) = RemoveFirst(order, moved)
  <2>1. CASE DropOnRow \/ DropBelow
    BY <1>1, <2>1, DropMoves
  <2>2. CASE order' = order
    <3>1. order \in Seq(Metric) /\ order # <<>>
      BY <1>1 DEF MetricListInv, Listed
    <3>2. 1 \in DOMAIN order
      BY <3>1
    <3>3. order[1] \in ToSet(order)
      BY <3>2 DEF ToSet
    <3>. QED BY <2>2, <3>3
  <2>3. order' = order \/ DropOnRow \/ DropBelow
    BY <1>1 DEF MetricListNext, metricVars, ToggleMetric
  <2>. QED BY <2>1, <2>2, <2>3
<1>2. MetricListInv /\ [MetricListNext]_metricVars
        => [order # <<>> => \E moved \in ToSet(order) :
                RemoveFirst(order', moved) = RemoveFirst(order, moved)]_metricVars
  BY <1>1
<1>. QED BY <1>2, MetricListInvHolds, BehaviourOfEach, PTL DEF OthersKeepTheirOrder

(***************************************************************************)
(* Whatever is dragged where, no metric is lost from the list, which is    *)
(* what decides what can be drawn, and none is doubled.                    *)
(***************************************************************************)
THEOREM ListKeepsItsMetricsHolds == DesktopSpec => ListKeepsItsMetrics
<1>1. ASSUME MetricListInv, [MetricListNext]_metricVars
      PROVE  Len(order') = Len(order) /\ ToSet(order') = ToSet(order)
  <2>1. CASE DropOnRow \/ DropBelow
    BY <1>1, <2>1, DropMoves
  <2>2. CASE order' = order
    BY <2>2
  <2>3. order' = order \/ DropOnRow \/ DropBelow
    BY <1>1 DEF MetricListNext, metricVars, ToggleMetric
  <2>. QED BY <2>1, <2>2, <2>3
<1>2. MetricListInv /\ [MetricListNext]_metricVars
        => [Len(order') = Len(order) /\ ToSet(order') = ToSet(order)]_metricVars
  BY <1>1
<1>. QED BY <1>2, MetricListInvHolds, BehaviourOfEach, PTL DEF ListKeepsItsMetrics

MetricListBounds == dropped \in Metric \cup {"no"} /\ drops \in 0..MaxDrops

LEMMA MetricListTypeHolds == DesktopSpec => []MetricListTypeOK
<1>1. MetricListInit => MetricListBounds
  BY MetricListAssumption DEF MetricListInit, MetricListBounds
<1>2. ASSUME MetricListInv, MetricListBounds, [MetricListNext]_metricVars
      PROVE  MetricListBounds'
  <2>1. order \in Seq(Metric)
    BY <1>2 DEF MetricListInv, Listed
  <2>2. \A i \in DOMAIN order : order[i] \in Metric
    BY <2>1
  <2>3. drops' \in 0..MaxDrops
    BY <1>2, MetricListAssumption
       DEF MetricListBounds, MetricListNext, metricVars, ToggleMetric, DropOnRow, DropBelow, Touch
  <2>4. dropped' \in Metric \cup {"no"}
    BY <1>2, <2>2 DEF MetricListBounds, MetricListNext, metricVars, ToggleMetric, DropOnRow, DropBelow
  <2>. QED BY <2>3, <2>4 DEF MetricListBounds
<1>3. MetricListInv /\ MetricListBounds => MetricListTypeOK
  BY ListedIsList DEF MetricListInv, MetricListBounds, MetricListTypeOK
<1>4. MetricListInv /\ MetricListBounds /\ [MetricListNext]_metricVars => MetricListBounds'
  BY <1>2
<1>. QED BY <1>1, <1>3, <1>4, MetricListInvHolds, BehaviourOfEach, PTL
-----------------------------------------------------------------------------
(* The files of LibreHardwareMonitor                                       *)

TagName == {"<configuration>", "</configuration>", "<appSettings>", "</appSettings>", "<startup>"}
Key == {WebServer, ListenerPort, "plot"}
Line == {Tag(name) : name \in TagName} \cup {Entry(key, value) : key \in Key, value \in Nat}

\* Where the first of the two files is patched, its one section is replaced.
OneSection(lines) ==
    \A i, j \in DOMAIN lines : lines[i] = Section /\ lines[j] = Section => i = j

IsExeFile(lines) == lines \in Seq(Line) /\ OneSection(lines)

ExeServes(lines, p) == Settings(lines) = {Entry(WebServer, 1), Entry(ListenerPort, p)}

\* In the second, if it has a section, the entries follow its beginning and none
\* its end, and neither of the two settings has two of them.
OpensAt(lines, s) ==
    /\ s \in DOMAIN lines /\ lines[s] = Section
    /\ \A i \in DOMAIN lines : lines[i] = Section => s <= i

Encloses(lines, s) ==
    \A k \in DOMAIN lines : lines[k].tag = "add" =>
        s < k /\ \A j \in s..k : lines[j] # SectionEnd

OneOfEach(lines) ==
    \A i, j \in DOMAIN lines :
        lines[i].key = lines[j].key /\ lines[i].key \in {WebServer, ListenerPort} => i = j

IsUserFile(lines) ==
    /\ lines \in Seq(Line) /\ OneOfEach(lines)
    /\ \A k \in DOMAIN lines : lines[k].key \in {WebServer, ListenerPort} => lines[k].tag = "add"
    /\ Section \in ToSet(lines) => \E s \in DOMAIN lines : OpensAt(lines, s) /\ Encloses(lines, s)

Has(lines, key, value) == \E k \in DOMAIN lines : lines[k] = Entry(key, value)

UserServes(lines, p) ==
    Section \in ToSet(lines) => Has(lines, WebServer, 1) /\ Has(lines, ListenerPort, p)

LhmConfigInv ==
    /\ exeConfig.state \in {"missing", "whole"} /\ IsExeFile(exeConfig.lines)
    /\ userConfig.state \in {"missing", "whole"} /\ IsUserFile(userConfig.lines)
    /\ port \in Nat /\ failures \in Nat
    /\ launched => /\ ExeServes(exeConfig.lines, port)
                   /\ ~overwritten => UserServes(userConfig.lines, port)
    /\ patching = "exe_rename" =>
        beside.state = "whole" /\ IsExeFile(beside.lines) /\ ExeServes(beside.lines, port)
    /\ patching \in {"user", "user_rename"} => ExeServes(exeConfig.lines, port)
    /\ patching = "user_rename" =>
        beside.state = "whole" /\ IsUserFile(beside.lines) /\ UserServes(beside.lines, port)

LEMMA LinesAreLines ==
    /\ Root \in Line /\ RootEnd \in Line /\ Section \in Line /\ SectionEnd \in Line
    /\ Startup \in Line
    /\ \A key \in Key, value \in Nat : Entry(key, value) \in Line
  BY DEF Line, Root, RootEnd, Section, SectionEnd, Startup, TagName

\* What tells the lines apart.
LEMMA TagsDiffer ==
    /\ \A l \in {Root, RootEnd, Section, SectionEnd, Startup} : l.tag # "add" /\ l.key = ""
    /\ Section # Root /\ Section # RootEnd /\ Section # SectionEnd /\ Section # Startup
    /\ SectionEnd # Root
<1>1. /\ Root.tag = "<configuration>" /\ RootEnd.tag = "</configuration>"
      /\ Section.tag = "<appSettings>" /\ SectionEnd.tag = "</appSettings>"
      /\ Startup.tag = "<startup>"
  BY DEF Root, RootEnd, Section, SectionEnd, Startup, Tag
<1>2. /\ Root.key = "" /\ RootEnd.key = "" /\ Section.key = "" /\ SectionEnd.key = ""
      /\ Startup.key = ""
  BY DEF Root, RootEnd, Section, SectionEnd, Startup, Tag
<1>. QED BY <1>1, <1>2

LEMMA EntriesDiffer ==
    ASSUME NEW key, NEW value
    PROVE  /\ Entry(key, value).key = key /\ Entry(key, value).tag = "add"
           /\ Entry(key, value).value = value
           /\ Entry(key, value) # Section /\ Entry(key, value) # SectionEnd
<1>1. /\ Entry(key, value).key = key /\ Entry(key, value).tag = "add"
      /\ Entry(key, value).value = value
  BY DEF Entry
<1>2. Section.tag # "add" /\ SectionEnd.tag # "add"
  BY TagsDiffer
<1>. QED BY <1>1, <1>2

LEMMA KeysDiffer ==
    /\ WebServer # ListenerPort /\ WebServer # "" /\ ListenerPort # ""
    /\ WebServer # "plot" /\ ListenerPort # "plot"
  BY DEF WebServer, ListenerPort

\* The web server's block: four lines.
LEMMA BlockOfLines ==
    ASSUME NEW p \in Nat
    PROVE  LET block == build_app_settings_block(p)
           IN  /\ block \in Seq(Line) /\ Len(block) = 4
               /\ block[1] = Section /\ block[2] = Entry(WebServer, 1)
               /\ block[3] = Entry(ListenerPort, p) /\ block[4] = SectionEnd
<1>1. WebServer \in Key /\ ListenerPort \in Key /\ 1 \in Nat
  BY DEF Key
<1>2. PICK e1 \in Line : e1 = Entry(WebServer, 1)
  BY <1>1, LinesAreLines
<1>3. PICK e2 \in Line : e2 = Entry(ListenerPort, p)
  BY <1>1, LinesAreLines
<1>4. PICK s \in Line : s = Section
  BY LinesAreLines
<1>5. PICK e \in Line : e = SectionEnd
  BY LinesAreLines
<1>6. /\ <<s>> \in Seq(Line) /\ Len(<<s>>) = 1 /\ <<s>>[1] = s
      /\ <<e1, e2>> \in Seq(Line) /\ Len(<<e1, e2>>) = 2
      /\ <<e1, e2>>[1] = e1 /\ <<e1, e2>>[2] = e2
      /\ <<e>> \in Seq(Line) /\ Len(<<e>>) = 1 /\ <<e>>[1] = e
  OBVIOUS
<1>7. PICK head \in Seq(Line), tail \in Seq(Line), last \in Seq(Line) :
        head = <<s>> /\ tail = <<e1, e2>> /\ last = <<e>>
  BY <1>6
<1>8. PICK most \in Seq(Line) : most = head \o tail
  BY ConcatProperties
<1>9. Len(most) = 3 /\ most[1] = s /\ most[2] = e1 /\ most[3] = e2
  <2>1. /\ Len(head \o tail) = Len(head) + Len(tail)
        /\ \A i \in 1..(Len(head) + Len(tail)) :
              (head \o tail)[i] = IF i <= Len(head) THEN head[i] ELSE tail[i - Len(head)]
    BY ConcatProperties
  <2>2. Len(head) = 1 /\ Len(tail) = 2 /\ head[1] = s /\ tail[1] = e1 /\ tail[2] = e2
    BY <1>6, <1>7
  <2>. QED BY <1>8, <2>1, <2>2
<1>10. PICK all \in Seq(Line) : all = most \o last
  BY ConcatProperties
<1>11. Len(all) = 4 /\ all[1] = s /\ all[2] = e1 /\ all[3] = e2 /\ all[4] = e
  <2>1. /\ Len(most \o last) = Len(most) + Len(last)
        /\ \A i \in 1..(Len(most) + Len(last)) :
              (most \o last)[i] = IF i <= Len(most) THEN most[i] ELSE last[i - Len(most)]
    BY ConcatProperties
  <2>2. Len(last) = 1 /\ last[1] = e
    BY <1>6, <1>7
  <2>. QED BY <1>9, <1>10, <2>1, <2>2
<1>12. build_app_settings_block(p) = all
  BY <1>2, <1>3, <1>4, <1>5, <1>7, <1>8, <1>10 DEF build_app_settings_block, Required
<1>. QED BY <1>2, <1>3, <1>4, <1>5, <1>11, <1>12

\* The place of a line is its first.
LEMMA PlaceOfALine ==
    ASSUME NEW lines \in Seq(Line), NEW line
    PROVE  \/ At(lines, line) = 0 /\ \A i \in 1..Len(lines) : lines[i] # line
           \/ /\ At(lines, line) \in 1..Len(lines) /\ lines[At(lines, line)] = line
              /\ \A i \in 1..Len(lines) : lines[i] = line => At(lines, line) <= i
<1>. DEFINE I == {i \in 1..Len(lines) : lines[i] = line}
<1>1. At(lines, line) = IF I # {} THEN Min(I) ELSE 0
  BY DEF At, SelectInSeq
<1>2. I # {} => Min(I) \in I /\ \A i \in I : Min(I) <= i
  <2>1. I \in SUBSET Nat
    OBVIOUS
  <2>. QED BY <2>1, LeastOfSome
<1>. QED BY <1>1, <1>2

\* What is before the block, the block, and what is after it.
LEMMA AroundTheBlock ==
    ASSUME NEW pre \in Seq(Line), NEW post \in Seq(Line), NEW block \in Seq(Line), Len(block) = 4
    PROVE  \E lines \in Seq(Line) :
            /\ lines = pre \o block \o post /\ Len(lines) = Len(pre) + 4 + Len(post)
            /\ \A i \in 1..Len(pre) : lines[i] = pre[i]
            /\ \A i \in 1..4 : lines[Len(pre) + i] = block[i]
            /\ \A i \in 1..Len(post) : lines[Len(pre) + 4 + i] = post[i]
<1>. DEFINE n == Len(pre)
            m == Len(post)
<1>0. n \in Nat /\ m \in Nat
  OBVIOUS
<1>1. PICK a \in Seq(Line) : a = pre \o block
  BY ConcatProperties
<1>2. /\ Len(a) = n + 4
      /\ \A i \in 1..(n + 4) : a[i] = IF i <= n THEN pre[i] ELSE block[i - n]
  <2>1. /\ Len(pre \o block) = Len(pre) + Len(block)
        /\ \A i \in 1..(Len(pre) + Len(block)) :
              (pre \o block)[i] = IF i <= Len(pre) THEN pre[i] ELSE block[i - Len(pre)]
    BY ConcatProperties
  <2>. QED BY <1>1, <2>1
<1>3. PICK b \in Seq(Line) : b = a \o post
  BY ConcatProperties
<1>4. /\ Len(b) = n + 4 + m
      /\ \A i \in 1..(n + 4 + m) : b[i] = IF i <= n + 4 THEN a[i] ELSE post[i - (n + 4)]
  <2>1. /\ Len(a \o post) = Len(a) + Len(post)
        /\ \A i \in 1..(Len(a) + Len(post)) :
              (a \o post)[i] = IF i <= Len(a) THEN a[i] ELSE post[i - Len(a)]
    BY ConcatProperties
  <2>. QED BY <1>2, <1>3, <2>1
<1>5. ASSUME NEW i \in 1..n PROVE b[i] = pre[i]
  <2>1. i \in 1..(n + 4) /\ i \in 1..(n + 4 + m) /\ i <= n /\ i <= n + 4
    BY <1>0
  <2>. QED BY <1>2, <1>4, <2>1
<1>6. ASSUME NEW i \in 1..4 PROVE b[n + i] = block[i]
  <2>1. /\ n + i \in 1..(n + 4) /\ n + i \in 1..(n + 4 + m) /\ ~(n + i <= n)
        /\ n + i <= n + 4 /\ (n + i) - n = i
    BY <1>0
  <2>. QED BY <1>2, <1>4, <2>1
<1>7. ASSUME NEW i \in 1..m PROVE b[n + 4 + i] = post[i]
  <2>1. /\ n + 4 + i \in 1..(n + 4 + m) /\ ~(n + 4 + i <= n + 4)
        /\ (n + 4 + i) - (n + 4) = i
    BY <1>0
  <2>. QED BY <1>4, <2>1
<1>. QED BY <1>1, <1>3, <1>4, <1>5, <1>6, <1>7

\* The end of a section is in a part of a file if a line of it is.
LEMMA EndIsBetween ==
    ASSUME NEW lines \in Seq(Line), NEW i \in DOMAIN lines, NEW k \in DOMAIN lines, i <= k
    PROVE  SectionEnd \in ToSet(SubSeq(lines, i, k)) <=> \E j \in i..k : lines[j] = SectionEnd
<1>0. i \in Int /\ k \in Int /\ DOMAIN lines = 1..Len(lines) /\ Len(lines) \in Nat
  OBVIOUS
<1>1. \A j \in i..k : lines[j] \in Line
  BY <1>0
<1>. DEFINE piece == SubSeq(lines, i, k)
<1>2. /\ piece \in Seq(Line) /\ Len(piece) = k - i + 1
      /\ \A j \in 1..(k - i + 1) : piece[j] = lines[i + j - 1]
  BY <1>0, <1>1, SubSeqProperties
<1>. HIDE DEF piece
<1>3. ASSUME NEW j \in i..k, lines[j] = SectionEnd PROVE SectionEnd \in ToSet(piece)
  <2>1. j - i + 1 \in 1..(k - i + 1) /\ i + (j - i + 1) - 1 = j
    BY <1>0
  <2>2. piece[j - i + 1] = SectionEnd /\ j - i + 1 \in DOMAIN piece
    BY <1>2, <1>3, <2>1
  <2>. QED BY <2>2 DEF ToSet
<1>4. ASSUME SectionEnd \in ToSet(piece) PROVE \E j \in i..k : lines[j] = SectionEnd
  <2>1. PICK j \in 1..(k - i + 1) : piece[j] = SectionEnd
    BY <1>2, <1>4 DEF ToSet
  <2>2. i + j - 1 \in i..k
    BY <1>0
  <2>. QED BY <1>2, <2>1, <2>2
<1>. QED BY <1>3, <1>4 DEF piece

\* The web server's block, with no section before and after it, is what is read.
LEMMA BlockServes ==
    ASSUME NEW pre \in Seq(Line), NEW post \in Seq(Line), NEW p \in Nat,
           \A i \in 1..Len(pre) : pre[i] # Section,
           \A i \in 1..Len(post) : post[i] # Section
    PROVE  LET lines == pre \o build_app_settings_block(p) \o post
           IN  IsExeFile(lines) /\ ExeServes(lines, p)
<1>. DEFINE block == build_app_settings_block(p)
            n == Len(pre)
            m == Len(post)
<1>3. /\ block \in Seq(Line) /\ Len(block) = 4
      /\ block[1] = Section /\ block[2] = Entry(WebServer, 1)
      /\ block[3] = Entry(ListenerPort, p) /\ block[4] = SectionEnd
  BY BlockOfLines
<1>. HIDE DEF block
<1>4. PICK lines \in Seq(Line) :
        /\ lines = pre \o block \o post /\ Len(lines) = n + 4 + m
        /\ \A i \in 1..n : lines[i] = pre[i]
        /\ \A i \in 1..4 : lines[n + i] = block[i]
        /\ \A i \in 1..m : lines[n + 4 + i] = post[i]
  BY <1>3, AroundTheBlock, ZenonT(60)
<1>5. n \in Nat /\ m \in Nat
  OBVIOUS
<1>6. /\ Section # SectionEnd
      /\ \A key, value : Entry(key, value) # Section /\ Entry(key, value) # SectionEnd
      /\ Section.tag # "add" /\ SectionEnd.tag # "add"
      /\ \A key, value : Entry(key, value).tag = "add"
  BY DEF Section, SectionEnd, Tag, Entry
<1>7. /\ lines[n + 1] = Section /\ lines[n + 2] = Entry(WebServer, 1)
      /\ lines[n + 3] = Entry(ListenerPort, p) /\ lines[n + 4] = SectionEnd
      /\ n + 1 \in DOMAIN lines /\ n + 2 \in DOMAIN lines /\ n + 3 \in DOMAIN lines
      /\ n + 4 \in DOMAIN lines
  BY <1>3, <1>4, <1>5
<1>8. ASSUME NEW i \in DOMAIN lines, lines[i] = Section PROVE i = n + 1
  <2>1. i \in 1..(n + 4 + m)
    BY <1>4
  <2>2. CASE i \in 1..n
    BY <1>4, <1>8, <2>2
  <2>3. CASE i \in {n + 2, n + 3, n + 4}
    BY <1>6, <1>7, <1>8, <2>3
  <2>4. CASE i > n + 4
    <3>1. i - (n + 4) \in 1..m /\ n + 4 + (i - (n + 4)) = i
      BY <1>5, <2>1, <2>4
    <3>. QED BY <1>4, <1>8, <3>1
  <2>. QED BY <1>5, <2>1, <2>2, <2>3, <2>4
<1>9. IsExeFile(lines)
  BY <1>8 DEF IsExeFile, OneSection
<1>11. ASSUME NEW k \in DOMAIN lines, lines[k].tag = "add"
       PROVE  (\E i \in 1..k : lines[i] = Section /\ SectionEnd \notin ToSet(SubSeq(lines, i, k)))
                <=> k \in {n + 2, n + 3}
  <2>0. k \in Nat /\ DOMAIN lines = 1..(n + 4 + m)
    BY <1>4
  <2>1. ASSUME NEW i \in 1..k, lines[i] = Section, SectionEnd \notin ToSet(SubSeq(lines, i, k))
        PROVE  k \in {n + 2, n + 3}
    <3>1. i \in DOMAIN lines /\ i <= k
      BY <2>0
    <3>2. i = n + 1
      BY <1>8, <2>1, <3>1
    <3>3. ~(n + 4 \in i..k)
      BY <1>7, <2>1, <3>1, EndIsBetween
    <3>4. k # n + 1
      BY <1>6, <1>7, <1>11
    <3>. QED BY <1>5, <2>0, <3>1, <3>2, <3>3, <3>4
  <2>2. ASSUME k \in {n + 2, n + 3}
        PROVE  \E i \in 1..k : lines[i] = Section /\ SectionEnd \notin ToSet(SubSeq(lines, i, k))
    <3>1. n + 1 \in 1..k /\ n + 1 \in DOMAIN lines /\ n + 1 <= k
      BY <1>5, <1>7, <2>2
    <3>2. ASSUME NEW j \in (n + 1)..k PROVE lines[j] # SectionEnd
      <4>1. j = n + 1 \/ j = n + 2 \/ j = n + 3
        <5>1. k \in {n + 2, n + 3}
          BY <2>2
        <5>. QED BY <1>5, <5>1
      <4>. QED BY <1>6, <1>7, <4>1
    <3>3. SectionEnd \notin ToSet(SubSeq(lines, n + 1, k))
      BY <3>1, <3>2, EndIsBetween
    <3>. QED BY <1>7, <3>1, <3>3
  <2>. QED BY <2>1, <2>2
<1>12. Settings(lines) = {lines[j] : j \in {n + 2, n + 3}}
  <2>1. lines[n + 2].tag = "add" /\ lines[n + 3].tag = "add"
    BY <1>6, <1>7
  <2>. DEFINE In == {k \in DOMAIN lines :
                        /\ lines[k].tag = "add"
                        /\ \E i \in 1..k : lines[i] = Section
                                /\ SectionEnd \notin ToSet(SubSeq(lines, i, k))}
  <2>2. In = {n + 2, n + 3}
    BY <1>7, <1>11, <2>1
  <2>3. Settings(lines) = {lines[j] : j \in In}
    BY DEF Settings
  <2>. QED BY <2>2, <2>3
<1>13. ExeServes(lines, p)
  BY <1>7, <1>12 DEF ExeServes
<1>. QED BY <1>4, <1>9, <1>13 DEF block

\* A file that is created serves.
LEMMA MinimalServes ==
    ASSUME NEW p \in Nat
    PROVE  IsExeFile(Minimal(p)) /\ ExeServes(Minimal(p), p)
<1>1. PICK pre \in Seq(Line), post \in Seq(Line) : pre = <<Root>> /\ post = <<RootEnd>>
  <2>1. PICK r \in Line, e \in Line : r = Root /\ e = RootEnd
    BY LinesAreLines
  <2>2. <<r>> \in Seq(Line) /\ <<e>> \in Seq(Line)
    OBVIOUS
  <2>. QED BY <2>1, <2>2
<1>2. Section # Root /\ Section # RootEnd
  BY DEF Section, Root, RootEnd, Tag
<1>3. Len(pre) = 1 /\ Len(post) = 1 /\ pre[1] = Root /\ post[1] = RootEnd
  BY <1>1
<1>4. /\ \A i \in 1..Len(pre) : pre[i] # Section
      /\ \A i \in 1..Len(post) : post[i] # Section
  BY <1>2, <1>3
<1>. QED BY <1>1, <1>4, BlockServes DEF Minimal

\* Patched, the first file serves on the port, whatever it was.
LEMMA ExeIsPatched ==
    ASSUME NEW lines, IsExeFile(lines), NEW p \in Nat
    PROVE  LET patched == patch_app_settings(lines, p)
           IN  IsExeFile(patched) /\ ExeServes(patched, p)
<1>. DEFINE Insert(from, to) == SubSeq(lines, 1, from) \o build_app_settings_block(p)
                                  \o SubSeq(lines, to + 1, Len(lines))
<1>0. /\ lines \in Seq(Line) /\ Len(lines) \in Nat /\ DOMAIN lines = 1..Len(lines)
      /\ \A i \in 1..Len(lines) : lines[i] \in Line
      /\ \A i, j \in 1..Len(lines) : lines[i] = Section /\ lines[j] = Section => i = j
  BY DEF IsExeFile, OneSection
<1>1. ASSUME NEW from \in 0..Len(lines), NEW to \in from..Len(lines),
             \A i \in 1..Len(lines) : lines[i] = Section => i > from /\ i <= to
      PROVE  IsExeFile(Insert(from, to)) /\ ExeServes(Insert(from, to), p)
  <2>0. from \in Nat /\ to \in Nat /\ Len(lines) \in Nat /\ from <= to /\ to <= Len(lines)
    BY <1>0
  <2>1. PICK pre \in Seq(Line) :
          /\ pre = SubSeq(lines, 1, from) /\ Len(pre) = from
          /\ \A i \in 1..from : pre[i] = lines[i]
    <3>1. from \in Int /\ \A i \in 1..from : lines[i] \in Line
      BY <1>0
    <3>2. /\ SubSeq(lines, 1, from) \in Seq(Line)
          /\ Len(SubSeq(lines, 1, from)) = IF 1 <= from THEN from - 1 + 1 ELSE 0
          /\ \A i \in 1..(from - 1 + 1) : SubSeq(lines, 1, from)[i] = lines[1 + i - 1]
      BY <3>1, SubSeqProperties
    <3>3. \A i \in 1..from : SubSeq(lines, 1, from)[i] = lines[i]
      BY <1>0, <3>2
    <3>4. (IF 1 <= from THEN from - 1 + 1 ELSE 0) = from
      BY <2>0
    <3>. QED BY <3>2, <3>3, <3>4
  <2>2. PICK post \in Seq(Line) :
          /\ post = SubSeq(lines, to + 1, Len(lines)) /\ Len(post) = Len(lines) - to
          /\ \A i \in 1..(Len(lines) - to) : post[i] = lines[to + i]
    <3>1. to + 1 \in Int /\ Len(lines) \in Int /\ \A i \in (to + 1)..Len(lines) : lines[i] \in Line
      BY <1>0
    <3>2. /\ SubSeq(lines, to + 1, Len(lines)) \in Seq(Line)
          /\ Len(SubSeq(lines, to + 1, Len(lines)))
                = IF to + 1 <= Len(lines) THEN Len(lines) - (to + 1) + 1 ELSE 0
          /\ \A i \in 1..(Len(lines) - (to + 1) + 1) :
                SubSeq(lines, to + 1, Len(lines))[i] = lines[(to + 1) + i - 1]
      BY <3>1, SubSeqProperties
    <3>3. (IF to + 1 <= Len(lines) THEN Len(lines) - (to + 1) + 1 ELSE 0) = Len(lines) - to
      BY <2>0
    <3>4. ASSUME NEW i \in 1..(Len(lines) - to)
          PROVE  SubSeq(lines, to + 1, Len(lines))[i] = lines[to + i]
      <4>1. i \in 1..(Len(lines) - (to + 1) + 1) /\ (to + 1) + i - 1 = to + i
        BY <1>0
      <4>. QED BY <3>2, <4>1
    <3>. QED BY <3>2, <3>3, <3>4
  <2>3. ASSUME NEW i \in 1..Len(pre) PROVE pre[i] # Section
    <3>1. i \in 1..from /\ i \in 1..Len(lines) /\ ~(i > from)
      BY <1>0, <2>1
    <3>. QED BY <1>1, <2>1, <3>1
  <2>4. ASSUME NEW i \in 1..Len(post) PROVE post[i] # Section
    <3>1. i \in 1..(Len(lines) - to) /\ to + i \in 1..Len(lines) /\ ~(to + i <= to)
      BY <2>0, <2>2
    <3>. QED BY <1>1, <2>2, <3>1
  <2>. QED BY <2>1, <2>2, <2>3, <2>4, BlockServes
<1>. DEFINE start == At(lines, Section)
            root == At(lines, Root)
            rest == SubSeq(lines, start, Len(lines))
            end == IF SectionEnd \in ToSet(rest) THEN start + At(rest, SectionEnd) - 1
                   ELSE Len(lines)
<1>2. CASE start # 0
  <2>1. /\ start \in 1..Len(lines) /\ lines[start] = Section
        /\ \A i \in 1..Len(lines) : lines[i] = Section => i = start
    BY <1>0, <1>2, PlaceOfALine
  <2>. HIDE DEF start
  <2>2. rest \in Seq(Line) /\ Len(rest) = Len(lines) - start + 1
    <3>1. start \in Int /\ Len(lines) \in Int /\ \A i \in start..Len(lines) : lines[i] \in Line
      BY <1>0, <2>1
    <3>2. /\ rest \in Seq(Line)
          /\ Len(rest) = IF start <= Len(lines) THEN Len(lines) - start + 1 ELSE 0
      BY <3>1, SubSeqProperties
    <3>. QED BY <2>1, <3>2
  <2>. HIDE DEF rest
  <2>3. SectionEnd \in ToSet(rest) => At(rest, SectionEnd) \in 1..Len(rest)
    <3>1. SectionEnd \in ToSet(rest) => \E i \in 1..Len(rest) : rest[i] = SectionEnd
      BY <2>2 DEF ToSet
    <3>. QED BY <2>2, <3>1, PlaceOfALine
  <2>4. end \in (start - 1)..Len(lines) /\ end >= start
    BY <1>0, <2>1, <2>2, <2>3
  <2>. HIDE DEF end
  <2>5. start - 1 \in 0..Len(lines) /\ end \in (start - 1)..Len(lines)
    BY <1>0, <2>1, <2>4
  <2>6. \A i \in 1..Len(lines) : lines[i] = Section => i > start - 1 /\ i <= end
    BY <1>0, <2>1, <2>4
  <2>7. IsExeFile(Insert(start - 1, end)) /\ ExeServes(Insert(start - 1, end), p)
    BY <1>1, <2>5, <2>6
  <2>8. patch_app_settings(lines, p) = Insert(start - 1, end)
    BY <1>2 DEF patch_app_settings, start, rest, end
  <2>. HIDE DEF Insert
  <2>. QED BY <2>7, <2>8
<1>3. CASE start = 0
  <2>1. \A i \in 1..Len(lines) : lines[i] # Section
    BY <1>0, <1>3, PlaceOfALine
  <2>2. CASE root # 0
    <3>1. root \in 1..Len(lines)
      BY <1>0, <2>2, PlaceOfALine
    <3>2. patch_app_settings(lines, p) = Insert(root, root)
      BY <1>3, <2>2 DEF patch_app_settings
    <3>. HIDE DEF root
    <3>3. root \in 0..Len(lines) /\ root \in root..Len(lines)
      BY <1>0, <3>1
    <3>4. IsExeFile(Insert(root, root)) /\ ExeServes(Insert(root, root), p)
      BY <1>1, <2>1, <3>3
    <3>. HIDE DEF Insert
    <3>. QED BY <3>2, <3>4
  <2>3. CASE root = 0
    <3>1. patch_app_settings(lines, p) = Minimal(p)
      BY <1>3, <2>3 DEF patch_app_settings
    <3>2. IsExeFile(Minimal(p)) /\ ExeServes(Minimal(p), p)
      BY MinimalServes
    <3>. QED BY <3>1, <3>2
  <2>. QED BY <2>2, <2>3
<1>. QED BY <1>2, <1>3

\* Lines of the same keys, with a section where there was one.
LEMMA SameShape ==
    ASSUME NEW lines, IsUserFile(lines), NEW new \in Seq(Line), Len(new) = Len(lines),
           \A k \in 1..Len(lines) :
               /\ new[k].key = lines[k].key /\ new[k].tag = lines[k].tag
               /\ new[k] = Section <=> lines[k] = Section
               /\ new[k] = SectionEnd <=> lines[k] = SectionEnd
    PROVE  IsUserFile(new) /\ (Section \in ToSet(new) <=> Section \in ToSet(lines))
<1>1. /\ DOMAIN lines = 1..Len(lines) /\ DOMAIN new = 1..Len(lines) /\ Len(lines) \in Nat
  BY DEF IsUserFile
<1>2. Section \in ToSet(new) <=> Section \in ToSet(lines)
  BY <1>1 DEF ToSet
<1>3. OneOfEach(new)
  BY <1>1 DEF IsUserFile, OneOfEach
<1>4. \A k \in DOMAIN new : new[k].key \in {WebServer, ListenerPort} => new[k].tag = "add"
  BY <1>1 DEF IsUserFile
<1>5. ASSUME NEW s \in DOMAIN lines, OpensAt(lines, s), Encloses(lines, s)
      PROVE  OpensAt(new, s) /\ Encloses(new, s)
  <2>1. OpensAt(new, s)
    BY <1>1, <1>5 DEF OpensAt
  <2>2. ASSUME NEW k \in DOMAIN new, new[k].tag = "add"
        PROVE  s < k /\ \A j \in s..k : new[j] # SectionEnd
    <3>1. s < k /\ \A j \in s..k : lines[j] # SectionEnd
      BY <1>1, <1>5, <2>2 DEF Encloses
    <3>2. \A j \in s..k : j \in 1..Len(lines)
      BY <1>1, <3>1
    <3>. QED BY <3>1, <3>2
  <2>. QED BY <2>1, <2>2 DEF Encloses
<1>6. Section \in ToSet(lines) => \E s \in DOMAIN lines : OpensAt(lines, s) /\ Encloses(lines, s)
  BY DEF IsUserFile
<1>. QED BY <1>1, <1>2, <1>3, <1>4, <1>5, <1>6 DEF IsUserFile

\* A setting that is there takes the value where it stands.
LEMMA ReplacedKeeps ==
    ASSUME NEW lines, IsUserFile(lines), NEW key \in {WebServer, ListenerPort}, NEW value \in Nat,
           NEW old \in 1..Len(lines), lines[old].key = key
    PROVE  LET new == [i \in DOMAIN lines |->
                        IF lines[i] = lines[old] THEN Entry(key, value) ELSE lines[i]]
           IN  /\ IsUserFile(new) /\ (Section \in ToSet(new) <=> Section \in ToSet(lines))
               /\ Has(new, key, value)
               /\ \A other, v : other # key /\ Has(lines, other, v) => Has(new, other, v)
<1>1. /\ lines \in Seq(Line) /\ DOMAIN lines = 1..Len(lines) /\ Len(lines) \in Nat
      /\ \A i \in 1..Len(lines) : lines[i] \in Line
  BY DEF IsUserFile
<1>2. PICK e \in Line : e = Entry(key, value)
  BY LinesAreLines DEF Key
<1>3. PICK new \in Seq(Line) :
        /\ new = [i \in DOMAIN lines |-> IF lines[i] = lines[old] THEN Entry(key, value) ELSE lines[i]]
        /\ Len(new) = Len(lines)
        /\ \A i \in 1..Len(lines) : new[i] = IF lines[i] = lines[old] THEN e ELSE lines[i]
  <2>. DEFINE n == [i \in 1..Len(lines) |-> IF lines[i] = lines[old] THEN e ELSE lines[i]]
  <2>1. \A i \in 1..Len(lines) : (IF lines[i] = lines[old] THEN e ELSE lines[i]) \in Line
    BY <1>1
  <2>2. n \in [1..Len(lines) -> Line]
    BY <2>1
  <2>3. n \in Seq(Line) /\ Len(n) = Len(lines)
    BY <1>1, <2>2
  <2>4. \A i \in 1..Len(lines) : n[i] = IF lines[i] = lines[old] THEN e ELSE lines[i]
    OBVIOUS
  <2>5. n = [i \in DOMAIN lines |-> IF lines[i] = lines[old] THEN Entry(key, value) ELSE lines[i]]
    BY <1>1, <1>2
  <2>. QED BY <2>3, <2>4, <2>5
<1>4. /\ e.key = key /\ e.tag = "add" /\ e # Section /\ e # SectionEnd
      /\ Section.tag # "add" /\ SectionEnd.tag # "add"
  BY <1>2 DEF Entry, Section, SectionEnd, Tag
<1>5. lines[old].tag = "add"
  BY <1>1 DEF IsUserFile
<1>6. lines[old] # Section /\ lines[old] # SectionEnd
  BY <1>4, <1>5
<1>7. ASSUME NEW k \in 1..Len(lines)
      PROVE  /\ new[k].key = lines[k].key /\ new[k].tag = lines[k].tag
             /\ new[k] = Section <=> lines[k] = Section
             /\ new[k] = SectionEnd <=> lines[k] = SectionEnd
  BY <1>3, <1>4, <1>5, <1>6
<1>8. IsUserFile(new) /\ (Section \in ToSet(new) <=> Section \in ToSet(lines))
  BY <1>3, <1>7, SameShape
<1>9. Has(new, key, value)
  BY <1>2, <1>3 DEF Has
<1>10. ASSUME NEW other, NEW v, other # key, Has(lines, other, v) PROVE Has(new, other, v)
  <2>1. PICK k \in 1..Len(lines) : lines[k] = Entry(other, v)
    BY <1>1, <1>10 DEF Has
  <2>2. lines[k].key = other
    BY <2>1 DEF Entry
  <2>3. new[k] = lines[k] /\ k \in DOMAIN new
    BY <1>3, <1>10, <2>2
  <2>. QED BY <2>1, <2>3 DEF Has
<1>. QED BY <1>3, <1>8, <1>9, <1>10

\* A setting that is not there is the first of the section.
LEMMA InsertedKeeps ==
    ASSUME NEW lines, IsUserFile(lines), NEW key \in {WebServer, ListenerPort}, NEW value \in Nat,
           \A i \in 1..Len(lines) : lines[i].key # key,
           NEW s \in 1..Len(lines), OpensAt(lines, s)
    PROVE  LET new == InsertAt(lines, s + 1, Entry(key, value))
           IN  /\ IsUserFile(new) /\ Section \in ToSet(new)
               /\ Has(new, key, value)
               /\ \A other, v : Has(lines, other, v) => Has(new, other, v)
<1>1. /\ lines \in Seq(Line) /\ DOMAIN lines = 1..Len(lines) /\ Len(lines) \in Nat
      /\ \A i \in 1..Len(lines) : lines[i] \in Line
  BY DEF IsUserFile
<1>2. PICK e \in Line : e = Entry(key, value)
  BY LinesAreLines DEF Key
<1>. DEFINE n == Len(lines)
<1>3. PICK new \in Seq(Line) :
        /\ new = InsertAt(lines, s + 1, Entry(key, value))
        /\ Len(new) = n + 1 /\ new[s + 1] = e
        /\ \A k \in 1..(n + 1) : k < s + 1 => new[k] = lines[k]
        /\ \A k \in 1..(n + 1) : k > s + 1 => new[k] = lines[k - 1]
  <2>1. s + 1 \in 1..(Len(lines) + 1)
    BY <1>1
  <2>2. PICK f \in Seq(Line) : f = lines
    BY <1>1
  <2>3. PICK at \in 1..(Len(f) + 1) : at = s + 1
    BY <2>1, <2>2
  <2>4. /\ InsertAt(f, at, e) \in Seq(Line)
        /\ Len(InsertAt(f, at, e)) = Len(f) + 1
        /\ InsertAt(f, at, e)[at] = e
        /\ \A k \in 1..(Len(f) + 1) : k < at => InsertAt(f, at, e)[k] = f[k]
        /\ \A k \in 1..(Len(f) + 1) : k > at => InsertAt(f, at, e)[k] = f[k - 1]
    BY InsertedAt
  <2>. QED BY <1>2, <2>2, <2>3, <2>4
<1>4. /\ e.key = key /\ e.tag = "add" /\ e # Section /\ e # SectionEnd
      /\ Section.tag # "add" /\ SectionEnd.tag # "add" /\ Section # SectionEnd
  BY <1>2 DEF Entry, Section, SectionEnd, Tag
<1>5. n \in Nat /\ DOMAIN new = 1..(n + 1) /\ s \in 1..n
  BY <1>1, <1>3
\* Where a line of the new file comes from.
<1>6. ASSUME NEW k \in 1..(n + 1), k # s + 1
      PROVE  \E j \in 1..n : new[k] = lines[j] /\ ((j = k /\ k < s + 1) \/ (j = k - 1 /\ k > s + 1))
  <2>1. CASE k < s + 1
    <3>1. k \in 1..n
      BY <1>5, <2>1
    <3>. QED BY <1>3, <2>1, <3>1
  <2>2. CASE k > s + 1
    <3>1. k - 1 \in 1..n
      BY <1>5, <2>2
    <3>. QED BY <1>3, <2>2, <3>1
  <2>. QED BY <1>5, <1>6, <2>1, <2>2
<1>7. OneOfEach(new)
  <2>1. ASSUME NEW i \in 1..(n + 1), NEW j \in 1..(n + 1), new[i].key = new[j].key,
               new[i].key \in {WebServer, ListenerPort}
        PROVE  i = j
    <3>1. CASE i = s + 1
      <4>1. SUFFICES ASSUME j # s + 1 PROVE FALSE
        BY <3>1
      <4>2. PICK l \in 1..n : new[j] = lines[l]
        BY <1>6, <4>1
      <4>. QED BY <1>3, <1>4, <2>1, <3>1, <4>2
    <3>2. CASE j = s + 1
      <4>1. SUFFICES ASSUME i # s + 1 PROVE FALSE
        BY <3>2
      <4>2. PICK l \in 1..n : new[i] = lines[l]
        BY <1>6, <4>1
      <4>. QED BY <1>3, <1>4, <2>1, <3>2, <4>2
    <3>3. CASE i # s + 1 /\ j # s + 1
      <4>1. PICK a \in 1..n : new[i] = lines[a] /\ ((a = i /\ i < s + 1) \/ (a = i - 1 /\ i > s + 1))
        BY <1>6, <3>3
      <4>2. PICK b \in 1..n : new[j] = lines[b] /\ ((b = j /\ j < s + 1) \/ (b = j - 1 /\ j > s + 1))
        BY <1>6, <3>3
      <4>3. a = b
        BY <1>1, <2>1, <4>1, <4>2 DEF IsUserFile, OneOfEach
      <4>. QED BY <1>5, <4>1, <4>2, <4>3
    <3>. QED BY <3>1, <3>2, <3>3
  <2>. QED BY <1>5, <2>1 DEF OneOfEach
<1>8. ASSUME NEW k \in 1..(n + 1), new[k].key \in {WebServer, ListenerPort}
      PROVE  new[k].tag = "add"
  <2>1. CASE k = s + 1
    BY <1>3, <1>4, <2>1
  <2>2. CASE k # s + 1
    <3>1. PICK j \in 1..n : new[k] = lines[j]
      BY <1>6, <2>2
    <3>. QED BY <1>1, <1>8, <3>1 DEF IsUserFile
  <2>. QED BY <2>1, <2>2
<1>9. OpensAt(new, s) /\ s \in DOMAIN new
  <2>1. s \in 1..(n + 1) /\ s < s + 1
    BY <1>5
  <2>2. new[s] = Section
    BY <1>3, <2>1 DEF OpensAt
  <2>3. ASSUME NEW k \in 1..(n + 1), new[k] = Section PROVE s <= k
    <3>1. CASE k < s + 1
      <4>1. new[k] = lines[k] /\ k \in 1..n
        BY <1>3, <1>5, <3>1
      <4>. QED BY <1>1, <2>3, <4>1 DEF OpensAt
    <3>2. CASE ~(k < s + 1)
      BY <1>5, <3>2
    <3>. QED BY <3>1, <3>2
  <2>. QED BY <1>5, <2>1, <2>2, <2>3 DEF OpensAt
<1>10. Encloses(new, s)
  <2>1. PICK t \in 1..n : OpensAt(lines, t) /\ Encloses(lines, t)
    <3>1. Section \in ToSet(lines)
      BY <1>1 DEF OpensAt, ToSet
    <3>. QED BY <1>1, <3>1 DEF IsUserFile
  <2>2. t = s
    <3>1. t <= s /\ s <= t
      BY <1>1, <2>1 DEF OpensAt
    <3>. QED BY <1>5, <3>1
  <2>3. ASSUME NEW k \in 1..n, lines[k].tag = "add"
        PROVE  s < k /\ \A j \in s..k : lines[j] # SectionEnd
    BY <1>1, <2>1, <2>2, <2>3 DEF Encloses
  <2>4. new[s] # SectionEnd
    BY <1>4, <1>9 DEF OpensAt
  <2>5. ASSUME NEW k \in 1..(n + 1), new[k].tag = "add"
        PROVE  s < k /\ \A j \in s..k : new[j] # SectionEnd
    <3>1. CASE k = s + 1
      <4>1. \A j \in s..k : j = s \/ j = s + 1
        BY <1>5, <3>1
      <4>. QED BY <1>3, <1>4, <1>5, <2>4, <3>1, <4>1
    <3>2. CASE k # s + 1
      <4>1. PICK l \in 1..n : new[k] = lines[l] /\ ((l = k /\ k < s + 1) \/ (l = k - 1 /\ k > s + 1))
        BY <1>6, <3>2
      <4>2. s < l /\ \A j \in s..l : lines[j] # SectionEnd
        BY <2>3, <2>5, <4>1
      <4>3. l = k - 1 /\ k > s + 1
        BY <1>5, <4>1, <4>2
      <4>4. ASSUME NEW j \in s..k PROVE new[j] # SectionEnd
        <5>1. CASE j = s
          BY <2>4, <5>1
        <5>2. CASE j = s + 1
          BY <1>3, <1>4, <5>2
        <5>3. CASE j > s + 1
          <6>1. j \in 1..(n + 1) /\ j - 1 \in s..l
            BY <1>5, <4>3, <5>3
          <6>2. new[j] = lines[j - 1]
            BY <1>3, <5>3, <6>1
          <6>. QED BY <4>2, <6>1, <6>2
        <5>. QED BY <1>5, <5>1, <5>2, <5>3
      <4>5. s < k
        BY <1>5, <4>3
      <4>. QED BY <4>4, <4>5
    <3>. QED BY <3>1, <3>2
  <2>. QED BY <1>5, <2>5 DEF Encloses
<1>11. Section \in ToSet(new)
  BY <1>9 DEF OpensAt, ToSet
<1>12. IsUserFile(new)
  BY <1>5, <1>7, <1>8, <1>9, <1>10 DEF IsUserFile
<1>13. Has(new, key, value)
  <2>1. s + 1 \in DOMAIN new
    BY <1>5
  <2>. QED BY <1>2, <1>3, <2>1 DEF Has
<1>14. ASSUME NEW other, NEW v, Has(lines, other, v) PROVE Has(new, other, v)
  <2>1. PICK k \in 1..n : lines[k] = Entry(other, v)
    BY <1>1, <1>14 DEF Has
  <2>2. CASE k < s + 1
    <3>1. k \in 1..(n + 1)
      BY <1>5
    <3>2. new[k] = lines[k]
      BY <1>3, <2>2, <3>1
    <3>. QED BY <1>5, <2>1, <3>1, <3>2 DEF Has
  <2>3. CASE ~(k < s + 1)
    <3>1. k + 1 \in 1..(n + 1) /\ k + 1 > s + 1 /\ (k + 1) - 1 = k
      BY <1>5, <2>3
    <3>2. new[k + 1] = lines[k]
      BY <1>3, <3>1
    <3>. QED BY <1>5, <2>1, <3>1, <3>2 DEF Has
  <2>. QED BY <2>2, <2>3
<1>. QED BY <1>3, <1>11, <1>12, <1>13, <1>14

LEMMA UpdateKeeps ==
    ASSUME NEW lines, IsUserFile(lines), NEW key \in {WebServer, ListenerPort}, NEW value \in Nat
    PROVE  LET new == update_app_setting_key(lines, key, value)
           IN  /\ IsUserFile(new) /\ (Section \in ToSet(new) <=> Section \in ToSet(lines))
               /\ Section \in ToSet(lines) => Has(new, key, value)
               /\ \A other, v : other # key /\ Has(lines, other, v) => Has(new, other, v)
<1>1. /\ lines \in Seq(Line) /\ DOMAIN lines = 1..Len(lines) /\ Len(lines) \in Nat
  BY DEF IsUserFile
<1>. DEFINE I == {i \in 1..Len(lines) : lines[i].key = key}
            old == SelectInSeq(lines, LAMBDA l : l.key = key)
            section == At(lines, Section)
<1>2. old = IF I # {} THEN Min(I) ELSE 0
  BY DEF SelectInSeq
<1>3. I # {} => Min(I) \in I
  <2>1. I \in SUBSET Nat
    OBVIOUS
  <2>. QED BY <2>1, LeastOfSome
<1>4. /\ old # 0 => old \in 1..Len(lines) /\ lines[old].key = key
      /\ old = 0 => \A i \in 1..Len(lines) : lines[i].key # key
  BY <1>2, <1>3
<1>5. /\ section # 0 => section \in 1..Len(lines) /\ OpensAt(lines, section)
                        /\ Section \in ToSet(lines)
      /\ section = 0 => Section \notin ToSet(lines)
  BY <1>1, PlaceOfALine DEF OpensAt, ToSet
<1>6. update_app_setting_key(lines, key, value) =
        CASE old # 0 -> [i \in DOMAIN lines |->
                            IF lines[i] = lines[old] THEN Entry(key, value) ELSE lines[i]]
          [] old = 0 /\ section # 0 -> InsertAt(lines, section + 1, Entry(key, value))
          [] OTHER -> lines
  BY DEF update_app_setting_key
<1>. HIDE DEF old, section
<1>7. CASE old # 0
  <2>1. update_app_setting_key(lines, key, value) =
          [i \in DOMAIN lines |-> IF lines[i] = lines[old] THEN Entry(key, value) ELSE lines[i]]
    BY <1>6, <1>7
  <2>2. PICK place \in 1..Len(lines) : place = old /\ lines[place].key = key
    BY <1>4, <1>7
  <2>. DEFINE new == [i \in DOMAIN lines |->
                        IF lines[i] = lines[place] THEN Entry(key, value) ELSE lines[i]]
  <2>3. /\ IsUserFile(new) /\ (Section \in ToSet(new) <=> Section \in ToSet(lines))
        /\ Has(new, key, value)
        /\ \A other, v : other # key /\ Has(lines, other, v) => Has(new, other, v)
    BY <2>2, ReplacedKeeps, ZenonT(40)
  <2>4. update_app_setting_key(lines, key, value) = new
    BY <2>1, <2>2
  <2>. HIDE DEF new
  <2>. QED BY <2>3, <2>4
<1>8. CASE old = 0 /\ section # 0
  <2>1. update_app_setting_key(lines, key, value) = InsertAt(lines, section + 1, Entry(key, value))
    BY <1>6, <1>8
  <2>. QED BY <1>4, <1>5, <1>8, <2>1, InsertedKeeps
<1>9. CASE old = 0 /\ section = 0
  <2>1. update_app_setting_key(lines, key, value) = lines
    BY <1>6, <1>9
  <2>. QED BY <1>5, <1>9, <2>1
<1>. QED BY <1>7, <1>8, <1>9

LEMMA UserIsPatched ==
    ASSUME NEW lines, IsUserFile(lines), NEW p \in Nat
    PROVE  LET patched == patch_user_settings(lines, p)
           IN  IsUserFile(patched) /\ UserServes(patched, p)
<1>. DEFINE first == update_app_setting_key(lines, WebServer, 1)
            patched == update_app_setting_key(first, ListenerPort, p)
<1>1. /\ IsUserFile(first) /\ (Section \in ToSet(first) <=> Section \in ToSet(lines))
      /\ Section \in ToSet(lines) => Has(first, WebServer, 1)
  BY UpdateKeeps
<1>. HIDE DEF first
<1>2. /\ IsUserFile(patched) /\ (Section \in ToSet(patched) <=> Section \in ToSet(first))
      /\ Section \in ToSet(first) => Has(patched, ListenerPort, p)
      /\ WebServer # ListenerPort /\ Has(first, WebServer, 1) => Has(patched, WebServer, 1)
  BY <1>1, UpdateKeeps
<1>3. WebServer # ListenerPort
  BY DEF WebServer, ListenerPort
<1>4. patch_user_settings(lines, p) = patched
  BY DEF patch_user_settings, first
<1>. HIDE DEF patched
<1>. QED BY <1>1, <1>2, <1>3, <1>4 DEF UserServes

\* The second file as it is created.
LEMMA MinimalIsUserFile ==
    ASSUME NEW p \in Nat
    PROVE  IsUserFile(Minimal(p)) /\ UserServes(Minimal(p), p)
<1>1. PICK pre \in Seq(Line), post \in Seq(Line) :
        /\ pre = <<Root>> /\ post = <<RootEnd>> /\ Len(pre) = 1 /\ Len(post) = 1
        /\ pre[1] = Root /\ post[1] = RootEnd
  <2>1. PICK r \in Line, e \in Line : r = Root /\ e = RootEnd
    BY LinesAreLines
  <2>2. <<r>> \in Seq(Line) /\ <<e>> \in Seq(Line)
    OBVIOUS
  <2>. QED BY <2>1, <2>2
<1>2. PICK block \in Seq(Line) :
        /\ block = build_app_settings_block(p) /\ Len(block) = 4
        /\ block[1] = Section /\ block[2] = Entry(WebServer, 1)
        /\ block[3] = Entry(ListenerPort, p) /\ block[4] = SectionEnd
  BY BlockOfLines
<1>3. PICK lines \in Seq(Line) :
        /\ lines = pre \o block \o post /\ Len(lines) = Len(pre) + 4 + Len(post)
        /\ \A i \in 1..Len(pre) : lines[i] = pre[i]
        /\ \A i \in 1..4 : lines[Len(pre) + i] = block[i]
        /\ \A i \in 1..Len(post) : lines[Len(pre) + 4 + i] = post[i]
  BY <1>2, AroundTheBlock, ZenonT(60)
<1>4. lines = Minimal(p)
  BY <1>1, <1>2, <1>3 DEF Minimal
<1>5. /\ Len(lines) = 6 /\ lines[1] = Root /\ lines[2] = Section
      /\ lines[3] = Entry(WebServer, 1) /\ lines[4] = Entry(ListenerPort, p)
      /\ lines[5] = SectionEnd /\ lines[6] = RootEnd
  BY <1>1, <1>2, <1>3
<1>6. /\ DOMAIN lines = 1..6
      /\ \A i \in 1..6 : i = 1 \/ i = 2 \/ i = 3 \/ i = 4 \/ i = 5 \/ i = 6
  BY <1>5
<1>7. /\ lines[3].key = WebServer /\ lines[4].key = ListenerPort
      /\ lines[3].tag = "add" /\ lines[4].tag = "add"
      /\ \A i \in {1, 2, 5, 6} : lines[i].tag # "add" /\ lines[i].key = ""
      /\ lines[1] # Section /\ lines[2] # SectionEnd
      /\ lines[3] # SectionEnd /\ lines[4] # SectionEnd
  <2>1. /\ lines[3].key = WebServer /\ lines[4].key = ListenerPort
        /\ lines[3].tag = "add" /\ lines[4].tag = "add"
        /\ lines[3] # SectionEnd /\ lines[4] # SectionEnd
    BY <1>5, EntriesDiffer
  <2>2. /\ lines[1].tag # "add" /\ lines[2].tag # "add"
        /\ lines[5].tag # "add" /\ lines[6].tag # "add"
        /\ lines[1].key = "" /\ lines[2].key = "" /\ lines[5].key = "" /\ lines[6].key = ""
        /\ lines[1] # Section /\ lines[2] # SectionEnd
    BY <1>5, TagsDiffer
  <2>. QED BY <2>1, <2>2
<1>8. WebServer # ListenerPort /\ WebServer # "" /\ ListenerPort # ""
  BY KeysDiffer
<1>9. OneOfEach(lines)
  BY <1>6, <1>7, <1>8 DEF OneOfEach
<1>10. \A k \in DOMAIN lines : lines[k].key \in {WebServer, ListenerPort} => lines[k].tag = "add"
  BY <1>6, <1>7, <1>8
<1>11. OpensAt(lines, 2)
  <2>1. ASSUME NEW i \in 1..6, lines[i] = Section PROVE 2 <= i
    <3>1. i # 1
      BY <1>7, <2>1
    <3>. QED BY <3>1
  <2>. QED BY <1>5, <1>6, <2>1 DEF OpensAt
<1>12. Encloses(lines, 2)
  <2>1. ASSUME NEW k \in 1..6, lines[k].tag = "add"
        PROVE  2 < k /\ \A j \in 2..k : lines[j] # SectionEnd
    <3>1. k = 3 \/ k = 4
      BY <1>6, <1>7, <2>1
    <3>2. ASSUME NEW j \in 2..k PROVE lines[j] # SectionEnd
      <4>1. j = 2 \/ j = 3 \/ j = 4
        BY <3>1
      <4>. QED BY <1>7, <4>1
    <3>3. 2 < k
      BY <3>1
    <3>. QED BY <3>2, <3>3
  <2>. QED BY <1>6, <2>1 DEF Encloses
<1>13. 2 \in DOMAIN lines /\ 3 \in DOMAIN lines /\ 4 \in DOMAIN lines
  BY <1>6
<1>14. IsUserFile(lines)
  BY <1>9, <1>10, <1>11, <1>12, <1>13 DEF IsUserFile
<1>15. UserServes(lines, p)
  BY <1>5, <1>13 DEF UserServes, Has
<1>. QED BY <1>4, <1>14, <1>15

\* The files that are not the sidebar's.
LEMMA FilesOfOthers ==
    /\ IsExeFile(<<>>) /\ IsUserFile(<<>>)
    /\ \A lines \in ExeFiles : IsExeFile(lines)
    /\ \A lines \in UserFiles : IsUserFile(lines)
<1>1. PICK r \in Line, re \in Line, sec \in Line, end \in Line, st \in Line :
        r = Root /\ re = RootEnd /\ sec = Section /\ end = SectionEnd /\ st = Startup
  BY LinesAreLines
<1>2. PICK plot \in Line, more \in Line, off \in Line, on \in Line, nowhere \in Line :
        /\ plot = Plot(1) /\ more = Plot(2) /\ off = Entry(WebServer, 0)
        /\ on = Entry(WebServer, 1) /\ nowhere = Entry(ListenerPort, 0)
  BY LinesAreLines DEF Key, Plot
<1>3. /\ sec # r /\ sec # re /\ sec # end /\ sec # st /\ end # r
      /\ \A l \in {r, re, sec, end, st} : l.tag # "add" /\ l.key = ""
  BY <1>1, TagsDiffer
<1>4. /\ \A l \in {plot, more, off, on, nowhere} : l.tag = "add" /\ l # sec /\ l # end
      /\ plot.key = "plot" /\ more.key = "plot" /\ off.key = WebServer /\ on.key = WebServer
      /\ nowhere.key = ListenerPort
  BY <1>1, <1>2, EntriesDiffer DEF Plot
<1>5. IsExeFile(<<>>) /\ IsUserFile(<<>>)
  BY DEF IsExeFile, IsUserFile, OneSection, OneOfEach, ToSet
\* A file of the first kind, with its section at s.
<1>. DEFINE SectionOnlyAt(f, s) == f \in Seq(Line) /\ \A i \in 1..Len(f) : f[i] = sec => i = s
<1>6. ASSUME NEW lines, NEW s, SectionOnlyAt(lines, s) PROVE IsExeFile(lines)
  <2>1. DOMAIN lines = 1..Len(lines) /\ lines \in Seq(Line)
    BY <1>6
  <2>. QED BY <1>1, <1>6, <2>1 DEF IsExeFile, OneSection
<1>7. IsExeFile(<<r, st, re>>)
  <2>. DEFINE f == <<r, st, re>>
  <2>1. f \in Seq(Line) /\ Len(f) = 3 /\ f[1] = r /\ f[2] = st /\ f[3] = re
    OBVIOUS
  <2>. HIDE DEF f
  <2>2. \A i \in 1..3 : i = 1 \/ i = 2 \/ i = 3
    OBVIOUS
  <2>3. \A i \in 1..3 : f[i] = sec => i = 0
    BY <1>3, <1>4, <2>1, <2>2
  <2>4. SectionOnlyAt(f, 0)
    BY <2>1, <2>3
  <2>. HIDE DEF SectionOnlyAt
  <2>. QED BY <1>6, <2>4 DEF f
<1>8. IsExeFile(<<st>>)
  <2>. DEFINE f == <<st>>
  <2>1. f \in Seq(Line) /\ Len(f) = 1 /\ f[1] = st
    OBVIOUS
  <2>. HIDE DEF f
  <2>2. \A i \in 1..1 : i = 1
    OBVIOUS
  <2>3. \A i \in 1..1 : f[i] = sec => i = 0
    BY <1>3, <1>4, <2>1, <2>2
  <2>4. SectionOnlyAt(f, 0)
    BY <2>1, <2>3
  <2>. HIDE DEF SectionOnlyAt
  <2>. QED BY <1>6, <2>4 DEF f
<1>9. IsExeFile(<<r, sec, nowhere, end, st, re>>)
  <2>. DEFINE f == <<r, sec, nowhere, end, st, re>>
  <2>1. f \in Seq(Line) /\ Len(f) = 6 /\ f[1] = r /\ f[2] = sec /\ f[3] = nowhere /\ f[4] = end /\ f[5] = st /\ f[6] = re
    OBVIOUS
  <2>. HIDE DEF f
  <2>2. \A i \in 1..6 : i = 1 \/ i = 2 \/ i = 3 \/ i = 4 \/ i = 5 \/ i = 6
    OBVIOUS
  <2>3. \A i \in 1..6 : f[i] = sec => i = 2
    BY <1>3, <1>4, <2>1, <2>2
  <2>4. SectionOnlyAt(f, 2)
    BY <2>1, <2>3
  <2>. HIDE DEF SectionOnlyAt
  <2>. QED BY <1>6, <2>4 DEF f
<1>10. IsExeFile(<<r, st, sec, plot, end, re>>)
  <2>. DEFINE f == <<r, st, sec, plot, end, re>>
  <2>1. f \in Seq(Line) /\ Len(f) = 6 /\ f[1] = r /\ f[2] = st /\ f[3] = sec /\ f[4] = plot /\ f[5] = end /\ f[6] = re
    OBVIOUS
  <2>. HIDE DEF f
  <2>2. \A i \in 1..6 : i = 1 \/ i = 2 \/ i = 3 \/ i = 4 \/ i = 5 \/ i = 6
    OBVIOUS
  <2>3. \A i \in 1..6 : f[i] = sec => i = 3
    BY <1>3, <1>4, <2>1, <2>2
  <2>4. SectionOnlyAt(f, 3)
    BY <2>1, <2>3
  <2>. HIDE DEF SectionOnlyAt
  <2>. QED BY <1>6, <2>4 DEF f
<1>11. ASSUME NEW lines \in ExeFiles PROVE IsExeFile(lines)
  <2>1. \/ lines = <<r, st, re>> \/ lines = <<st>> \/ lines = <<r, sec, nowhere, end, st, re>>
        \/ lines = <<r, st, sec, plot, end, re>>
    BY <1>1, <1>2 DEF ExeFiles
  <2>. QED BY <1>7, <1>8, <1>9, <1>10, <2>1
<1>12. /\ plot \notin {off, on, nowhere} /\ more \notin {off, on, nowhere}
       /\ off # nowhere /\ on # nowhere
  BY <1>4, KeysDiffer
\* A file of the second, with its section at 2 and its entries in between.
<1>. DEFINE Shape(f, last, w, l) ==
              /\ f \in Seq(Line) /\ last \in Nat /\ Len(f) = last + 2 /\ last >= 2
              /\ f[1] = r /\ f[2] = sec /\ f[last + 1] = end /\ f[last + 2] = re
              /\ \A k \in 3..last :
                   /\ f[k] \in {plot, more, off, on, nowhere}
                   /\ f[k] \in {off, on} => k = w
                   /\ f[k] = nowhere => k = l
<1>13. ASSUME NEW lines, NEW last, NEW w, NEW l, Shape(lines, last, w, l)
       PROVE  IsUserFile(lines)
  <2>1. DOMAIN lines = 1..(last + 2) /\ last \in Nat /\ last >= 2
    BY <1>13
  <2>2. ASSUME NEW k \in 1..(last + 2), lines[k].tag = "add" \/ lines[k].key # ""
        PROVE  k \in 3..last
    <3>1. k # 1 /\ k # 2 /\ k # last + 1 /\ k # last + 2
      BY <1>3, <1>13, <2>2
    <3>. QED BY <2>1, <3>1
  <2>3. ASSUME NEW k \in 1..(last + 2), lines[k].key \in {WebServer, ListenerPort}
        PROVE  /\ lines[k].key = WebServer => k = w
               /\ lines[k].key = ListenerPort => k = l
               /\ lines[k].tag = "add"
    <3>1. k \in 3..last
      BY <2>2, <2>3, KeysDiffer
    <3>2. lines[k] \in {plot, more, off, on, nowhere}
      BY <1>13, <3>1
    <3>3. /\ lines[k] \notin {plot, more}
          /\ lines[k].key = WebServer => lines[k] \in {off, on}
          /\ lines[k].key = ListenerPort => lines[k] = nowhere
      BY <1>4, <2>3, <3>2, KeysDiffer
    <3>. QED BY <1>4, <1>13, <3>1, <3>2, <3>3
  <2>4. OneOfEach(lines)
    BY <2>1, <2>3, KeysDiffer DEF OneOfEach
  <2>5. \A k \in DOMAIN lines : lines[k].key \in {WebServer, ListenerPort} => lines[k].tag = "add"
    BY <2>1, <2>3
  <2>6. OpensAt(lines, 2) /\ 2 \in DOMAIN lines
    <3>1. 2 \in 1..(last + 2)
      BY <1>13
    <3>2. ASSUME NEW i \in 1..(last + 2), lines[i] = sec PROVE 2 <= i
      <4>1. i # 1
        BY <1>3, <1>13, <3>2
      <4>. QED BY <4>1
    <3>. QED BY <1>1, <1>13, <2>1, <3>1, <3>2 DEF OpensAt
  <2>7. ASSUME NEW k \in 1..(last + 2), lines[k].tag = "add"
        PROVE  2 < k /\ \A j \in 2..k : lines[j] # end
    <3>1. k \in 3..last
      BY <2>2, <2>7
    <3>2. ASSUME NEW j \in 2..k PROVE lines[j] # end
      <4>1. j = 2 \/ j \in 3..last
        BY <2>1, <3>1
      <4>2. CASE j \in 3..last
        <5>1. lines[j] \in {plot, more, off, on, nowhere}
          BY <1>13, <4>2
        <5>. QED BY <1>4, <5>1
      <4>3. CASE j = 2
        BY <1>3, <1>13, <4>3
      <4>. QED BY <4>1, <4>2, <4>3
    <3>3. 2 < k
      BY <3>1
    <3>. QED BY <3>2, <3>3
  <2>8. Encloses(lines, 2)
    BY <1>1, <2>1, <2>7 DEF Encloses
  <2>. QED BY <1>13, <2>4, <2>5, <2>6, <2>8 DEF IsUserFile
<1>14. IsUserFile(<<r, re>>)
  <2>. DEFINE f == <<r, re>>
  <2>1. f \in Seq(Line) /\ Len(f) = 2 /\ f[1] = r /\ f[2] = re
    OBVIOUS
  <2>. HIDE DEF f
  <2>2. DOMAIN f = 1..2 /\ \A i \in 1..2 : i = 1 \/ i = 2
    BY <2>1
  <2>3. \A i \in DOMAIN f : f[i].key = "" /\ f[i] # sec
    BY <1>3, <2>1, <2>2
  <2>4. Section \notin ToSet(f)
    BY <1>1, <2>3 DEF ToSet
  <2>5. IsUserFile(f)
    BY <2>1, <2>3, <2>4, KeysDiffer DEF IsUserFile, OneOfEach
  <2>. QED BY <2>5 DEF f
<1>15. IsUserFile(<<r, sec, end, re>>)
  <2>. DEFINE f == <<r, sec, end, re>>
  <2>1. f \in Seq(Line) /\ Len(f) = 4 /\ f[1] = r /\ f[2] = sec /\ f[3] = end /\ f[4] = re
    OBVIOUS
  <2>. HIDE DEF f
  <2>2. \A k \in 3..2 : FALSE
    OBVIOUS
  <2>3. \A k \in 3..2 :
          /\ f[k] \in {plot, more, off, on, nowhere}
          /\ f[k] \in {off, on} => k = 0
          /\ f[k] = nowhere => k = 0
    BY <1>12, <2>1, <2>2
  <2>4. Shape(f, 2, 0, 0)
    BY <2>1, <2>3
  <2>. HIDE DEF Shape
  <2>. QED BY <1>13, <2>4 DEF f
<1>16. IsUserFile(<<r, sec, plot, more, end, re>>)
  <2>. DEFINE f == <<r, sec, plot, more, end, re>>
  <2>1. f \in Seq(Line) /\ Len(f) = 6 /\ f[1] = r /\ f[2] = sec /\ f[3] = plot /\ f[4] = more /\ f[5] = end /\ f[6] = re
    OBVIOUS
  <2>. HIDE DEF f
  <2>2. \A k \in 3..4 : k = 3 \/ k = 4
    OBVIOUS
  <2>3. \A k \in 3..4 :
          /\ f[k] \in {plot, more, off, on, nowhere}
          /\ f[k] \in {off, on} => k = 0
          /\ f[k] = nowhere => k = 0
    BY <1>12, <2>1, <2>2
  <2>4. Shape(f, 4, 0, 0)
    BY <2>1, <2>3
  <2>. HIDE DEF Shape
  <2>. QED BY <1>13, <2>4 DEF f
<1>17. IsUserFile(<<r, sec, plot, off, more, end, re>>)
  <2>. DEFINE f == <<r, sec, plot, off, more, end, re>>
  <2>1. f \in Seq(Line) /\ Len(f) = 7 /\ f[1] = r /\ f[2] = sec /\ f[3] = plot /\ f[4] = off /\ f[5] = more /\ f[6] = end /\ f[7] = re
    OBVIOUS
  <2>. HIDE DEF f
  <2>2. \A k \in 3..5 : k = 3 \/ k = 4 \/ k = 5
    OBVIOUS
  <2>3. \A k \in 3..5 :
          /\ f[k] \in {plot, more, off, on, nowhere}
          /\ f[k] \in {off, on} => k = 4
          /\ f[k] = nowhere => k = 0
    BY <1>12, <2>1, <2>2
  <2>4. Shape(f, 5, 4, 0)
    BY <2>1, <2>3
  <2>. HIDE DEF Shape
  <2>. QED BY <1>13, <2>4 DEF f
<1>18. IsUserFile(<<r, sec, nowhere, on, end, re>>)
  <2>. DEFINE f == <<r, sec, nowhere, on, end, re>>
  <2>1. f \in Seq(Line) /\ Len(f) = 6 /\ f[1] = r /\ f[2] = sec /\ f[3] = nowhere /\ f[4] = on /\ f[5] = end /\ f[6] = re
    OBVIOUS
  <2>. HIDE DEF f
  <2>2. \A k \in 3..4 : k = 3 \/ k = 4
    OBVIOUS
  <2>3. \A k \in 3..4 :
          /\ f[k] \in {plot, more, off, on, nowhere}
          /\ f[k] \in {off, on} => k = 4
          /\ f[k] = nowhere => k = 3
    BY <1>12, <2>1, <2>2
  <2>4. Shape(f, 4, 4, 3)
    BY <2>1, <2>3
  <2>. HIDE DEF Shape
  <2>. QED BY <1>13, <2>4 DEF f
<1>19. ASSUME NEW lines \in UserFiles PROVE IsUserFile(lines)
  <2>1. \/ lines = <<r, sec, end, re>> \/ lines = <<r, sec, plot, more, end, re>>
        \/ lines = <<r, sec, plot, off, more, end, re>>
        \/ lines = <<r, sec, nowhere, on, end, re>> \/ lines = <<r, re>>
    BY <1>1, <1>2 DEF UserFiles
  <2>. QED BY <1>14, <1>15, <1>16, <1>17, <1>18, <2>1
<1>. QED BY <1>5, <1>11, <1>19


\* What is written, and what then may be read.
LEMMA PatchesServe ==
    ASSUME LhmConfigInv
    PROVE  /\ IsExeFile(ExePatched) /\ ExeServes(ExePatched, port)
           /\ IsUserFile(UserPatched) /\ UserServes(UserPatched, port)
<1>1. PICK p \in Nat : p = port
  BY DEF LhmConfigInv
<1>2. PICK e : e = exeConfig.lines /\ IsExeFile(e)
  BY DEF LhmConfigInv
<1>3. PICK u : u = userConfig.lines /\ IsUserFile(u)
  BY DEF LhmConfigInv
<1>4. /\ IsExeFile(Minimal(p)) /\ ExeServes(Minimal(p), p)
      /\ IsUserFile(Minimal(p)) /\ UserServes(Minimal(p), p)
  BY MinimalServes, MinimalIsUserFile
<1>5. /\ IsExeFile(patch_app_settings(e, p)) /\ ExeServes(patch_app_settings(e, p), p)
  BY <1>2, ExeIsPatched
<1>6. /\ IsUserFile(patch_user_settings(u, p)) /\ UserServes(patch_user_settings(u, p), p)
  BY <1>3, UserIsPatched
<1>. QED BY <1>1, <1>2, <1>3, <1>4, <1>5, <1>6 DEF ExePatched, UserPatched

LEMMA LhmConfigInvInit == LhmConfigInit => LhmConfigInv
<1>. SUFFICES ASSUME LhmConfigInit PROVE LhmConfigInv
  OBVIOUS
<1>1. /\ exeConfig.state \in {"missing", "whole"}
      /\ exeConfig.lines = <<>> \/ exeConfig.lines \in ExeFiles
  BY DEF LhmConfigInit, NoFile, Holding
<1>2. /\ userConfig.state \in {"missing", "whole"}
      /\ userConfig.lines = <<>> \/ userConfig.lines \in UserFiles
  BY DEF LhmConfigInit, NoFile, Holding
<1>3. port \in Nat /\ failures \in Nat /\ patching = "none" /\ launched = FALSE
  BY DEF LhmConfigInit
<1>4. IsExeFile(exeConfig.lines) /\ IsUserFile(userConfig.lines)
  BY <1>1, <1>2, FilesOfOthers
<1>. QED BY <1>1, <1>2, <1>3, <1>4 DEF LhmConfigInv

LEMMA LhmConfigInvStep ==
    ASSUME LhmConfigInv, [LhmConfigNext]_lhmConfigVars
    PROVE  LhmConfigInv'
<1>0. failures' \in Nat
  BY DEF LhmConfigInv, LhmConfigNext, StartsPatch, PatchExe, PatchUser, WritesBeside, RenameExe,
         RenameUser, Renames, SidebarDies, LhmSaves, Fails, Works, lhmConfigVars
<1>1. CASE StartsPatch
  <2>1. port' \in Nat
    BY <1>1, LhmConfigAssumption DEF StartsPatch
  <2>. QED BY <1>0, <1>1, <2>1 DEF StartsPatch, LhmConfigInv
<1>2. CASE PatchExe
  <2>. DEFINE new == ExePatched
  <2>1. IsExeFile(new) /\ ExeServes(new, port)
    BY PatchesServe
  <2>. HIDE DEF new
  <2>2. /\ UNCHANGED <<exeConfig, userConfig, port, overwritten>>
        /\ \/ /\ exeConfig = Holding(new) /\ patching' = "user" /\ launched' = FALSE
              /\ UNCHANGED beside
           \/ /\ patching' = "exe_rename" /\ beside' = Holding(new) /\ UNCHANGED launched
           \/ patching' = "none" /\ UNCHANGED launched
    BY <1>2 DEF PatchExe, WritesBeside, new
  <2>3. Holding(new).state = "whole" /\ Holding(new).lines = new
    BY DEF Holding
  <2>. QED BY <1>0, <2>1, <2>2, <2>3 DEF LhmConfigInv
<1>3. CASE PatchUser
  <2>. DEFINE new == UserPatched
  <2>1. IsUserFile(new) /\ UserServes(new, port)
    BY PatchesServe
  <2>. HIDE DEF new
  <2>2. /\ UNCHANGED <<exeConfig, userConfig, port, overwritten>> /\ patching = "user"
        /\ \/ /\ userConfig = Holding(new) /\ patching' = "none"
              /\ UNCHANGED beside
           \/ /\ patching' = "user_rename" /\ beside' = Holding(new) /\ UNCHANGED launched
           \/ patching' = "none" /\ UNCHANGED launched
    BY <1>3 DEF PatchUser, WritesBeside, new
  <2>3. Holding(new).state = "whole" /\ Holding(new).lines = new
    BY DEF Holding
  <2>. QED BY <1>0, <2>1, <2>2, <2>3 DEF LhmConfigInv
<1>4. CASE RenameExe
  <2>1. /\ UNCHANGED <<userConfig, port, overwritten>> /\ patching = "exe_rename"
        /\ \/ exeConfig' = beside /\ patching' = "user" /\ launched' = FALSE
           \/ UNCHANGED exeConfig /\ patching' = "none" /\ UNCHANGED launched
    <3>1. failures \in Nat
      BY DEF LhmConfigInv
    <3>2. \/ failures' = failures /\ patching' = "user" /\ launched' = FALSE
          \/ failures' = failures + 1 /\ patching' = "none" /\ UNCHANGED launched
      BY <1>4 DEF RenameExe, Renames, Works, Fails
    <3>3. /\ exeConfig' = IF failures' = failures THEN beside ELSE exeConfig
          /\ UNCHANGED <<userConfig, port, overwritten>> /\ patching = "exe_rename"
      BY <1>4 DEF RenameExe, Renames
    <3>4. failures + 1 # failures
      BY <3>1
    <3>. QED BY <3>2, <3>3, <3>4
  <2>. QED BY <1>0, <2>1 DEF LhmConfigInv
<1>5. CASE RenameUser
  <2>1. /\ UNCHANGED <<exeConfig, port, overwritten>> /\ patching = "user_rename"
        /\ patching' = "none"
        /\ \/ userConfig' = beside
           \/ UNCHANGED userConfig /\ UNCHANGED launched
    BY <1>5 DEF RenameUser, Renames, Works, Fails
  <2>. QED BY <1>0, <2>1 DEF LhmConfigInv
<1>6. CASE SidebarDies
  BY <1>0, <1>6 DEF SidebarDies, LhmConfigInv
<1>7. CASE LhmSaves
  <2>1. PICK lines \in UserFiles : userConfig' = Holding(lines)
    BY <1>7 DEF LhmSaves
  <2>2. userConfig'.state = "whole" /\ IsUserFile(userConfig'.lines)
    BY <2>1, FilesOfOthers DEF Holding
  <2>3. overwritten' = TRUE /\ UNCHANGED <<exeConfig, port, patching, beside, launched>>
    BY <1>7 DEF LhmSaves
  <2>. QED BY <1>0, <2>2, <2>3 DEF LhmConfigInv
<1>8. CASE UNCHANGED lhmConfigVars
  BY <1>8 DEF lhmConfigVars, LhmConfigInv
<1>. QED BY <1>1, <1>2, <1>3, <1>4, <1>5, <1>6, <1>7, <1>8 DEF LhmConfigNext

LEMMA LhmConfigInvHolds == DesktopSpec => []LhmConfigInv
<1>1. LhmConfigInv /\ [LhmConfigNext]_lhmConfigVars => LhmConfigInv'
  BY LhmConfigInvStep
<1>. QED BY <1>1, LhmConfigInvInit, BehaviourOfEach, PTL

\* Both files, as the program reads them.
LEMMA ExeIsRead ==
    ASSUME NEW lines, ExeServes(lines, port)
    PROVE  Serves(lines)
<1>1. /\ WebServer # ListenerPort
      /\ Entry(WebServer, 1).key = WebServer /\ Entry(WebServer, 1).value = 1
      /\ Entry(ListenerPort, port).key = ListenerPort /\ Entry(ListenerPort, port).value = port
  BY KeysDiffer, EntriesDiffer
<1>2. /\ {e.value : e \in {s \in Settings(lines) : s.key = WebServer}} = {1}
      /\ {e.value : e \in {s \in Settings(lines) : s.key = ListenerPort}} = {port}
  <2>1. /\ {s \in Settings(lines) : s.key = WebServer} = {Entry(WebServer, 1)}
        /\ {s \in Settings(lines) : s.key = ListenerPort} = {Entry(ListenerPort, port)}
    BY <1>1 DEF ExeServes
  <2>. QED BY <1>1, <2>1
<1>. QED BY <1>1, <1>2 DEF Serves

LEMMA UserIsRead ==
    ASSUME NEW lines, IsUserFile(lines), UserServes(lines, port), Section \in ToSet(lines)
    PROVE  Serves(lines)
<1>1. /\ lines \in Seq(Line) /\ DOMAIN lines = 1..Len(lines) /\ Len(lines) \in Nat
      /\ \A i, j \in DOMAIN lines :
            lines[i].key = lines[j].key /\ lines[i].key \in {WebServer, ListenerPort} => i = j
  BY DEF IsUserFile, OneOfEach
<1>2. PICK s \in DOMAIN lines : OpensAt(lines, s) /\ Encloses(lines, s)
  BY DEF IsUserFile
<1>3. ASSUME NEW k \in DOMAIN lines, lines[k].tag = "add" PROVE lines[k] \in Settings(lines)
  <2>1. s < k /\ \A j \in s..k : lines[j] # SectionEnd
    BY <1>2, <1>3 DEF Encloses
  <2>2. s <= k /\ s \in 1..k
    BY <1>1, <2>1
  <2>3. SectionEnd \notin ToSet(SubSeq(lines, s, k))
    BY <1>1, <2>1, <2>2, EndIsBetween
  <2>4. lines[s] = Section
    BY <1>2 DEF OpensAt
  <2>. QED BY <1>3, <2>2, <2>3, <2>4 DEF Settings
<1>4. \A e \in Settings(lines) : \E k \in DOMAIN lines : e = lines[k]
  BY DEF Settings
<1>5. ASSUME NEW key \in {WebServer, ListenerPort}, NEW v, Has(lines, key, v)
      PROVE  {e.value : e \in {t \in Settings(lines) : t.key = key}} = {v}
  <2>1. PICK k \in DOMAIN lines : lines[k] = Entry(key, v)
    BY <1>5 DEF Has
  <2>2. lines[k].key = key /\ lines[k].value = v /\ lines[k].tag = "add"
    BY <2>1, EntriesDiffer
  <2>3. lines[k] \in Settings(lines)
    BY <1>3, <2>2
  <2>4. ASSUME NEW e \in Settings(lines), e.key = key PROVE e = lines[k]
    BY <1>1, <1>4, <2>2, <2>4
  <2>5. {t \in Settings(lines) : t.key = key} = {lines[k]}
    BY <2>2, <2>3, <2>4
  <2>. QED BY <2>2, <2>5
<1>6. Has(lines, WebServer, 1) /\ Has(lines, ListenerPort, port)
  BY DEF UserServes
<1>7. /\ {e.value : e \in {t \in Settings(lines) : t.key = WebServer}} = {1}
      /\ {e.value : e \in {t \in Settings(lines) : t.key = ListenerPort}} = {port}
  BY <1>5, <1>6
<1>. QED BY <1>7, KeysDiffer DEF Serves

(***************************************************************************)
(* A launch that patched both files has one value for each of the two      *)
(* settings in both, whatever the distribution, the program, an edit or an *)
(* earlier launch that failed halfway left there: the patch of the first   *)
(* replaces the section, that of the second an entry or adds it, and a     *)
(* file is replaced as a whole or not at all.                              *)
(***************************************************************************)
THEOREM LaunchedServesHolds == DesktopSpec => []LaunchedServes
<1>1. LhmConfigInv => LaunchedServes
  BY ExeIsRead, UserIsRead DEF LhmConfigInv, LaunchedServes
<1>. QED BY <1>1, LhmConfigInvHolds, PTL

LhmConfigBounds ==
    /\ beside.state \in {"missing", "whole", "torn"} /\ port \in Ports \cup {0}
    /\ patches \in 0..MaxPatches /\ failures \in 0..MaxFailures

LhmConfigFlags ==
    /\ patching \in {"none", "exe", "exe_rename", "user", "user_rename"}
    /\ {launched, overwritten} \subseteq BOOLEAN

LEMMA LhmConfigBoundsStep ==
    ASSUME LhmConfigBounds, [LhmConfigNext]_lhmConfigVars
    PROVE  LhmConfigBounds'
<1>1. NoFile.state = "missing" /\ TornFile.state = "torn" /\ \A l : Holding(l).state = "whole"
  BY DEF NoFile, TornFile, Holding
<1>2. ASSUME LhmConfigNext PROVE beside'.state \in {"missing", "whole", "torn"}
  BY <1>1, <1>2
     DEF LhmConfigBounds, LhmConfigNext, StartsPatch, PatchExe, PatchUser, WritesBeside, RenameExe,
         RenameUser, Renames, SidebarDies, LhmSaves
<1>3. ASSUME LhmConfigNext PROVE port' \in Ports \cup {0}
  BY <1>3
     DEF LhmConfigBounds, LhmConfigNext, StartsPatch, PatchExe, PatchUser, WritesBeside, RenameExe,
         RenameUser, Renames, SidebarDies, LhmSaves
<1>4. ASSUME LhmConfigNext PROVE patches' \in 0..MaxPatches
  BY <1>4, LhmConfigAssumption
     DEF LhmConfigBounds, LhmConfigNext, StartsPatch, PatchExe, PatchUser, WritesBeside, RenameExe,
         RenameUser, Renames, SidebarDies, LhmSaves
<1>5. ASSUME LhmConfigNext PROVE failures' \in 0..MaxFailures
  BY <1>5, LhmConfigAssumption
     DEF LhmConfigBounds, LhmConfigNext, StartsPatch, PatchExe, PatchUser, WritesBeside, RenameExe,
         RenameUser, Renames, SidebarDies, LhmSaves, Fails, Works
<1>6. CASE UNCHANGED lhmConfigVars
  BY <1>6 DEF lhmConfigVars, LhmConfigBounds
<1>. QED BY <1>2, <1>3, <1>4, <1>5, <1>6 DEF LhmConfigBounds

LEMMA LhmConfigFlagsStep ==
    ASSUME LhmConfigFlags, [LhmConfigNext]_lhmConfigVars
    PROVE  LhmConfigFlags'
<1>1. ASSUME LhmConfigNext
      PROVE  patching' \in {"none", "exe", "exe_rename", "user", "user_rename"}
  BY <1>1
     DEF LhmConfigFlags, LhmConfigNext, StartsPatch, PatchExe, PatchUser, WritesBeside, RenameExe,
         RenameUser, Renames, SidebarDies, LhmSaves
<1>2. ASSUME LhmConfigNext PROVE {launched', overwritten'} \subseteq BOOLEAN
  BY <1>2
     DEF LhmConfigFlags, LhmConfigNext, StartsPatch, PatchExe, PatchUser, WritesBeside, RenameExe,
         RenameUser, Renames, SidebarDies, LhmSaves
<1>3. CASE UNCHANGED lhmConfigVars
  BY <1>3 DEF lhmConfigVars, LhmConfigFlags
<1>. QED BY <1>1, <1>2, <1>3 DEF LhmConfigFlags

LEMMA LhmConfigTypeHolds == DesktopSpec => []LhmConfigTypeOK
<1>1. LhmConfigInit => LhmConfigBounds /\ LhmConfigFlags
  <2>1. NoFile.state = "missing"
    BY DEF NoFile
  <2>2. LhmConfigInit => LhmConfigBounds
    BY <2>1, LhmConfigAssumption DEF LhmConfigInit, LhmConfigBounds
  <2>3. LhmConfigInit => LhmConfigFlags
    BY DEF LhmConfigInit, LhmConfigFlags
  <2>. QED BY <2>2, <2>3
<1>2. LhmConfigBounds /\ [LhmConfigNext]_lhmConfigVars => LhmConfigBounds'
  BY LhmConfigBoundsStep
<1>3. LhmConfigFlags /\ [LhmConfigNext]_lhmConfigVars => LhmConfigFlags'
  BY LhmConfigFlagsStep
<1>4. LhmConfigInv /\ LhmConfigBounds /\ LhmConfigFlags => LhmConfigTypeOK
  BY DEF LhmConfigInv, LhmConfigBounds, LhmConfigFlags, LhmConfigTypeOK
<1>. QED BY <1>1, <1>2, <1>3, <1>4, LhmConfigInvHolds, BehaviourOfEach, PTL
-----------------------------------------------------------------------------
(* All of them                                                             *)

(***************************************************************************)
(* The documents, records and files of every component have the shape that *)
(* their readers in the code rely on, and no file that another program     *)
(* reads is torn.                                                          *)
(***************************************************************************)
THEOREM DesktopTypeHolds == DesktopSpec => []DesktopTypeOK
  BY SensorsTypeHolds, SettingsTypeHolds, MetricListTypeHolds, AlertsTypeHolds, HistoryTypeHolds,
     HotkeysTypeHolds, LhmConfigTypeHolds, PTL DEF DesktopTypeOK
==============================================================================
