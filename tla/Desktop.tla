------------------------------ MODULE Desktop -------------------------------
(***************************************************************************)
(* The components of the sidebar that share the process and nothing else:  *)
(* the sensor adapters, the settings, the list of metrics, the alerts, the *)
(* history, the hotkeys and the files of LibreHardwareMonitor.  A          *)
(* behaviour is one of a single component, of any, while the others stand  *)
(* still: what is checked of each does not depend on the rest, and the     *)
(* state space is the sum of theirs and not the product.                   *)
(***************************************************************************)
EXTENDS Sensors, Settings, MetricList, Alerts, History, Hotkeys, LhmConfig

VARIABLE part   \* the component that runs

desktopVars == <<part, sensorVars, settingsVars, metricVars, alertVars, historyVars,
                 hotkeyVars, lhmConfigVars>>

Part == {"sensors", "settings", "list", "alerts", "history", "hotkeys", "lhm"}

DesktopInit ==
    /\ part \in Part
    /\ SensorsInit /\ (part = "sensors" \/ adapter = "sysinfo")
    /\ SettingsInit /\ (part = "settings" \/ disk = Missing)
    /\ MetricListInit /\ (part = "list" \/ (order = <<>> /\ enabled = <<>>))
    /\ AlertsInit /\ (part = "alerts" \/ (row = "rate" /\ thresholds.mbps = 0))
    /\ HistoryInit
    /\ HotkeysInit /\ (part = "hotkeys" \/ (taken = {} /\ \A k \in Bindable : bindings[k] = <<>>))
    /\ LhmConfigInit /\ (part = "lhm" \/ (exeConfig = NoFile /\ userConfig = NoFile))

\* The component p runs and the others, whose variables are rest, do not.
Only(p, rest) == part = p /\ UNCHANGED <<part, rest>>

OnlySensors == Only("sensors", <<settingsVars, metricVars, alertVars, historyVars,
                                 hotkeyVars, lhmConfigVars>>)
OnlySettings == Only("settings", <<sensorVars, metricVars, alertVars, historyVars,
                                   hotkeyVars, lhmConfigVars>>)
OnlyMetricList == Only("list", <<sensorVars, settingsVars, alertVars, historyVars,
                                 hotkeyVars, lhmConfigVars>>)
OnlyAlerts == Only("alerts", <<sensorVars, settingsVars, metricVars, historyVars,
                               hotkeyVars, lhmConfigVars>>)
OnlyHistory == Only("history", <<sensorVars, settingsVars, metricVars, alertVars,
                                 hotkeyVars, lhmConfigVars>>)
OnlyHotkeys == Only("hotkeys", <<sensorVars, settingsVars, metricVars, alertVars,
                                 historyVars, lhmConfigVars>>)
OnlyLhmConfig == Only("lhm", <<sensorVars, settingsVars, metricVars, alertVars,
                               historyVars, hotkeyVars>>)

DesktopNext ==
    \/ OnlySensors /\ SensorsNext
    \/ OnlySettings /\ SettingsNext
    \/ OnlyMetricList /\ MetricListNext
    \/ OnlyAlerts /\ AlertsNext
    \/ OnlyHistory /\ HistoryNext
    \/ OnlyHotkeys /\ HotkeysNext
    \/ OnlyLhmConfig /\ LhmConfigNext

\* The frames go on for the history, and the two threads for the hotkeys; a
\* component that stands still owes nothing.
DesktopFairness ==
    /\ WF_desktopVars(OnlyHistory /\ (Frame \/ HiddenFrame))
    /\ WF_desktopVars(OnlyHotkeys /\ HotkeyThread)
    /\ WF_desktopVars(OnlyHotkeys /\ (configure_platform \/ Poll \/ LastFrame \/ PostsQuit \/ Joined))

DesktopSpec == DesktopInit /\ [][DesktopNext]_desktopVars /\ DesktopFairness

-----------------------------------------------------------------------------
\* The type invariants of all components, whose documents and records have the
\* shape that their readers in the code rely on.
DesktopTypeOK ==
    /\ SensorsTypeOK /\ SettingsTypeOK /\ MetricListTypeOK /\ AlertsTypeOK
    /\ HistoryTypeOK /\ HotkeysTypeOK /\ LhmConfigTypeOK
=============================================================================
