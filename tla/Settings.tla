------------------------------ MODULE Settings ------------------------------
(***************************************************************************)
(* The settings of the sidebar: config.toml, the copy that the GUI edits   *)
(* (SidebarApp in sidebar-app/src/gui/mod.rs), the first-run wizard, the   *)
(* settings panel, the hotkeys, and the monitor that the window is docked  *)
(* on.                                                                     *)
(*                                                                         *)
(* The GUI is one thread, so a frame is one step, except that it waits     *)
(* while a save writes config.toml.tmp and renames it over config.toml:    *)
(* the process may end, or another program may write the file, between     *)
(* these two.  The many settings without a rule of their own are           *)
(* represented by poll, the one that is clamped; run is the setting that   *)
(* also has a value in the registry.                                       *)
(***************************************************************************)
EXTENDS Naturals, Sequences, SequencesExt

CONSTANTS
    Displays,       \* the monitors, in the order Windows lists them
    Panel,          \* poll intervals the panel's slider is moved to
    Typed,          \* poll intervals a user types into the file
    MaxChanges,     \* bound: inputs of the user and of Windows
    MaxFaults,      \* bound: failed calls, and ends of the process
    MaxLaunches     \* bound: starts of the program

ASSUME SettingsAssumption ==
    /\ Displays \in Seq(ToSet(Displays)) /\ Displays # <<>> /\ "primary" \notin ToSet(Displays)
    /\ Panel \subseteq 1..60 /\ Typed \subseteq Nat
    /\ MaxChanges \in Nat /\ MaxFaults \in Nat /\ MaxLaunches \in Nat

VARIABLES
    app,            \* "closed", "wizard", "saved" (restart asked for) or "sidebar"
    config,         \* the copy in memory
    persisted,      \* last_persisted_config
    saving,         \* what the save under way does next, and what follows it
    panel,          \* is the settings panel open?
    dragging,       \* has the grip an anchor?
    disk, spare,    \* config.toml and config.toml.tmp
    backup,         \* is there a copy of an unreadable config.toml?
    runKey,         \* is the program in the Run key of the registry?
    screens,        \* the connected monitors
    notice,         \* a display message of Windows that is not yet taken
    bound, docked,  \* the monitor last bound to; the one the window is on
    excused,        \* may memory and file differ? (a save failed, ...)
    misread,        \* did this launch not get the settings of the file?
    edits,          \* how often another program has written the file
    changes, faults, launches

settingsVars == <<app, config, persisted, saving, panel, dragging, disk, spare, backup,
                  runKey, screens, notice, bound, docked, excused, misread, edits,
                  changes, faults, launches>>

gui == <<app, panel, dragging>>
files == <<disk, spare, backup, runKey, edits>>
windows == <<screens, notice, bound, docked>>
counts == <<changes, faults, launches>>

Edges == {"Left", "Right", "Top", "Bottom"}

Config ==
    [complete : BOOLEAN, edge : Edges, monitor : {"primary"} \cup ToSet(Displays),
     hidden : BOOLEAN, offset : 0..1, poll : Nat, run : BOOLEAN, tier : {"basic", "full"}]

Default ==
    [complete |-> FALSE, edge |-> "Right", monitor |-> "primary", hidden |-> FALSE,
     offset |-> 0, poll |-> 10, run |-> FALSE, tier |-> "basic"]

clamp_values(c) ==
    [c EXCEPT !.poll = CASE c.poll < 1 -> 1 [] c.poll > 60 -> 60 [] OTHER -> c.poll]

\* A file that is there parses, or it does not.
File == [state : {"missing", "torn", "whole"}, config : Config]
Missing == [state |-> "missing", config |-> Default]
Torn == [state |-> "torn", config |-> Default]
Whole(c) == [state |-> "whole", config |-> c]

Idle == [step |-> "none", after |-> "none"]
Save(after) == [step |-> "write", after |-> after]

Faulty(n) == faults + n <= MaxFaults /\ faults' = faults + n

\* An input of the user or of Windows.
Input == changes < MaxChanges /\ changes' = changes + 1

-----------------------------------------------------------------------------
(* Monitors.                                                               *)

\* Where the connected monitors stand in the list.
enumerate == {i \in DOMAIN Displays : Displays[i] \in screens}

\* The configured monitor if it is connected, else the primary one, which is
\* the first that is connected.
resolve_target(monitor) ==
    IF monitor \in screens THEN monitor ELSE Displays[Min(enumerate)]

monitor_id_is_real_fallback(monitor, target) == monitor # "primary" /\ monitor # target

\* redock_now, for a change of the settings to c
Redocked(c) == IF screens = {} THEN docked ELSE resolve_target(c.monitor)

-----------------------------------------------------------------------------
(* A launch: load_config_with_recovery, main, run and configure_platform.  *)

\* What a file gives: defaults in place of one that is missing or torn.
Settled(file) == IF file.state = "whole" THEN clamp_values(file.config) ELSE Default

Loaded(file) == [Settled(file) EXCEPT !.tier = "basic"]

Opened(c) ==
    LET target == resolve_target(c.monitor)
        fallback == screens # {} /\ monitor_id_is_real_fallback(c.monitor, target)
    IN  /\ app' = IF c.complete THEN "sidebar" ELSE "wizard"
        /\ persisted' = c
        /\ config' = IF fallback THEN [c EXCEPT !.monitor = target] ELSE c
        /\ saving' = IF fallback THEN Save("event") ELSE Idle
        /\ bound' = IF screens = {} THEN "none" ELSE target
        /\ docked' = bound'

Launch ==
    /\ app = "closed"
    /\ launches < MaxLaunches /\ launches' = launches + 1
    /\ \E seen \in {disk, Missing} :
        /\ Faulty(IF seen = disk THEN 0 ELSE 1)
        /\ Opened(Loaded(seen))
        /\ backup' \in {backup, backup \/ seen.state = "torn"}
        /\ excused' = (seen.state # "whole")
        /\ misread' = (seen.state # "whole")
    /\ panel' = FALSE /\ dragging' = FALSE /\ notice' = FALSE
    /\ UNCHANGED <<disk, spare, runKey, screens, edits, changes>>

-----------------------------------------------------------------------------
(* try_persist_config, and what its caller does with the result.           *)

Ends(ok) ==
    /\ saving' = Idle
    /\ excused' = ~ok
    /\ persisted' = IF saving.after = "panel" THEN config ELSE persisted
    /\ config' = IF saving.after = "finish" /\ ~ok
                 THEN [config EXCEPT !.complete = FALSE] ELSE config
    /\ app' = CASE saving.after = "finish" /\ ok -> "saved"
                [] saving.after = "exit" -> "closed"
                [] OTHER -> app

WriteSpare ==
    /\ saving.step = "write"
    /\ UNCHANGED <<disk, backup, runKey, edits>>
    /\ \/ /\ Faulty(0)
          /\ spare' = Whole(config)
          /\ saving' = [saving EXCEPT !.step = "rename"]
          /\ UNCHANGED <<app, config, persisted, excused>>
       \/ /\ Faulty(1)
          /\ spare' \in {spare, Torn}
          /\ Ends(FALSE)

RenameSpare ==
    /\ saving.step = "rename"
    /\ UNCHANGED <<backup, runKey, edits>>
    /\ \/ /\ Faulty(0)
          /\ disk' = spare /\ spare' = Missing
          /\ Ends(TRUE)
       \/ /\ Faulty(1)
          /\ spare' \in {spare, Missing} /\ UNCHANGED disk
          /\ Ends(FALSE)

atomic_write_config ==
    /\ WriteSpare \/ RenameSpare
    /\ UNCHANGED <<panel, dragging, windows, misread, changes, launches>>

-----------------------------------------------------------------------------
(* ui: the wizard.                                                         *)

InFrame == app # "closed" /\ saving = Idle

\* A window that is hidden draws nothing (pause_when_hidden is on by default).
Drawn == InFrame /\ ~config.hidden

render_wizard ==
    /\ Drawn /\ app = "wizard" /\ Input
    /\ \/ \E edge \in Edges \ {config.edge} :
            config' = [config EXCEPT !.edge = edge] /\ saving' = Idle
       \/ \E monitor \in screens \ {config.monitor} :
            config' = [config EXCEPT !.monitor = monitor] /\ saving' = Idle
       \/ config' = [config EXCEPT !.complete = TRUE] /\ saving' = Save("finish")
       \/ config' = [Default EXCEPT !.complete = TRUE] /\ saving' = Save("finish")
    /\ UNCHANGED <<gui, persisted, files, windows, excused, misread, faults, launches>>

-----------------------------------------------------------------------------
(* ui: a frame of the sidebar.  Whatever its widgets do to the settings is *)
(* saved afterwards, if the panel is then open and there is a difference.  *)

position_changed(a, b) == a.edge # b.edge \/ a.monitor # b.monitor

FrameSaves(c, open) == saving' = IF open /\ c # persisted THEN Save("panel") ELSE Idle

SidebarFrame(c, open) ==
    /\ Drawn /\ app = "sidebar" /\ Input
    /\ config' = c /\ panel' = open
    /\ FrameSaves(c, open)
    /\ docked' = IF position_changed(c, config) \/ c.offset # config.offset
                 THEN Redocked(c) ELSE docked
    /\ excused' = (excused \/ (open /\ c # config /\ c = persisted))
    /\ UNCHANGED <<app, persisted, disk, spare, backup, edits, screens, notice, bound,
                   misread, launches>>

\* The gear; the button of an alert opens the panel in the same way.
ToggleGear == SidebarFrame(config, ~panel) /\ UNCHANGED <<dragging, runKey, faults>>

\* The entry at which the list of monitors stands before a click.
InitialEntry(c) == IF c.monitor \in screens THEN c.monitor ELSE Displays[Min(enumerate)]

\* The list of the panel: a click on another entry than the one it stands at.
PicksMonitor(c) == {[c EXCEPT !.monitor = m] : m \in screens \ {InitialEntry(c)}}

PanelEdits(c) ==
    {[c EXCEPT !.edge = edge] : edge \in Edges \ {c.edge}}
    \cup {[c EXCEPT !.poll = poll] : poll \in Panel}
    \cup (IF screens = {} THEN {} ELSE PicksMonitor(c))

EditInPanel ==
    /\ panel
    /\ \E c \in PanelEdits(config) : SidebarFrame(c, TRUE)
    /\ UNCHANGED <<dragging, runKey, faults>>

\* startup::set_enabled: setting the value fails; a failure to delete it is
\* taken for a value that is not there.
set_enabled(on) ==
    \/ Faulty(0) /\ runKey' = on /\ SidebarFrame([config EXCEPT !.run = on], TRUE)
    \/ Faulty(1) /\ UNCHANGED runKey
       /\ SidebarFrame(IF on THEN config ELSE [config EXCEPT !.run = on], TRUE)

EditRunAtStartup == panel /\ set_enabled(~config.run) /\ UNCHANGED dragging

handle_grip_drag ==
    /\ \/ dragging' = TRUE
          /\ \E offset \in 0..1 : SidebarFrame([config EXCEPT !.offset = offset], panel)
       \/ dragging /\ dragging' = FALSE /\ SidebarFrame(config, panel)
    /\ UNCHANGED <<runKey, faults>>

-----------------------------------------------------------------------------
(* logic: hotkeys, tier events and the messages of Windows.                *)

\* The handler of an event that changes the settings to c and saves them.
EventSaves(c) ==
    /\ InFrame
    /\ config' = c /\ saving' = Save("event")
    /\ UNCHANGED <<gui, persisted, files, excused, misread, faults, launches>>

HotkeyVisibility ==
    /\ Input
    /\ \E hidden \in BOOLEAN : EventSaves([config EXCEPT !.hidden = hidden])
    /\ UNCHANGED windows

NextEdge == [Left |-> "Right", Right |-> "Top", Top |-> "Bottom", Bottom |-> "Left"]

\* The handler without its save.
CycleEdgeInMemory ==
    LET c == [config EXCEPT !.edge = NextEdge[config.edge]]
    IN  /\ InFrame /\ Input
        /\ config' = c /\ docked' = Redocked(c)
        /\ UNCHANGED <<gui, persisted, saving, files, screens, notice, bound, excused,
                       misread, faults, launches>>

HotkeyCycleEdge ==
    LET c == [config EXCEPT !.edge = NextEdge[config.edge]]
    IN  /\ Input
        /\ EventSaves(c)
        /\ docked' = Redocked(c)
        /\ UNCHANGED <<screens, notice, bound>>

\* The monitor after the configured one; the first if that is the last, or not
\* connected.
NextScreen ==
    LET later == {i \in enumerate : \E at \in enumerate : Displays[at] = config.monitor /\ at < i}
    IN  Displays[Min(IF later = {} THEN enumerate ELSE later)]

HotkeyCycleScreen ==
    /\ screens # {} /\ Input
    /\ LET c == [config EXCEPT !.monitor = NextScreen]
       IN  EventSaves(c) /\ docked' = Redocked(c)
    /\ UNCHANGED <<screens, notice, bound>>

\* A reload that falls back to the defaults.
ReloadOrDefaults ==
    /\ InFrame /\ Input
    /\ \/ /\ Faulty(0)
          /\ config' = Settled(disk)
       \/ /\ Faulty(1)
          /\ config' = Default
    /\ excused' = FALSE
    /\ docked' = Redocked(config')
    /\ UNCHANGED <<gui, persisted, saving, files, screens, notice, bound, misread, launches>>

\* reload_config_from_disk: a file that cannot be read or parsed changes nothing.
HotkeyReload ==
    /\ InFrame /\ Input
    /\ \/ /\ disk.state = "whole"
          /\ config' = clamp_values(disk.config)
          /\ excused' = FALSE /\ faults' = faults
       \/ /\ Faulty(IF disk.state = "whole" THEN 1 ELSE 0)
          /\ UNCHANGED <<config, excused>>
    /\ docked' = Redocked(config')
    /\ UNCHANGED <<gui, persisted, saving, files, screens, notice, bound, misread, launches>>

TierChanged ==
    /\ Input
    /\ \E tier \in {"basic", "full"} : EventSaves([config EXCEPT !.tier = tier])
    /\ UNCHANGED windows

\* refresh_monitor, when PeekMessageW returns a display message; the event it
\* sends is drained, and the settings are saved, in the same frame.
RefreshMonitor ==
    LET target == resolve_target(config.monitor)
        changed == screens # {} /\ bound # target
    IN  /\ InFrame /\ notice /\ notice' = FALSE
        /\ config' = IF changed /\ monitor_id_is_real_fallback(config.monitor, target)
                     THEN [config EXCEPT !.monitor = target] ELSE config
        /\ bound' = IF changed THEN target ELSE bound
        /\ docked' = IF changed THEN target ELSE docked
        /\ saving' = IF changed THEN Save("event") ELSE Idle
        /\ UNCHANGED <<gui, persisted, files, screens, excused, misread, counts>>

-----------------------------------------------------------------------------
(* The end of the process.                                                 *)

\* on_exit: closing the wizard accepts the defaults.
Exit ==
    /\ InFrame
    /\ IF app = "wizard"
       THEN /\ config' = [Default EXCEPT !.complete = TRUE]
            /\ saving' = Save("exit") /\ UNCHANGED app
       ELSE app' = "closed" /\ UNCHANGED <<config, saving>>
    /\ UNCHANGED <<persisted, panel, dragging, files, windows, excused, misread, counts>>

\* The process is killed, at any point of a save.
Crash ==
    /\ app # "closed" /\ Faulty(1)
    /\ app' = "closed" /\ saving' = Idle
    /\ spare' \in IF saving.step = "write" THEN {spare, Torn, Whole(config)} ELSE {spare}
    /\ UNCHANGED <<config, persisted, panel, dragging, disk, backup, runKey, edits,
                   windows, excused, misread, changes, launches>>

-----------------------------------------------------------------------------
(* The rest of the world.                                                  *)

\* Monitors come and go, or change their scaling; the window then stands where
\* it was, which is on none of them any more.
SwitchScreens ==
    /\ Input
    /\ screens' \in SUBSET ToSet(Displays)
    /\ docked' = IF docked \in screens' /\ screens' # screens THEN docked ELSE "none"
    /\ notice' = (app # "closed")
    /\ UNCHANGED <<gui, config, persisted, saving, files, bound, excused, misread, faults,
                   launches>>

\* The user edits the file, well or badly.
HandEdit ==
    /\ Input /\ edits' = edits + 1
    /\ disk.state = "whole" /\ disk.config.complete
    /\ disk' \in {Torn} \cup {Whole([disk.config EXCEPT !.poll = poll]) : poll \in Typed}
    /\ excused' = TRUE
    /\ UNCHANGED <<gui, config, persisted, saving, spare, backup, runKey, windows, misread,
                   faults, launches>>

SettingsInit ==
    /\ app = "closed" /\ config = Default /\ persisted = Default /\ saving = Idle
    /\ panel = FALSE /\ dragging = FALSE
    /\ disk \in {Missing, Whole([Default EXCEPT !.complete = TRUE])}
    /\ spare = Missing /\ backup = FALSE /\ runKey = FALSE
    /\ screens = ToSet(Displays) /\ notice = FALSE /\ bound = "none" /\ docked = "none"
    /\ excused = FALSE /\ misread = FALSE /\ edits = 0
    /\ changes = 0 /\ faults = 0 /\ launches = 0

SettingsNext ==
    \/ Launch \/ atomic_write_config \/ render_wizard
    \/ ToggleGear \/ EditInPanel \/ EditRunAtStartup \/ handle_grip_drag
    \/ HotkeyVisibility \/ HotkeyCycleEdge \/ HotkeyCycleScreen \/ HotkeyReload
    \/ TierChanged \/ RefreshMonitor \/ Exit \/ Crash \/ SwitchScreens \/ HandEdit

SettingsSpec == SettingsInit /\ [][SettingsNext]_settingsVars

-----------------------------------------------------------------------------
(* What must hold.                                                         *)

\* Types; in particular the interval in memory is one the poller accepts,
\* whatever is typed into the file.
SettingsTypeOK ==
    /\ app \in {"closed", "wizard", "saved", "sidebar"}
    /\ config \in Config /\ persisted \in Config /\ config.poll \in 1..60
    /\ saving \in [step : {"none", "write", "rename"},
                   after : {"none", "event", "panel", "finish", "exit"}]
    /\ {panel, dragging, backup, runKey, notice, excused, misread} \subseteq BOOLEAN
    /\ disk \in File /\ spare \in File
    /\ screens \subseteq ToSet(Displays)
    /\ bound \in {"none"} \cup ToSet(Displays) /\ docked \in {"none"} \cup ToSet(Displays)
    /\ edits \in 0..MaxChanges
    /\ changes \in 0..MaxChanges /\ faults \in 0..MaxFaults /\ launches \in 0..MaxLaunches

\* The program changes config.toml only by putting the whole of the settings in
\* memory in its place, however a save fails and wherever the process ends
\* (gui/mod.rs: a crash mid-write must not truncate config.toml).
OnlyWholeSaves == [][edits' = edits => disk' \in {disk, Whole(config)}]_settingsVars

\* The offset of the drag and the tier are left out: see DragIsPersisted.
SameSettings(a, b) == [a EXCEPT !.offset = b.offset, !.tier = b.tier] = b

\* Between saves the file holds the settings in memory, unless a save failed,
\* the launch got none, the user wrote the file, or a frame of the panel went
\* back to the settings of its last save (see PanelChangeIsSaved).
MemoryReachesDisk ==
    app = "sidebar" /\ saving = Idle /\ ~excused =>
        disk.state = "whole" /\ SameSettings(clamp_values(disk.config), config)

\* Once set up, always set up: no step makes the wizard come back, unless this
\* launch could not read the file.
SetupIsKept ==
    [][disk.state = "whole" /\ disk.config.complete /\ ~misread /\ disk'.state = "whole" =>
        disk'.config.complete]_settingsVars

\* "primary" follows the primary display: only a choice of the user replaces it,
\* never a monitor that goes (settings_panel.rs: the primary sentinel).
PrimaryIsDynamic ==
    [][app # "closed" /\ config.monitor = "primary" /\ config'.monitor # "primary" =>
        app = "wizard" \/ panel \/ changes' # changes]_settingsVars

\* handle_grip_drag: the new offset is persisted on drag end.
DragIsPersisted ==
    app = "sidebar" /\ saving = Idle /\ ~excused /\ ~dragging =>
        disk.config.offset = config.offset

\* poll: a display message re-docks the window.
RefreshRedocks ==
    [][notice /\ ~notice' /\ app' = "sidebar" /\ screens # {} =>
        docked' = resolve_target(config'.monitor)]_settingsVars

\* ui: with the panel open, settings that changed since the last persist are
\* persisted.  The saves of events do not count as persists.
PanelChangeIsSaved ==
    [][panel /\ panel' /\ config' # config /\ saving = Idle /\ saving' = Idle =>
        disk.state # "whole" \/ SameSettings(clamp_values(disk.config), config')]_settingsVars

\* SidebarApp: last_persisted_config is the last config persisted to disk.
LastPersistedIsOnDisk ==
    [][saving.after = "panel" /\ saving' = Idle /\ app' # "closed" =>
        disk' = Whole(persisted')]_settingsVars

\* settings_panel: when the registry call fails, the checkbox is reverted.
FailedKeyRevertsTheBox ==
    [][faults' # faults /\ app = "sidebar" /\ app' = "sidebar" =>
        config'.run = config.run]_settingsVars
=============================================================================
