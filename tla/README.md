# A verification development of win11-diagnostics

TLA+ models of the `sidebar` program, the TLC runs that check them and the
proofs TLAPS checks. Source paths are relative to the repository root; "the
map" is the table in `PROJECT.json` that ties every definition to its lines.

Commands, in this directory: `tlc -config MCFullMode.cfg MCFullMode`,
`tlapm LaunchProofs.tla`.

## 1. The system

`sidebar` is a Windows desktop program: an egui window docked to the edge of
the screen that shows sensor readings, network totals per billing cycle and
alerts. It runs in two tiers. In *Basic* it reads what an unprivileged process
can read; in *Full* it also reads LibreHardwareMonitor (LHM), an elevated
process it may have to start, over HTTP.

Threads and tasks of the process, and what passes between them:

| actor | state it keeps | operations | talks to |
|---|---|---|---|
| poller (tokio task, `poller.rs`) | provider registry of the current tier, poll interval | tick, tier change, shutdown | readings by broadcast to the GUI and the accountant; `UiEvent`s in |
| bandwidth accountant (own thread, `accountant.rs`) | cycle start and rule in force, per-adapter totals with their last counters, failed archives | ingest, debounce, rollover, flush, start, stop | readings in; SQLite; a watch channel to the GUI |
| event coalescer (task, `event_channel.rs`) | the `TierChanged` it holds back | receive, window elapses | raw broadcast in, coalesced broadcast out |
| launch probe (task, `tier_probe.rs`) | ports left to try | HTTP probe per port | `TierChanged(Full)` |
| supervisor thread (`main.rs`, `ohm_supervisor.rs`) | `sidebar_launched`, process and job handles, resolved port | launch, adopt, liveness, shutdown | launch requests in (mpsc); two atomics and a message to the GUI |
| GUI (main thread, `gui/mod.rs`) | tier, banners, child-exit latch, settings and the copy last saved, windows of readings, alert states, popup | one frame at a time | all of the above; the disk |
| hotkey thread (`gui/mod.rs`) | the combinations it has registered, its message queue | register, forward, unregister | Windows; the GUI by a channel, `WM_QUIT` back |
| sensor adapters (`sidebar-adapter-*`) | a backend behind a mutex, the last sample of a rate | `read_all`, on threads of the blocking pool | the poller |
| shutdown (`shutdown.rs`, `main.rs`) | cancellation token, phase | request, phases, bounded joins, watchdog | everybody |
| single instance (`single_instance.rs`) | a named mutex | claim, wait | another process |
| persistence (`migrate.rs`, `schema.rs`, `bandwidth_repo.rs`, `fs.rs`, `acks_store.rs`) | `bandwidth.db`, the config and the acknowledgements | migrate, quarantine, upsert, archive, prune, atomic write | the disk |
| LHM's files (`ohm_supervisor.rs`, `fs.rs`) | `LibreHardwareMonitor.exe.config` and LHM's own settings | patched before a launch, saved by LHM itself | the supervisor; LHM |

What is hard in it, and what correctness means, component by component:

- **Billing calendar** (pure): consecutive cycles must tile the calendar for
  every rule, through leap days and turns of the year.
- **Accountant and its tables**: a rollover is several SQLite calls and the
  process may die between any two; counters are cumulative and may reset;
  messages may be dropped; the clock may jump. No byte may be counted twice, a
  persisted total never falls, the cycle never advances over rows that are not
  archived, the history keeps the last cycle, a cycle that is over turns over.
- **Supervisor**: a launch is a series of HTTP and Win32 calls that fail one by
  one, with the child exiting or starting to listen at any moment. The child is
  always somebody's, there is only one, it is watched and it is torn down.
- **Event channel, GUI, poller, probe**: three senders of tier changes, a
  coalescer that drops, receivers that lag. All must agree on the tier in the
  end, the banner must fit it, and `Shutdown` must get through.
- **Poller**: blocking calls that hang keep a pool thread; a tick must end within
  one budget whatever the providers do; a registry is rebuilt under running
  calls; events share a biased `select!` with a ticker that may always be ready.
- **Shutdown**: three requesters race; the phases and joins have budgets that
  add up to more than the watchdog's; the last flush must get its share.
- **Single instance**: a waiting second instance must get the mutex when the
  first one exits.
- **Schema**: each statement of `init` commits by itself; a kill in between; a
  file of another version; quarantine of a file that another process has open.
- **Alerts and acknowledgements**: an alarm that is not acknowledged is shown,
  and one that is stays quiet as long as it was promised, also over a restart.
- **Configuration**: what was changed reaches the file, although saves fail and
  the file may be torn or edited by hand; a finished setup stays finished.
- **Metric history**: the windows follow the sensors that are there.
- **Metric list, hotkeys, sensor adapters, LHM's files**: small programs with an
  order of their own: rows move and none is lost, presses keep their order and
  the exit does not wait for a thread that nobody wakes, a rate has two samples,
  a launched LHM serves on the port that is probed.
- **Windows integration, rendering**: wrappers and layout; little control.

`PROJECT.json` lists the components with what is modelled of each, and the
hazards, each at its line with the properties that watch it.

## 2. The modules

    Billing ──┬──► BillingWalk ◄── MCBillingWalk
              │         └────────► BillingWalkProofs
              ├──► BillingProofs ──┘
              │         └──────────────────────┐
              ▼                                ▼
    BandwidthAccountant ──► BandwidthAccountantProofs
       ▲
    MCAccountant

    LhmSupervisor ──┐
       ▲            ├──► FullMode ◄── MCFullMode
       │            │        └──────► FullModeProofs
    MCSupervisor   EventChannel

    Poller ◄── MCPoller           TimedExit ◄── Shutdown
       └──► PollerProofs                           └──► ShutdownProofs

    SingleInstance ──┐
    Database ────────┴──► Launch ──► LaunchProofs

    Sensors  Settings ◄── MCSettings  MetricList  Alerts  History  Hotkeys  LhmConfig
       └────────┴─────────────────────────┴─────────┴────────┴───────┴─────────┘
                       ▼
       MCDesktop ──► Desktop (all seven) ──► DesktopProofs

Conventions. An action carries the name of the function or branch it models.
A definition headed *Mutant* is a plausible bug of the definition after it; no
specification uses it, and each checked property is shown to fail when one of
them takes the place of the code. A constant marked BOUND is a limit of the
model and not of the program. "What the documentation and the comments say"
heads the properties the code does not have (section 4).

### Billing, BillingWalk

`Billing` is `sidebar-domain/src/billing.rs`: dates as records,
`cycle_end`, `next_cycle_start`, `EndOfCycle`, `cycle_start_for_today` and the
accountant's `infer_cycle_start_day`, by recursive functions and no RECURSIVE
operator. `BillingWalk` walks the calendar day by day under a fixed rule, in
the way a calendar on the wall would say it, and compares.

### BandwidthAccountant

State in three groups: the *machine* (date, OS counters and the bytes really
moved, the broadcast channel with its lag flag); the *database*
(`current_cycle`, `current_cycle_metadata`, `bandwidth_history`); the *task's
memory*. `pc` says where in a handler the task is: a handler is a series of
SQLite calls, each a step of its own, so that `Crash` can come between any two,
and `CrashInFlush` between two UPSERTs.

| action | code |
|---|---|
| `Start` | `BandwidthAccountant::new`: the resumed start, the rule, rehydration |
| `Receive`, `ReceiveLagged` | the broadcast branch of `run`, then `check_rollover` |
| `DebounceTick`, `FlushAndPublish` | the debounce branch: rollover check, flush, view |
| `RolloverFlush`, `ArchiveSucceeds`, `ArchiveFails`, `PruneAndAdvance` | `check_rollover` call by call; `archive_cycle` is one transaction |
| `ExitRequested`, `LastFlush` | cancellation or closed channel |
| `Traffic`, `CounterReset`, `Poll`, `ClockMoves` | the world |

`mark`, `archived`, `stale` and `starts` are observers; no guard reads them but
the bound on starts. Left out: saturation of `u64` and the cast to `i64` (no
adapter moves 2^63 bytes in a cycle), the view's sparkline history and
`days_until_reset`, timestamps, names, and a program whose accountant was
disabled because the database could not be opened. `Poll` takes the counters
and publishes them in one step: the poller holds no other copy. The counter of
deferred archives saturates at the threshold, where nobody can tell.

### LhmSupervisor

The machine (who listens on each port, the child, whether it is in the job,
whether the process lives), `OhmSupervisor`'s fields, and the thread's steps
`poll`, `pick`, `runas`, `assign`, `wait`, `launched`, `alive`, `failed`,
`liveness`, `cancelled?`. Between two of them anything may move: the child
exits or begins to listen, other programs take or leave ports, the user clicks,
the process ends. Each HTTP probe answers what the port's listener gives, or
times out. The child's handles are taken and closed together with
`sidebar_launched`, which stands for them. `launch_elevated`'s own re-entry
guard is left out: the thread's guard comes first, and the two are the same
test. `StoreAlive` also clears the message, which no property tells apart.

### EventChannel

Two broadcast channels of `CHANNEL_CAPACITY` with the coalescer between them.
There is no clock; the window may elapse at any time, which allows every order
the real one does. It has no behaviour of its own: `FullMode` sends and
receives. The closed-channel branch is left out, the senders live as long as
the process.

### FullMode

Composes the two with the launch probe, the poller's event branch, the GUI and the
shutdown signal. `Frame` is one call of `SidebarApp::logic` (and `ui` for the launch
message) in the order of the code: readings judged by the tier of the frame before,
liveness, events, latch and banner. `PlatformEvent` is what `platform.poll` finds at
the start of a frame; each is sent in a step of its own, the close hotkey's
`Shutdown` too, which cancels nothing. A request to shut down is two steps, the
cancellation (`RequestShutdown`) and the event (`SendsShutdown`); it comes from
`on_exit`, whoever closed the window, or from Ctrl-C. `Hooks` names the hooks that
survive `run`'s reconstruction of the app inside eframe. Left out: the wizard (it has
no supervisor), the pill's cooldown, readings and ticks of the poller, AppBar calls,
and the tier remembered over restarts.

### Poller

The `select!` loop of `poller.rs`: a tick spawns one call per provider of the
registry on the blocking pool and awaits them in order, each until a deadline
counted from the tick's start; between ticks events are received and a
`TierChanged` rebuilds the registry. A call waits for a thread, runs, answers,
panics or hangs; `TimesOut` aborts its handle, and a call that runs keeps its
thread (`abandoned`). `select!` is biased: cancellation, then ticker, then
events, which are the guards of the three branches. One unit of time is 100 ms,
and time does not pass while the task has something to do. Left out: what the
readings say, and the senders' side of the event channel (`EventChannel`).

### Shutdown, TimedExit

`Shutdown` is `shutdown.rs` and `run_graceful_shutdown`: the `emitted` flag that
only one of three requesters finds unset, the phases, the joins with their
budgets and the watchdog; one unit of time is 50 ms, from the return of eframe.
The workers end when they like once they are cancelled. `TimedExit` is what the
end of a process promises: it is gone within `Budget`. `Shutdown` implements it
with the clock as the clock (`ExitsInTime`), and `Launch` relies on it where the
wizard's process ends.

### SingleInstance, Database, Launch

`SingleInstance` has the named mutex as the set of processes that hold a handle
of it, and the attempts of `claim_or_exit`. `Database` has the file (version,
tables, rows, corrupt or not), the files put aside, and how far each client is
in `init`, whose statements commit one by one. `migrate`, which no part of the
program calls, appears as what it would make of the file (`NothingToMigrate`).
`Launch` composes them: the wizard's process, the child it starts with
`--wait-for-instance`, and processes of a double-click, each of which may be
killed at any moment. One unit of time is the child's pause between two
attempts. Two quarantines within one second, which share a name, are not
followed, nor are the `-wal` and `-shm` files beside the database: the code
renames the main file only, and SQLite decides what becomes of the others. Rows
that were committed to the `-wal` file alone are therefore outside of
`RowsAreKept`.

### Settings

`config.toml`, the GUI's copy, the copy last saved from the panel, the wizard,
the Run key and the monitor the bar is docked on. A frame is one step, except
that a save writes `config.toml.tmp` and renames it in two, with the end of the
process or another program's write between them. The many fields without a rule
of their own are represented by `poll`, the one that is clamped.

### MetricList, Alerts, History

`MetricList` is the list in the panel with its drops, and the rows drawn for it.
`Alerts` follows one row, a temperature or a rate, from reading through
hysteresis to the state drawn, with *Acknowledge*, *Snooze* (time in seconds),
the sliders and `acks.toml` over a restart. `History` goes from the poller's
broadcast through a lagging receiver to the windows and the sparkline's vertices;
the number of a tick stands for the value.

### Hotkeys, Sensors, LhmConfig

`Hotkeys` is the hotkey thread with its message queue, the channel to the GUI, and
the GUI's end, which joins it without a limit: the last frame drains the channel
(`LastFrame`), a press that comes through later is dropped with it, and `on_exit`
posts `WM_QUIT` and waits. `Sensors` is one adapter's life: what each `read_all`
makes of devices that come, go and fail; a reading also carries the device it was
taken from, which the program does not know. `LhmConfig` has the two files patched
before a launch, as sequences of lines, with a failure or kill between any two calls
and LHM saving its own.

### Desktop

These seven share the process and nothing else. `Desktop` lets one of them run
per behaviour (`part`): the states to check are the sum of theirs and not the
product, and nothing said of one depends on the others.

## 3. The runs

Every bound is a constant of the `.cfg`. `CHECK_DEADLOCK FALSE` throughout,
because the systems may really stop: the user quits, the process ends, and the
bounds on bytes, starts and changes stop the rest; `BillingWalk` stops at its
last year.

| run | instance | shows |
|---|---|---|
| `calendar` | every day from 2023-01-15 to 2027, rules 1, 2, 15, 27, 28, last day | `CyclesTile`, `StartIsMostRecent`; a start gives back its rule (`InferRecoversRule`) |
| `accountant_writes` | one adapter, 3 bytes, 3 dates, two rules, 2 launches; saves, archives and prunes fail; 3.3M states | `NoPhantomBytes`, `NoAdvanceOverRows`, `PersistedNeverFalls` |
| `accountant_turns_over` | `FairSpec`, archives fail at will, the clock may skip a cycle | `ArchivesTheTail`, `TurnsOverOrTells`; if the store recovers, `CatchesUp` |
| `supervisor` | two ports, two waiting clicks, every fault, foreign and user programs, fair | `ChildIsOwned`, `OneChild`, `ChildIsWatched`, `ChildIsTornDown` |
| `full_mode` | one port, launches that time out, one hotkey, theme or monitor event, channels of two places, so that every receiver lags; 2.6M states | `StoppedMeansBasic`, `ShutdownIsUnderWay`; the supervisor inside behaves as `LhmSupervisor` specifies (`SupervisorSpec`) |
| `full_mode_live` | the probe running, an LHM of the user's, channels of four places, fair; 1.2M states | `TiersSettle`, `ChildDeathIsSeen` |
| `poller` | providers of all costs and tiers, a pool of 3, intervals 0.5 s and 1 s, an event channel of one place; 184,000 states | `TickEndsInBudget`, `EventsAreTaken`, `ReadsAgain` |
| `shutdown` | all requesters, 3.1 s, workers that end or not; 1.1M states | `FlushHasItsTime`, `ExitsInTime`, `RequestIsCarriedOut`, `ProcessEnds` |
| `launch` | 5 attempts in the 5 s, eframe returns at once or a pause later, 2 double-clicks, files of every version; 2.5M states | `OneInstance`, `GivesUpLast`, `VersionTellsSchema`, `RowsAreKept` |
| `desktop` | seven components, 311,000 states | `RatesHaveABase`; `MemoryReachesDisk`, `SetupIsKept`; `OthersKeepTheirOrder`; `AlarmsAreShown`, `QuietIsKept`; `WindowsFollowReadings`; `PressesKeepTheirOrder`, `ExitReturns`; `LaunchedServes`; the types of all (`DesktopTypeOK`) |
| `restart_takes_over`, `panel_change_saved` | small instances | section 4 |

Other properties the modules state hold on the same instances:
`MCDesktopMore.cfg` names those of the seven components (`NamesOneDevice`,
`KeysAreUnique`, `PanicIsNotSticky`, `OthersHaveAFormat`, `OnlyWholeSaves`,
`PrimaryIsDynamic`, `RowsFollowTheList`, `ListKeepsItsMetrics`, `PopupIsLive`,
`SparklineIsWhole`, `EventuallyFresh`, `FlagIsTheStyle`, `PressesAreHandled`,
`PatchKeepsTheRest`); `MaximumCycle`, `BannerClears` and `FullModeTypeOK` hold
under `MCBillingWalk.cfg`, `MCAccountantTurnsOver.cfg` and `MCFullMode.cfg`.
What section 5 proves and no run names was checked in the same way before.

Why these bounds are enough for the cases that matter:

- *Dates.* The middle of a cycle, its last day (when the code turns over), the
  middle of the next and a day the first start is more than 31 days before: one
  of each kind of date `Start` and `check_rollover` tell apart.
- *Bytes and launches.* Three bytes let a flush lie between two readings before
  and after a restart or a rollover, two launches give one restart; three where
  a restart follows a rollover under another rule.
- *Adapters.* The adapters meet only in the archive (all rows at once) and in
  partly failed flushes. The runs have one; `MCAccountantTail.cfg` has two
  (symmetric, 0.5M states, no run of the list) for `ArchivesTheTail` and the
  types. The proofs are for any number.
- *Channel.* One place makes a lag happen at the second message. The event
  channels have two or four places and not eight: with two the coalescer, the GUI
  and the poller all lag; with four only the poller can, and no event is lost to
  the GUI.
- *Events of the platform.* One is enough (`MaxPolled`): as a close hotkey it ends
  the coalescer before or after a request, as another it fills a place. The live
  run has none, for its time.
- *Ports.* Two tell the first from the last of the chain, and a configured port
  outside of it is a third.
- *Poller.* A pool of three can be filled by the calls abandoned in two ticks; an
  interval below, and one of, `MIN_POLL_INTERVAL` shows the clamp; an event
  channel of one place lags at the second event.
- *Shutdown.* All budgets are multiples of 50 ms, and the behaviours are followed
  beyond the watchdog's three seconds.
- *Launch.* Five pauses for 5 s keep the order of the three times that matter: the
  shutdown's limit, the child's patience, the return of eframe. The proofs are
  for any number.
- *Desktop.* Two displays, devices and windows' sensors of a kind, so that one can
  fail or leave while the other stays; three metrics, so that a row can move over
  a third; readings at, below and above each threshold and its hysteresis; a
  readings channel of two and a window of three, so that both overflow in four
  ticks; hotkeys of which two share a combination in two spellings; one failed
  call and one restart.

### Fairness

- Accountant: each step of a handler is weakly fair. `DebounceTick` is strongly
  fair: tokio's `select!` picks at random among ready branches and the timer is
  ready again every flush interval. `StoreRecovers` (an archive tried for ever
  succeeds at some time) is a premise of `CatchesUp` and `BannerClears` only.
- Supervisor: the thread's own steps and its teardown are weakly fair. The
  answer to the UAC prompt is not: nobody makes the user answer.
- Full mode: the supervisor thread's steps without its teardown, the coalescer's
  receives and its window, the poller's receives, and GUI frames (every frame
  sends viewport commands and asks for another one, so eframe repaints while the
  window is open). When the window is closed the process ends: `main` returns,
  or the watchdog exits.
- Poller: the task's steps, the pool's starts, and time. That calls return is a
  premise of `ReadsAgain` only (from some time on they do), and none of
  `EventsAreTaken`.
- Shutdown: the main thread, the winner of the request, the watchdog and the clock.
  The workers and the drop of the runtime are not fair: they may hang.
- Launch: fair only for `RestartTakesOver`: eframe returns after the click, the
  wizard's process ends, the clock ticks, the child makes its attempts.
- Desktop: GUI frames, the hotkey thread, and the GUI's steps with it.
- Nothing makes the wall clock move, a byte arrive or anybody click.

## 4. Where the code and what is said of it part

These runs must find their property violated; `PROJECT.json` quotes the lines.

| run | what happens |
|---|---|
| `restart_takes_over` | the child that waits keeps the handle of its first attempt, so the mutex outlives the wizard's process and the child exits after its 5 s |
| `panel_change_saved` | a setting changed by a hotkey and set back in the panel equals the copy last saved from the panel, and is not saved |

Others are stated in the modules, under "What the documentation and the comments
say", and TLC finds each violated. Where a `.cfg` is named it is kept; elsewhere
the property takes the place of those of the `.cfg` in brackets, with the
constants that follow it.

| property | instance | what happens |
|---|---|---|
| `LastDayBelongsToCycle` | `MCAccountantLastDay` | the cycle turns over at 00:00 of its last day; PRD 5.5 counts that day in it (`accountant.rs:437`) |
| `SkippedRowsAreArchived` | `MCAccountantSkipped` | rows of an older cycle skipped at start-up are overwritten, not archived (`accountant.rs:236`) |
| `RestartResumesCycle` | `MCAccountantRestart` | a rollover that changes the rule makes a cycle longer than the 31-day window of a restart (`accountant.rs:190`) |
| `RolloverSurvivesRestart` | (`MCAccountantSkipped`; `CycleAndItsLastDay`) | a restart on the day of the rollover goes back to the cycle just archived (`accountant.rs:160`) |
| `NoLossAcrossBoundary` | (`MCAccountantWrites`; `OverTheBoundary`, `FirstOfMonth`, `NoFaults`, 2 bytes, 1 start) | the bytes between the last reading of a cycle and the first of the next count in neither (`accountant.rs:493`) |
| `ArchivesTheTail` | (`MCAccountantWrites`; `CycleAndItsLastDay`, `FirstOfMonth`, `SaveFaults`, 2 bytes, 1 start) | a failed UPSERT before an archive that works loses the tail (`accountant.rs:452`) |
| `RestartsOnRequest` | `MCSupervisorRestarts` | a click after the child has exited, or a launch has timed out, is dropped |
| `NoOrphan` | `MCSupervisorOrphan` | a process that ends between `ShellExecuteExW` and the job assignment leaves the child (`ohm_supervisor.rs:421`) |
| `LaunchReachesFull` | `MCFullModeReaches` | nobody sends `TierChanged(Full)` after a launch that worked |
| `LaunchFailureIsShown` | `MCFullModeShown` | `run` drops the reader of launch messages |
| `NoFalseAlarm` | `MCFullModeAlarm` | a frame between the two flag stores takes a new child for dead (`main.rs:227`) |
| `NoSensorsMeansFull` | (`MCFullModeAlarm`; `UserPrograms`) | "Full mode is running but no sensors were found." stays beside a Basic pill (`gui/mod.rs:1594`) |
| `FullReadsTheMonitor` | (`MCFullModeAlarm`; `UserPrograms`, `LastPort` 2, `ConfigPort` 3) | the poller asks the configured port, whatever port the probe found (`main.rs:590`) |
| `LateAnswersAreDropped` | (`MCPoller`) | a provider that answers after its deadline, while an earlier one is awaited, is still read (`poller.rs:99-110`) |
| `WorkingSetIsRegistry` | (`MCPoller`) | a provider that hangs occupies one more thread at every tick (`poller.rs:23-25`) |
| `ChildIsTornDown` (of `Shutdown`) | (`MCShutdown`, `ShutdownSpec`) | the watchdog may end the process before the supervisor has torn its child down |
| `RuntimeDropIsBounded` | (`MCShutdown`, `ShutdownSpec`) | on the error path the watchdog is disarmed and the drop of the runtime waits for blocking calls (`shutdown.rs:190`) |
| `NeverDowngraded` | (`MCLaunch`) | a file of a later build gets this build's version (`migrate.rs:118-120`) |
| `OnlyCorruptIsPutAside` | (`MCLaunch`) | any failure of `init`, a full disk included, puts the database aside (`lib.rs:16-20`) |
| `EveryReadingHasAFormat` | (`MCDesktop`, `MaxReads` 3) | the disk rates have a unit the formatter does not know and are drawn as "--" (`pdh/src/lib.rs:132-142`, `metric_row.rs:41-43`) |
| `GpuIndexIsStable` | (`MCDesktop`, `MaxReads` 3) | a GPU that fails is left out and the ones behind it change their number (`nvml/src/lib.rs:162-165`) |
| `SensorIdNamesASensor` | (`MCDesktop`, `MaxReads` 3) | the index of an LHM identifier is dropped, so two sensors share a key (`ohm/src/lib.rs:294`) |
| `DragIsPersisted` | (`MCDesktop`) | the end of a drag saves before the offset is in the settings (`gui/mod.rs:1424`) |
| `RefreshRedocks` | (`MCDesktop`) | a refresh of the monitors does not dock the bar anew (`gui/mod.rs:1093-1103`) |
| `LastPersistedIsOnDisk` | (`MCDesktop`) | the copy last saved is another than the file's after saves outside the panel (`gui/mod.rs:441-443`) |
| `FailedKeyRevertsTheBox` | (`MCDesktop`) | a Run key that cannot be written leaves the box checked (`settings_panel.rs:545-548`) |
| `DropsAtTheEnd` | (`MCDesktop`) | a drop below the last row does nothing (`metric_list.rs:143-148`) |
| `EnabledIsShown` | (`MCDesktop`) | a checked metric that `order` does not name has no row (`metric_list.rs:18-22`) |
| `AckEndsAtRecovery`, `AckLastsUntilRecovery` | (`MCDesktop`) | an acknowledgement ends when its row is drawn with a recovered reading: it survives the recovery of a row that is not drawn, and a restart may end it early (`alert.rs:87-100`) |
| `BandwidthOnlyWarns` | (`MCDesktop`) | the rate's alert can be critical (`alert_indicator.rs:78-81`) |
| `TakesTheLatest` | (`MCDesktop`) | a frame that is told of a lag stops draining and draws an old batch (`gui/mod.rs:330-333`) |
| `PopupIsOfTheRow` | (`MCDesktop`) | the popup of a metric shows the first sensor of its kind, whatever row was clicked (`gui/mod.rs:2421`) |
| `VerticesFitPixels` | (`MCDesktop`) | the newest sample is kept beside every so manyth, one vertex more than pixels (`sparkline.rs:160-163`) |
| `LaunchAlwaysServes` | (`MCDesktop`) | a launch after a patch that failed, or LHM's own save, serves on no port or another (`ohm_supervisor.rs:410`, `1085`) |

The properties of section 3 are stated so that they are true beside these:
`NoAdvanceOverRows` excepts rows that were left behind at start-up (`stale`),
`ArchivesTheTail` is checked where UPSERTs work, `PersistedNeverFalls` where
the table can be read at start-up, `TiersSettle` and `ShutdownIsUnderWay`
except a channel that was full, `TiersSettle` also a coalescer that a `Shutdown`
has ended, `SetupIsKept` a start that could not read the file, `ProcessEnds` the
error path.

Seen while modelling, and in no property: the CPU's frequency is in MHz and its
unit says Hertz (`sidebar-adapter-sysinfo/src/backend.rs:150`); a file that
cannot be read for a moment brings the wizard, whose save then replaces good
settings (`main.rs:1044`), and a torn file is replaced without a backup by the
next save of a running program; `metrics.order` is empty by default and nothing
fills it; `graph.window` is read by nobody, the history keeps 60 values
(`config.rs:191`).

## 5. What is proved

Every safety property that a passing run checks is a theorem, and so is each
module's type invariant. All theorems hold for every value of the constants under
the named assumptions of the modules: dates are dates of the calendar and rules
are rules of the program, capacities are positive, `Nil` is not a record, faults
and programs are among those listed, monitors and ports are numbers or names as in
the code, bounds are natural numbers. No assumption speaks of behaviour. Eight
modules hold the proofs; each part begins with its inductive invariant, and TLC found
what the theorems state on the instances of section 3 first.

**Calendar** (`BillingProofs`, `BillingWalkProofs`). `NextCycleIsLater`: for every
rule and start, end and next start are dates and the next start is later. Case
analysis over months; years are any natural number. The walk's theorems compare
the closed forms with the calendar on the wall for all years: `StartIsMostRecentHolds`
(the start that is computed for today is the last day of the rule that was passed),
`CyclesTileHolds` (each day is in one cycle), `InferRecoversRuleHolds` (a start day
gives back its rule, but for the days a short month cannot tell apart) and
`MaximumCycleHolds`. What a walk adds to a day is one step, so the lemmas are about
a day and the next (`SuccOfPred`, `StartDayInMonth`).

**Accountant** (`BandwidthAccountantProofs`). `TypeOK` by one step per action, with
lemmas on `add_delta` (`DeltaBounds`, `AddDeltaGrows`), `ingest` and the flush. The
safety part first sorts the steps by their effect (`StepsByEffect`), then uses an
inductive invariant per question:

- `Handover`: between the archive's commit and the reset the table is empty.
  `NoAdvanceOverRows` alone is not inductive, because it says nothing of `pc =
  "prune"`, from where the cycle advances. Gives `AdvanceIsGated`.
- `RowsBehindTotals`: while the task runs, each row of the cycle is no more
  than the total in memory. Gives `TotalsNeverFall`, under the premise that
  `current_cycle` can be read at start-up: without it a start begins from zero
  and its first flush writes over the rows.
- `RowsAreTotals`: at `archive`, if UPSERTs work, rows equal totals. Gives
  `ArchiveTakesTheTail`.
- `AllCounted`: the readings under way are in order (counter and bytes moved
  rise together or the counter was reset), each total is covered by the bytes
  moved at the last reading it took, and so is each row. Gives
  `NothingCountedTwice`: it is about the whole path from the adapter through the
  channel to the history.
- `RolloverMovesForward` follows from the calendar, `HistoryKeepsLastCycle` from
  what `Newest` keeps of a sequence.

**Supervisor and full mode** (`FullModeProofs`). `Supervision` is inductive: the
job holds only a running child that `sidebar_launched` stands for; at the steps of
a launch before the assignment there is no such claim; and from the first store
after a launch on the GUI's flag is set. It gives `OwnedWhileUp`,
`NeverTwoChildren`, `EveryChildIsWatched` and the types of the supervisor.
`FullModeImplementsSupervisor`: every step of the composed system is a step of the
supervisor or leaves it alone, so what is proved of the supervisor holds in the
whole. `BannerFitsPill`: the invariant `BannerFits` adds to `StoppedMeansBasic` that
the channels hold events, because a frame's tier comes from the last tier event
among those it drains.

`AllSettle` and `ShutdownGetsThrough` need to know what is under way. `TiersSettle`
speaks of empty channels, while the coalescer runs; `Settling` says for any channels
which tier a subscriber comes to when it has seen all that was sent (the last one of
the raw channel, else the one held back in the window, else the last of its own
channel, else its own), and that, if no receiver has lost an event, this is the last
tier sent. The lemmas are about a queue and its last tier, when it is sent to,
received from, or drained (`HeadOrTail`, `SentLast`, `LastOfAFrame`).
`FullModeTypeCorrect` takes the types of the supervisor and the channels from above.

**Shutdown** (`ShutdownProofs`). `Orderly` is inductive: the types, one request
however many ask (`RequestedOnce`), at each stage a clock no further than the
budgets of the stages before it (`OnTheClock`), and a flush that is cut off only
after its time (`FlushIsGivenTime`). The clock at a stage is what makes
`FlushGetsItsTime` inductive. `ShutdownImplementsTimedExit` maps the initial
states and each step to `TimedExit`.

**Launch** (`LaunchProofs`). `LaunchInv` has a part per component: `Guarded` (who
has claimed holds a handle, and nobody else has claimed), `Prepared` (each
client's statement tells which tables are there, and the stamp comes last),
`Served` (only a process that runs has a connection) and `OnTime` (clock and
attempts go together). It gives `OnlyOneClaims`, `MutexIsFreed`,
`OnlyOneAccountant`, `StampIsLast`, `InitMigrates` and `NoRowIsLost`, and, if the
time eframe takes to return and the shutdown's limit are less than the child's
patience, `ChildOutwaits`: the child gives up only when the first process is gone.

**Poller** (`PollerProofs`). `Polling`: the types, and that what was awaited so
far began within the budget, which bounds a tick (`TickIsBounded`) and, with the
select's order, the time to a cancellation (`CancelIsSeen`); handles and registry
are of one tier during a tick (`OneRegistryPerTick`).

**Desktop** (`DesktopProofs`). A step of `Desktop` is one of a single component and
leaves the others alone (`StepOfEach`, `BehaviourOfEach`); each component has an
invariant of its own, and together they are `DesktopTypeHolds`.

- *Sensors*, `SensorsInv`: the disk counters are primed only by a collection, which
  the rates after it take as their base (`RatesHaveABaseHolds`); a reading is
  what its adapter's names and kinds say of it (`BatchIsTold`), and so is every
  name ever given, so that one names one device (`NamesOneDeviceHolds`, where the
  code has it: not for NVML and LHM) and keys within a batch differ
  (`KeysAreUniqueHolds`).
- *Alerts*, `AlertsInv`: the marks stay apart, an acknowledged temperature is
  remembered as the alert it was, and unless a save has failed the file has the
  ack or a snooze that is over. `AlarmsAreShownHolds` rests on `StateOfARow`, a
  case analysis of classification and hysteresis; `QuietIsKeptHolds` on
  `AckIsAsked`: what is quiet is what the user asked for, and the other way round.
- *Settings*, `SettingsInv`: what is about to be renamed over the file is the
  settings in memory (`SpareIsConfig`), which with the record of failed and
  foreign writes gives `MemoryReachesDiskHolds`; after the wizard the settings and
  the file are complete and a wizard that has read its file is one that is needed,
  which gives `SetupIsKeptHolds`. `OnlyWholeSavesHolds` is about the rename,
  `PrimaryIsDynamicHolds` about every step that may change the monitor.
- *History*, `HistoryInv`: a window ends with the samples since a batch that was
  without its sensor. `WindowsFollowReadings` names that batch by a maximum; the
  invariant has it as a witness, which the next batch keeps or replaces. With
  `WindowsEndInReadings` it also gives `PopupIsLiveHolds`.
- *Hotkeys*, `HotkeysInv`: the presses are, in order, those dispatched, those in the
  channel to the GUI and, until the thread has read `WM_QUIT`, the messages before
  it; and each message is what the press was when Windows posted it, because a
  combination is owned under the id of the first hotkey bound to it. Gives
  `PressesKeepTheirOrderHolds`. `FlagIsTheStyleHolds` has an invariant of its own.
- *List of metrics*, `MetricListInv`: order and enabled metrics are lists without a
  repetition. `OthersKeepTheirOrderHolds` and `ListKeepsItsMetricsHolds` rest on
  what taking out and putting in does to the places of a sequence (`RemovedAt`,
  `InsertedAt`, `MoveKeeps`).
- *LHM's files*, `LhmConfigInv`: the first file has at most one section and the second
  at most one entry for each of the two settings, behind the beginning of its
  section and before its end; what is beside a file, about to be renamed over it, is
  whole and serves the port. Gives `LaunchedServesHolds`: the patch of the
  first replaces the section, that of the second an entry or adds it, whatever an
  edit, LHM itself or an earlier launch that failed halfway left there.

Only model-checked:

- Every liveness property (`TurnsOverOrTells`, `CatchesUp`, `ChildIsTornDown`,
  `ChildDeathIsSeen`, `EventsAreTaken`, `ReadsAgain`, `RequestIsCarriedOut`,
  `ProcessEnds`, `ExitReturns`): fairness and ENABLED are beyond the prover.
- `RowsFollowTheList` and `PatchKeepsTheRest`, which say what a filter over a list
  makes of it; the library's filter is recursive, and what a recursive definition
  gives for every list is an induction over data.
- `SparklineIsWhole`, over the vertices of a curve, and the small ones of section 3
  that no theorem names.

## 6. Not modelled, and the plan

In this order:

1. `BandwidthLedger`, an abstract account (bytes moved, shown, archived) that
   `BandwidthAccountant` implements, with the refinement proved; and a clock that
   the user sets back (`ClockMayGoBack`).
2. The pill's cooldown and the AppBar's registration across Explorer restarts.

Not planned: rendering, number formatting and wording, the grammar of
thresholds, thin wrappers over Win32 calls (AppBar, DPI, DWM, themes), the
elevated Windows service and its C# sensor host, the build and its scripts. They
keep no state that any of the properties above depends on.
