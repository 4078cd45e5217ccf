------------------------------ MODULE FullMode ------------------------------
(***************************************************************************)
(* How the program gets into Full mode and out of it: the supervisor       *)
(* thread with its child (module LhmSupervisor), the launch probe, the     *)
(* event channel (module EventChannel), the GUI and the poller.            *)
(*                                                                         *)
(*   crates/sidebar-app/src/gui/mod.rs       SidebarApp::logic, on_exit    *)
(*   crates/sidebar-app/src/tier_probe.rs    run_launch_probe              *)
(*   crates/sidebar-app/src/poller.rs        the event branch              *)
(*   crates/sidebar-app/src/shutdown.rs      ShutdownSignal                *)
(*   crates/sidebar-app/src/main.rs          the wiring                    *)
(*                                                                         *)
(* The launch probe starts with the program and looks for an LHM on every  *)
(* port of the chain.  The GUI starts in Basic mode; a TierChanged event   *)
(* changes its tier and the poller's, and a dead child the GUI's, which    *)
(* then sends the event itself.  One GUI frame is one step: no other       *)
(* thread sees its middle, and it reads each shared value once.            *)
(***************************************************************************)
EXTENDS LhmSupervisor, EventChannel, SequencesExt

CONSTANTS
    MaxPolled       \* bound: hotkey, theme and monitor events

ASSUME PolledAssumption == MaxPolled \in Nat
ASSUME SubscriberAssumption == Subscriber = {"gui", "poller"}

VARIABLES
    unprobed, found,    \* ports the launch probe has still to try; the one that answered
    poller_tier, polling,
    \* AppState and SidebarApp
    tier, child_exit_degraded,
    degraded_message,   \* the banner of logic(): "stopped", "no_sensors" or "none"
    shown_message,      \* the launch message ui() rendered last
    window,             \* is it open?
    polled,             \* the events that platform.poll has found
    announced,          \* has the request to shut down sent its event?
    \* observers
    dropped,            \* has any channel ever dropped an event?
    last_sent           \* the tier of the last TierChanged sent

probe == <<unprobed, found>>
poller == <<poller_tier, polling>>
gui == <<tier, child_exit_degraded, degraded_message, shown_message, window>>
closing == <<polled, announced>>
observers == <<dropped, last_sent>>
vars == <<supervised, channels, probe, poller, gui, closing, observers>>

FullModeTypeOK ==
    /\ SupervisorTypeOK
    /\ ChannelsTypeOK
    /\ unprobed \in Seq(Port)
    /\ found \in Port \cup {NoPort}
    /\ poller_tier \in Tier
    /\ polling \in BOOLEAN
    /\ tier \in Tier
    /\ child_exit_degraded \in BOOLEAN
    /\ degraded_message \in {"none", "stopped", "no_sensors"}
    /\ shown_message \in Message \cup {"none"}
    /\ window \in BOOLEAN
    /\ polled \in 0..MaxPolled
    /\ announced \in BOOLEAN
    /\ dropped \in BOOLEAN
    /\ last_sent \in Tier

\* The configured port first, then the chain without it.
ProbeOrder ==
    LET others == IF ConfigPort \in PortRange THEN LastPort - 1 ELSE LastPort
    IN  <<ConfigPort>> \o [i \in 1..others |-> IF i < ConfigPort THEN i ELSE i + 1]

InitFullMode ==
    /\ InitSupervisor
    /\ InitChannels
    /\ unprobed = ProbeOrder
    /\ found = NoPort
    /\ poller_tier = "Basic"
    /\ polling = TRUE
    /\ tier = "Basic"
    /\ child_exit_degraded = FALSE
    /\ degraded_message = "none"
    /\ shown_message = "none"
    /\ window = TRUE
    /\ polled = 0
    /\ announced = FALSE
    /\ dropped = FALSE
    /\ last_sent = "Basic"

Emits(event) ==
    /\ Send(event)
    /\ dropped' = (dropped \/ (coalescing /\ Full(raw)))
    /\ last_sent' = IF event \in Tier THEN event ELSE last_sent

EmitsNothing == UNCHANGED <<raw, raw_lagged, observers>>

\* A step that sends one event, or none, and does not touch the channels else.
Sends(event) ==
    /\ Emits(event)
    /\ UNCHANGED <<pending_tier, coalescing, coalesced, lagged>>

SendsNothing == UNCHANGED <<channels, observers>>

-----------------------------------------------------------------------------
(* The launch probe and the coalescer *)

ProbePort ==
    /\ up
    /\ unprobed # <<>>
    /\ \E answer \in Get(Head(unprobed)) :
         IF answer = "lhm"
         THEN /\ found' = Head(unprobed)
              /\ unprobed' = <<>>
              /\ Sends("Full")
         ELSE /\ unprobed' = Tail(unprobed)
              /\ UNCHANGED found
              /\ SendsNothing
    /\ UNCHANGED <<supervised, poller, gui, closing>>

CountsDrops ==
    /\ up
    /\ dropped' = (dropped \/ (coalesced' # coalesced
                               /\ \E s \in Subscriber : Full(coalesced[s])))
    /\ UNCHANGED <<supervised, probe, poller, gui, closing, last_sent>>

CoalescerReads == (CoalescerReceives \/ CoalescerLags) /\ CountsDrops
CoalescerPublishes == WindowElapses /\ CountsDrops

-----------------------------------------------------------------------------
(* The poller: its registry is rebuilt for the tier of a TierChanged. *)

PollerReceives ==
    /\ up
    /\ polling
    /\ Receive("poller")
    /\ LET event == Head(coalesced["poller"]) IN
         /\ poller_tier' = IF event \in Tier THEN event ELSE poller_tier
         /\ polling' = (event # "Shutdown")
    /\ UNCHANGED <<supervised, raw, raw_lagged, pending_tier, coalescing, probe, gui,
                   closing, observers>>

PollerLags ==
    /\ up
    /\ polling
    /\ ReceiveLagged("poller")
    /\ UNCHANGED <<supervised, raw, raw_lagged, pending_tier, coalescing, probe, poller,
                   gui, closing, observers>>

PollerCancelled ==
    /\ up
    /\ polling
    /\ cancel
    /\ polling' = FALSE
    /\ UNCHANGED <<supervised, channels, probe, poller_tier, gui, closing, observers>>

-----------------------------------------------------------------------------
(* The GUI *)

\* main gives the app all of its hooks; run builds the app anew inside eframe
\* and hands on these.
Hooks == {"child_alive", "launch"}

\* The banner after the readings of a frame, by what has come: nothing, a full
\* batch or an empty one.
AfterReadings ==
    {degraded_message}
    \cup (IF tier = "Full" THEN {"none"} ELSE {})
    \cup (IF tier = "Full" /\ degraded_message = "none" THEN {"no_sensors"} ELSE {})

\* child_probe_is_alive is false for the first time.
Degrades ==
    /\ ~child_exit_degraded
    /\ "child_alive" \in Hooks
    /\ child_launched_flag
    /\ ~child_alive_flag

\* drain_events: a receiver that has lagged returns nothing this time.
DrainedEvents == IF lagged["gui"] THEN <<>> ELSE coalesced["gui"]

\* The tier of the last TierChanged among the events, or else current.
IsTier(event) == event \in Tier
LastTier(events, current) ==
    LET last == SelectLastInSeq(events, IsTier)
    IN  IF last = 0 THEN current ELSE events[last]

Drains ==
    /\ lagged' = [lagged EXCEPT !["gui"] = FALSE]
    /\ coalesced' = IF lagged["gui"] THEN coalesced
                    ELSE [coalesced EXCEPT !["gui"] = <<>>]

\* Mutant: the latch is not reset.
NeverRearmed(events, latch) == latch

\* A Full tier that is drained arms the latch again ...
Rearmed(events, latch) == latch /\ ~Contains(events, "Full")

\* Mutant: the banner stays.
NeverCleared(events, banner) == banner

\* ... and takes the banner away.
Cleared(events, banner) == IF Contains(events, "Full") THEN "none" ELSE banner

Frame ==
    /\ up
    /\ window
    /\ LET events == DrainedEvents IN
         /\ tier' = LastTier(events, IF Degrades THEN "Basic" ELSE tier)
         /\ child_exit_degraded' = Rearmed(events, child_exit_degraded \/ Degrades)
         /\ \E banner \in IF Degrades THEN {"stopped"} ELSE AfterReadings :
                degraded_message' = Cleared(events, banner)
         /\ window' = ~Contains(events, "Shutdown")
    /\ IF Degrades THEN Emits("Basic") ELSE EmitsNothing
    /\ Drains
    /\ shown_message' = IF "launch_message" \in Hooks THEN launch_msg ELSE "none"
    /\ UNCHANGED <<supervised, pending_tier, coalescing, probe, poller, closing>>

\* Mutant: the click forgets the child that is there.
ClickForgetsChild ==
    /\ window
    /\ tier = "Basic"
    /\ up
    /\ requests < MaxRequests
    /\ requests' = requests + 1
    /\ child_launched_flag' = FALSE
    /\ SendsNothing
    /\ UNCHANGED <<machine, sidebar_launched, resolved_port, pc, candidate, result,
                   child_alive_flag, launch_msg, cancel, probe, poller, gui, closing>>

\* A click on the pill: only the Basic pill launches.
Click ==
    /\ window
    /\ tier = "Basic"
    /\ "launch" \in Hooks
    /\ RequestLaunch
    /\ SendsNothing
    /\ UNCHANGED <<probe, poller, gui, closing>>

\* What platform.poll has found is sent.  The close hotkey's Shutdown comes
\* without a request: nothing is cancelled.
PlatformEvent ==
    /\ up
    /\ window
    /\ polled < MaxPolled
    /\ polled' = polled + 1
    /\ \E event \in {"Other", "Shutdown"} : Sends(event)
    /\ UNCHANGED <<supervised, probe, poller, gui, announced>>

\* The user closes the window.
CloseWindow ==
    /\ up
    /\ window
    /\ window' = FALSE
    /\ SendsNothing
    /\ UNCHANGED <<supervised, probe, poller, tier, child_exit_degraded, degraded_message,
                   shown_message, closing>>

\* ShutdownSignal::request: the first one cancels, and then sends Shutdown; for
\* another it is over at once.
RequestShutdown ==
    /\ Cancel
    /\ SendsNothing
    /\ UNCHANGED <<probe, poller, gui, closing>>

Announces ==
    /\ up
    /\ cancel /\ ~announced
    /\ announced' = TRUE
    /\ UNCHANGED <<supervised, probe, poller, gui, polled>>

\* Mutant: no event is sent.
AnnouncesNothing == Announces /\ SendsNothing

SendsShutdown == Announces /\ Sends("Shutdown")

\* Whoever closed the window, on_exit follows.
OnExit == ~window /\ RequestShutdown

CtrlC == RequestShutdown

-----------------------------------------------------------------------------
(* The supervisor thread: only its shutdown sends an event. *)

SupervisorPolls ==
    /\ Polls
    /\ SendsNothing
    /\ UNCHANGED <<probe, poller, gui, closing>>

UserAnswers ==
    /\ Prompt
    /\ SendsNothing
    /\ UNCHANGED <<probe, poller, gui, closing>>

SupervisorShutsDown ==
    /\ ShutsDown
    /\ IF sidebar_launched THEN Sends("Basic") ELSE SendsNothing
    /\ UNCHANGED <<probe, poller, gui, closing>>

MachineMoves ==
    /\ Environment
    /\ SendsNothing
    /\ UNCHANGED <<probe, poller, gui, closing>>

FullModeNext ==
    \/ ProbePort
    \/ CoalescerReads
    \/ CoalescerPublishes
    \/ PollerReceives
    \/ PollerLags
    \/ PollerCancelled
    \/ Frame
    \/ Click
    \/ PlatformEvent
    \/ CloseWindow
    \/ OnExit
    \/ CtrlC
    \/ SendsShutdown
    \/ SupervisorPolls
    \/ UserAnswers
    \/ SupervisorShutsDown
    \/ MachineMoves

FullModeSpec == InitFullMode /\ [][FullModeNext]_vars

-----------------------------------------------------------------------------
(* Fairness.  The threads and tasks are never starved, the window of the    *)
(* coalescer elapses, eframe repaints (each frame sends viewport commands,  *)
(* and each asks for another frame), and once the window is closed main     *)
(* returns or the watchdog ends the process.                                *)

ProgramExits ==
    /\ ~window
    /\ ProcessEnds
    /\ SendsNothing
    /\ UNCHANGED <<probe, poller, gui, closing>>

Fairness ==
    /\ WF_vars(SupervisorPolls)
    /\ WF_vars(CoalescerReads)
    /\ WF_vars(CoalescerPublishes)
    /\ WF_vars(PollerReceives \/ PollerLags)
    /\ WF_vars(Frame)
    /\ WF_vars(ProgramExits)

FairFullModeSpec == FullModeSpec /\ Fairness

-----------------------------------------------------------------------------
(* Properties *)

\* The banner "stopped" never stands beside a Full pill, whatever the order of
\* readings, exits, and late or coalesced events.
StoppedMeansBasic == degraded_message = "stopped" => tier = "Basic"

\* The GUI and the poller settle on the tier that was sent last, although the
\* GUI changes its own before it sends the event, the launch probe sends at the
\* same time and the coalescer drops all but the latest of a window: while the
\* coalescer runs and no event is under way they agree with it, unless a full
\* channel dropped one.
TiersSettle ==
    up /\ coalescing /\ ~dropped /\ Drained => tier = last_sent /\ poller_tier = last_sent

\* When the child of sidebar dies, the GUI and the poller get back to Basic and
\* stay there, whatever Full is still under way and however often the launch
\* probe contradicts.
ChildDeathIsSeen ==
    (up /\ sidebar_launched /\ child = "gone") ~>
        ([](tier = "Basic" /\ poller_tier = "Basic") \/ cancel \/ ~up)

\* From the first Shutdown that is sent, by a request or by the close hotkey,
\* until the window is closed, one is on its way to the GUI, although it ends the
\* coalescer that would forward another: no tier change, and nothing that the
\* coalescer or another subscriber does, takes it away, unless a full channel
\* dropped one.
ShutdownIsUnderWay ==
    (announced \/ ~coalescing) /\ window /\ up /\ ~dropped =>
        \/ coalescing /\ Contains(raw, "Shutdown")
        \/ Contains(coalesced["gui"], "Shutdown")

-----------------------------------------------------------------------------
(* What the documentation and the comments say, which the code does not do. *)

\* gui/mod.rs: "when tier returns to Full (user re-launched LHM via the status
\* pill)": a launch that succeeded and lasts gets the GUI to Full.
LaunchReachesFull ==
    (sidebar_launched /\ result = "none" /\ pc = "poll") ~>
        (tier = "Full" \/ child # "running" \/ cancel \/ ~up)

\* gui/mod.rs: "Full mode is running but no sensors were found." is not said of
\* Basic mode, before the shutdown.
NoSensorsMeansFull == degraded_message = "no_sensors" /\ ~cancel => tier = "Full"

\* gui/mod.rs: "Hardware monitor stopped." is said of a child that has exited.
NoFalseAlarm == degraded_message = "stopped" => child = "gone"

\* PRD 5.4: "Ports 17127-17137 are tried for collisions", and Full mode has all
\* sensors active: while the LHM that was found is there, the poller in Full
\* mode asks a port with an LHM.
FullReadsTheMonitor ==
    poller_tier = "Full" /\ found # NoPort /\ LhmSignature(found)
        => LhmSignature(ConfigPort)

\* gui/mod.rs: launch failures are shown "so the pill click is never silent".
LaunchFailureIsShown == launch_msg # "none" ~> (shown_message # "none" \/ ~window \/ ~up)
=============================================================================
