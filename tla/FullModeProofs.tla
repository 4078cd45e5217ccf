--------------------------- MODULE FullModeProofs ---------------------------
(***************************************************************************)
(* The supervisor thread, and the system that is composed around it.       *)
(*                                                                         *)
(* Of the supervisor: the ownership of the elevated child, for every chain *)
(* of ports, every fault and any number of waiting clicks.  The inductive  *)
(* invariant Supervision ties the child to the job, the job to             *)
(* sidebar_launched, and both to the step the thread is at.                *)
(*                                                                         *)
(* Of the composition: whatever the channels, the launch probe, the poller *)
(* and the GUI do, and whenever they do it, every step of theirs leaves    *)
(* the supervisor alone or is one of its own, so what is shown of it holds *)
(* in the whole; and where the events are that the GUI and the poller have *)
(* still to see.                                                           *)
(***************************************************************************)
EXTENDS FullMode, WellFoundedInduction, TLAPS

-----------------------------------------------------------------------------
(* The supervisor                                                          *)

\* A child is in the job from its assignment on; only a child that runs is in
\* it, and only one that sidebar_launched stands for.
Owned ==
    /\ ChildIsOwned
    /\ in_job => child = "running" /\ sidebar_launched

\* A launch begins without a child, and without a claim to one.
LaunchesOne == pc \in {"pick", "runas", "assign"} => ~sidebar_launched

\* From the first store after a launch on, the GUI knows of its child.
Watched ==
    pc \in {"poll", "alive", "liveness", "cancelled?"} /\ sidebar_launched
        => child_launched_flag

Supervision == SupervisorTypeOK /\ Owned /\ LaunchesOne /\ Watched

-----------------------------------------------------------------------------
LEMMA InitSupervision == InitSupervisor => Supervision
<1> SUFFICES ASSUME InitSupervisor PROVE Supervision
  OBVIOUS
<1>1. listener \in [Port -> {"nobody", "foreign", "user", "child"}]
  <2>1. {"nobody"} \cup Programs \subseteq {"nobody", "foreign", "user", "child"}
    BY SupervisorAssumption
  <2>. QED BY <2>1 DEF InitSupervisor
<1>2. candidate \in PortRange /\ requests \in 0..MaxRequests
  BY PortAssumption, SupervisorAssumption DEF InitSupervisor, PortRange
<1>3. SupervisorTypeOK
  BY <1>1, <1>2 DEF InitSupervisor, SupervisorTypeOK
<1>. QED
  BY <1>3 DEF InitSupervisor, Supervision, Owned, ChildIsOwned, LaunchesOne, Watched

LEMMA WithoutChildType ==
    ASSUME SupervisorTypeOK
    PROVE  WithoutChild \in [Port -> {"nobody", "foreign", "user", "child"}]
  BY DEF SupervisorTypeOK, WithoutChild

\* What the machine leaves alone.
threadState == <<sidebar_launched, resolved_port, pc, candidate, result, requests,
                 child_launched_flag, child_alive_flag, launch_msg, cancel>>

LEMMA MachineType ==
    ASSUME SupervisorTypeOK, UNCHANGED threadState,
           listener' \in [Port -> {"nobody", "foreign", "user", "child"}],
           child' = child \/ child' = "gone",
           in_job' \in BOOLEAN, up' \in BOOLEAN
    PROVE  SupervisorTypeOK'
<1>1. child' \in {"none", "running", "gone"}
  BY DEF SupervisorTypeOK
<1>2. /\ sidebar_launched' \in BOOLEAN /\ child_launched_flag' \in BOOLEAN
      /\ child_alive_flag' \in BOOLEAN /\ cancel' \in BOOLEAN
  BY DEF SupervisorTypeOK, threadState
<1>3. /\ resolved_port' \in PortRange \cup {NoPort} /\ candidate' \in PortRange
      /\ pc' = pc /\ result' \in Message \cup {"none"} /\ requests' \in 0..MaxRequests
      /\ launch_msg' \in Message \cup {"none"}
  BY DEF SupervisorTypeOK, threadState
<1>. QED BY <1>1, <1>2, <1>3 DEF SupervisorTypeOK

\* What the machine does between two steps of the thread, and its callers.
LEMMA OutsideStep ==
    ASSUME Supervision, Environment \/ RequestLaunch \/ Cancel
    PROVE  Supervision'
<1>1. CASE ChildListens
  <2>1. SupervisorTypeOK'
    <3>1. listener' \in [Port -> {"nobody", "foreign", "user", "child"}]
      BY <1>1 DEF ChildListens, Supervision, SupervisorTypeOK
    <3>2. child' = child /\ UNCHANGED threadState
      BY <1>1 DEF ChildListens, threadState
    <3>3. in_job' \in BOOLEAN /\ up' \in BOOLEAN
      BY <1>1 DEF ChildListens, Supervision, SupervisorTypeOK
    <3>. QED BY <3>1, <3>2, <3>3, MachineType DEF Supervision
  <2>2. Owned'
    BY <1>1 DEF ChildListens, Supervision, Owned, ChildIsOwned
  <2>3. LaunchesOne' /\ Watched'
    BY <1>1 DEF ChildListens, Supervision, LaunchesOne, Watched
  <2>. QED BY <2>1, <2>2, <2>3 DEF Supervision
<1>2. CASE ChildExits
  <2>1. SupervisorTypeOK'
    <3>1. listener' \in [Port -> {"nobody", "foreign", "user", "child"}]
      BY <1>2, WithoutChildType DEF ChildExits, Supervision
    <3>2. child' = "gone" /\ UNCHANGED threadState
      BY <1>2 DEF ChildExits, threadState
    <3>3. in_job' \in BOOLEAN /\ up' \in BOOLEAN
      BY <1>2 DEF ChildExits, Supervision, SupervisorTypeOK
    <3>. QED BY <3>1, <3>2, <3>3, MachineType DEF Supervision
  <2>2. Owned'
    BY <1>2 DEF ChildExits, Supervision, Owned, ChildIsOwned
  <2>3. LaunchesOne' /\ Watched'
    BY <1>2 DEF ChildExits, Supervision, LaunchesOne, Watched
  <2>. QED BY <2>1, <2>2, <2>3 DEF Supervision
<1>3. ASSUME NEW p \in Port, OtherProgram(p) PROVE Supervision'
  <2>1. SupervisorTypeOK'
    BY <1>3, SupervisorAssumption DEF OtherProgram, Supervision, SupervisorTypeOK
  <2>2. Owned'
    BY <1>3 DEF OtherProgram, Supervision, Owned, ChildIsOwned
  <2>3. LaunchesOne' /\ Watched'
    BY <1>3 DEF OtherProgram, Supervision, LaunchesOne, Watched
  <2>. QED BY <2>1, <2>2, <2>3 DEF Supervision
<1>4. CASE ProcessEnds
  <2>1. SupervisorTypeOK'
    <3>1. listener' \in [Port -> {"nobody", "foreign", "user", "child"}]
      BY <1>4, WithoutChildType DEF ProcessEnds, Supervision, SupervisorTypeOK
    <3>2. (child' = child \/ child' = "gone") /\ UNCHANGED threadState
      BY <1>4 DEF ProcessEnds, threadState
    <3>3. in_job' \in BOOLEAN /\ up' \in BOOLEAN
      BY <1>4 DEF ProcessEnds
    <3>. QED BY <3>1, <3>2, <3>3, MachineType DEF Supervision
  <2>2. Owned'
    BY <1>4 DEF ProcessEnds, Supervision, Owned, ChildIsOwned
  <2>3. LaunchesOne' /\ Watched'
    BY <1>4 DEF ProcessEnds, Supervision, LaunchesOne, Watched
  <2>. QED BY <2>1, <2>2, <2>3 DEF Supervision
<1>5. CASE RequestLaunch
  <2>1. SupervisorTypeOK'
    BY <1>5, SupervisorAssumption DEF RequestLaunch, Supervision, SupervisorTypeOK
  <2>2. Owned'
    BY <1>5 DEF RequestLaunch, Supervision, Owned, ChildIsOwned
  <2>3. LaunchesOne' /\ Watched'
    BY <1>5 DEF RequestLaunch, Supervision, LaunchesOne, Watched
  <2>. QED BY <2>1, <2>2, <2>3 DEF Supervision
<1>6. CASE Cancel
  <2>1. SupervisorTypeOK'
    BY <1>6 DEF Cancel, Supervision, SupervisorTypeOK
  <2>2. Owned'
    BY <1>6 DEF Cancel, Supervision, Owned, ChildIsOwned
  <2>3. LaunchesOne' /\ Watched'
    BY <1>6 DEF Cancel, Supervision, LaunchesOne, Watched
  <2>. QED BY <2>1, <2>2, <2>3 DEF Supervision
<1>. QED BY <1>1, <1>2, <1>3, <1>4, <1>5, <1>6 DEF Environment

\* The steps of a launch.
LEMMA LaunchStep ==
    ASSUME Supervision, PickPort \/ Prompt \/ Assign \/ Wait
    PROVE  Supervision'
<1> USE DEF Supervision, SupervisorTypeOK, Owned, ChildIsOwned, LaunchesOne, Watched,
            machine, flags, Fails, Message
<1>1. CASE PickPort BY <1>1, PortAssumption DEF PickPort, PortRange
<1>2. CASE PromptAccepted BY <1>2 DEF PromptAccepted
<1>3. CASE PromptDeclined BY <1>3 DEF PromptDeclined
<1>4. CASE JobAssigned BY <1>4 DEF JobAssigned
<1>5. CASE JobFails BY <1>5, WithoutChildType DEF JobFails
<1>6. CASE ProbeAnswers BY <1>6 DEF ProbeAnswers
<1>7. CASE LaunchTimesOut BY <1>7 DEF LaunchTimesOut
<1>. QED BY <1>1, <1>2, <1>3, <1>4, <1>5, <1>6, <1>7 DEF Prompt, Assign, Wait

\* The other steps of the thread.
LEMMA PollStep ==
    ASSUME Supervision,
           \/ PollRequests \/ StoreLaunched \/ StoreAlive \/ StoreFailure
           \/ CheckLiveness \/ GoesOn \/ ShutsDown
    PROVE  Supervision'
<1> USE DEF Supervision, SupervisorTypeOK, Owned, ChildIsOwned, LaunchesOne, Watched,
            machine, flags
<1>1. CASE PollRequests BY <1>1, PortAssumption, SupervisorAssumption
                        DEF PollRequests, PortRange
<1>2. CASE StoreLaunched BY <1>2 DEF StoreLaunched
<1>3. CASE StoreAlive BY <1>3 DEF StoreAlive
<1>4. CASE StoreFailure BY <1>4 DEF StoreFailure
<1>5. CASE CheckLiveness BY <1>5 DEF CheckLiveness
<1>6. CASE GoesOn BY <1>6 DEF GoesOn
<1>7. CASE ShutsDown BY <1>7, WithoutChildType DEF ShutsDown
<1>. QED BY <1>1, <1>2, <1>3, <1>4, <1>5, <1>6, <1>7

LEMMA SupervisionStep == Supervision /\ [SupervisorNext]_supervised => Supervision'
<1>1. ASSUME Supervision, UNCHANGED supervised PROVE Supervision'
  BY <1>1 DEF supervised, Supervision, SupervisorTypeOK, Owned, ChildIsOwned,
              LaunchesOne, Watched
<1>. QED BY <1>1, OutsideStep, LaunchStep, PollStep DEF SupervisorNext, Polls

LEMMA SupervisionHolds == SupervisorSpec => []Supervision
  BY InitSupervision, SupervisionStep, PTL DEF SupervisorSpec

-----------------------------------------------------------------------------
\* The supervisor, its flags and the machine only hold well-formed values; the
\* walk over the ports stays within the chain.
THEOREM SupervisorTypeCorrect == SupervisorSpec => []SupervisorTypeOK
<1>1. Supervision => SupervisorTypeOK BY DEF Supervision
<1>. QED BY <1>1, SupervisionHolds, PTL

\* G10: while the process lives, its elevated child is in the job, whatever
\* fails and whoever exits, except between its start and its assignment.
THEOREM OwnedWhileUp == SupervisorSpec => []ChildIsOwned
<1>1. Supervision => ChildIsOwned BY DEF Supervision, Owned
<1>. QED BY <1>1, SupervisionHolds, PTL

\* H5: no launch begins beside a child, however many clicks are waiting.
THEOREM NeverTwoChildren == SupervisorSpec => []OneChild
<1>1. Supervision => OneChild
  BY DEF Supervision, Owned, ChildIsOwned, LaunchesOne, OneChild
<1>. QED BY <1>1, SupervisionHolds, PTL

\* Between two polls the GUI is told to watch every child that was launched,
\* also one whose launch was reported as an error.
THEOREM EveryChildIsWatched == SupervisorSpec => []ChildIsWatched
<1>1. Supervision => ChildIsWatched BY DEF Supervision, Watched, ChildIsWatched
<1>. QED BY <1>1, SupervisionHolds, PTL

-----------------------------------------------------------------------------
(* The composition                                                         *)

\* What a GUI frame, the tasks and the channels do is a stutter of the supervisor.
LEMMA OthersStutter ==
    ASSUME \/ ProbePort \/ CoalescerReads \/ CoalescerPublishes
           \/ PollerReceives \/ PollerLags \/ PollerCancelled
           \/ Frame \/ PlatformEvent \/ CloseWindow \/ SendsShutdown
    PROVE  UNCHANGED supervised
  BY DEF ProbePort, CoalescerReads, CoalescerPublishes, CountsDrops, PollerReceives, PollerLags,
         PollerCancelled, PlatformEvent, CloseWindow, SendsShutdown, Announces, Frame

LEMMA FullModeStep == [FullModeNext]_vars => [SupervisorNext]_supervised
<1> SUFFICES ASSUME [FullModeNext]_vars PROVE [SupervisorNext]_supervised
  OBVIOUS
<1>1. CASE Click
  BY <1>1 DEF Click, SupervisorNext
<1>2. CASE OnExit \/ CtrlC
  BY <1>2 DEF OnExit, CtrlC, RequestShutdown, SupervisorNext
<1>3. CASE SupervisorPolls \/ UserAnswers \/ SupervisorShutsDown \/ MachineMoves
  BY <1>3 DEF SupervisorPolls, UserAnswers, SupervisorShutsDown, MachineMoves, SupervisorNext
<1>4. CASE UNCHANGED vars
  BY <1>4 DEF vars
<1>. QED BY <1>1, <1>2, <1>3, <1>4, OthersStutter DEF FullModeNext

\* Every behaviour of the composed system is one of the supervisor.
THEOREM FullModeImplementsSupervisor == FullModeSpec => SupervisorSpec
<1>1. InitFullMode => InitSupervisor BY DEF InitFullMode
<1>. QED BY <1>1, FullModeStep, PTL DEF FullModeSpec, SupervisorSpec

-----------------------------------------------------------------------------
(* The banner and the pill *)

LEMMA GreatestIndex ==
    ASSUME NEW n \in Nat, NEW S \in SUBSET (1..n), S # {}
    PROVE  Max(S) \in S /\ \A i \in S : Max(S) >= i
<1> DEFINE FromTop == {n - i : i \in S}
<1>1. FromTop \subseteq Nat /\ FromTop # {}
  <2>1. PICK i \in S : TRUE
    OBVIOUS
  <2>2. n - i \in FromTop
    BY <2>1
  <2>3. \A j \in S : n - j \in Nat
    OBVIOUS
  <2>. QED BY <2>2, <2>3
<1>2. PICK x \in FromTop : \A y \in FromTop : ~(<<y, x>> \in OpToRel(<, Nat))
  BY <1>1, NatLessThanWellFounded, WFMin
<1>3. PICK i \in S : x = n - i
  OBVIOUS
<1>4. \A j \in S : i >= j
  <2> TAKE j \in S
  <2>1. n - j \in FromTop /\ n - j \in Nat /\ x \in Nat
    BY <1>1
  <2>2. ~(n - j < x)
    BY <2>1, <1>2 DEF OpToRel
  <2>. QED BY <2>2, <1>3
<1>. QED BY <1>4 DEF Max

\* A frame's tier is the one it had, or that of an event it drained.
LEMMA TierOfAFrame ==
    ASSUME NEW events \in Seq(Event), NEW current \in Tier
    PROVE  \/ LastTier(events, current) = current
           \/ LastTier(events, current) = "Basic"
           \/ LastTier(events, current) = "Full" /\ Contains(events, "Full")
<1> DEFINE tiers == {i \in 1..Len(events) : events[i] \in Tier}
<1>1. SelectLastInSeq(events, IsTier) = IF tiers # {} THEN Max(tiers) ELSE 0
  BY DEF SelectLastInSeq, IsTier
<1>2. CASE tiers = {}
  BY <1>1, <1>2 DEF LastTier
<1>3. CASE tiers # {}
  <2>1. Max(tiers) \in tiers
    <3>1. Len(events) \in Nat /\ tiers \in SUBSET (1..Len(events))
      OBVIOUS
    <3>. QED BY <3>1, <1>3, GreatestIndex
  <2>2. LastTier(events, current) = events[Max(tiers)]
    BY <1>1, <1>3, <2>1 DEF LastTier
  <2>. QED BY <2>1, <2>2 DEF Tier, Contains
<1>. QED BY <1>2, <1>3

\* The channels hold events.
LEMMA NoEvents == <<>> \in Seq(Event)
  OBVIOUS

LEMMA SentType ==
    ASSUME NEW queue \in Seq(Event), NEW event \in Event
    PROVE  Sent(queue, event) \in Seq(Event)
<1>1. Full(queue) => queue # <<>>
  BY CapacityAssumption DEF Full
<1>. QED BY <1>1 DEF Sent

LEMMA SendType ==
    ASSUME ChannelsTypeOK, NEW event \in Event, Send(event)
    PROVE  raw' \in Seq(Event) /\ raw_lagged' \in BOOLEAN
  BY SentType DEF ChannelsTypeOK, Send

LEMMA SendsType ==
    ASSUME ChannelsTypeOK, NEW event \in Event, Sends(event)
    PROVE  ChannelsTypeOK'
  BY SendType DEF ChannelsTypeOK, Sends, Emits

LEMMA PublishType ==
    ASSUME ChannelsTypeOK, NEW event \in Event, Publish(event)
    PROVE  /\ coalesced' \in [Subscriber -> Seq(Event)]
           /\ lagged' \in [Subscriber -> BOOLEAN]
<1>1. \A s \in Subscriber : Sent(coalesced[s], event) \in Seq(Event)
  BY SentType DEF ChannelsTypeOK
<1>. QED BY <1>1 DEF ChannelsTypeOK, Publish

LEMMA CoalescerType == ASSUME ChannelsTypeOK, Coalescer PROVE ChannelsTypeOK'
<1>1. CASE CoalescerReceives
  <2>1. Head(raw) \in Event /\ Tail(raw) \in Seq(Event)
    BY <1>1 DEF CoalescerReceives, ChannelsTypeOK
  <2>2. CASE Head(raw) \in Tier
    BY <1>1, <2>1, <2>2 DEF CoalescerReceives, HoldBack, ChannelsTypeOK
  <2>3. CASE Head(raw) \notin Tier
    BY <1>1, <2>1, <2>3, PublishType DEF CoalescerReceives, ChannelsTypeOK
  <2>. QED BY <2>2, <2>3
<1>2. CASE CoalescerLags
  BY <1>2 DEF CoalescerLags, ChannelsTypeOK
<1>3. CASE WindowElapses
  <2>1. pending_tier \in Event
    BY <1>3 DEF WindowElapses, ChannelsTypeOK, Event
  <2>. QED BY <1>3, <2>1, PublishType DEF WindowElapses, ChannelsTypeOK
<1>. QED BY <1>1, <1>2, <1>3 DEF Coalescer

\* The banner and the pill, and what both are computed from.
BannerFits == ChannelsTypeOK /\ tier \in Tier /\ StoppedMeansBasic

\* A step that leaves the pill and the banner alone only has to keep the channels.
LEMMA PillAlone ==
    ASSUME BannerFits, ChannelsTypeOK', UNCHANGED <<tier, degraded_message>>
    PROVE  BannerFits'
  BY DEF BannerFits, StoppedMeansBasic

LEMMA FrameKeepsBanner ==
    ASSUME BannerFits, Frame
    PROVE  BannerFits'
<1> DEFINE events == DrainedEvents
           current == IF Degrades THEN "Basic" ELSE tier
<1>0. PICK banner \in IF Degrades THEN {"stopped"} ELSE AfterReadings :
          degraded_message' = Cleared(events, banner)
  BY DEF Frame
<1>1. events \in Seq(Event) /\ current \in Tier
  BY SubscriberAssumption DEF BannerFits, ChannelsTypeOK, DrainedEvents, Tier
<1>2. tier' = LastTier(events, current) /\ degraded_message' = Cleared(events, banner)
  BY <1>0 DEF Frame
<1>3. tier' \in Tier
  BY <1>1, <1>2, TierOfAFrame DEF Tier
<1>4. ChannelsTypeOK'
  <2>1. raw' \in Seq(Event) /\ raw_lagged' \in BOOLEAN
    BY SendType DEF Frame, Emits, EmitsNothing, BannerFits, ChannelsTypeOK, Event, Tier
  <2>2. coalesced' \in [Subscriber -> Seq(Event)] /\ lagged' \in [Subscriber -> BOOLEAN]
    <3>1. Drains
      BY DEF Frame
    <3>. QED BY <3>1, NoEvents DEF Drains, BannerFits, ChannelsTypeOK
  <2>. QED BY <2>1, <2>2 DEF Frame, BannerFits, ChannelsTypeOK
<1>5. ASSUME degraded_message' = "stopped" PROVE tier' = "Basic"
  <2>1. ~Contains(events, "Full") /\ banner = "stopped"
    BY <1>2, <1>5 DEF Cleared
  <2>2. current = "Basic"
    BY <2>1 DEF AfterReadings, BannerFits, StoppedMeansBasic
  <2>. QED BY <1>1, <1>2, <2>1, <2>2, TierOfAFrame
<1>. QED BY <1>3, <1>4, <1>5 DEF BannerFits, StoppedMeansBasic

LEMMA BannerFitsStep == BannerFits /\ [FullModeNext]_vars => BannerFits'
<1> SUFFICES ASSUME BannerFits, [FullModeNext]_vars PROVE BannerFits'
  OBVIOUS
<1>0. "Full" \in Event /\ "Basic" \in Event /\ "Shutdown" \in Event /\ "Other" \in Event
  BY DEF Event, Tier
<1>1. ASSUME SendsNothing PROVE ChannelsTypeOK'
  BY <1>1 DEF SendsNothing, channels, ChannelsTypeOK, BannerFits
<1>2. CASE ProbePort
  BY <1>0, <1>1, <1>2, SendsType, PillAlone DEF ProbePort, gui, BannerFits
<1>3. CASE CoalescerReads \/ CoalescerPublishes
  BY <1>3, CoalescerType, PillAlone
  DEF CoalescerReads, CoalescerPublishes, CountsDrops, Coalescer, gui, BannerFits
<1>4. CASE PollerReceives \/ PollerLags
  <2>1. raw' = raw /\ raw_lagged' = raw_lagged /\ pending_tier' = pending_tier
        /\ coalescing' = coalescing
    BY <1>4 DEF PollerReceives, PollerLags
  <2>2. coalesced' \in [Subscriber -> Seq(Event)] /\ lagged' \in [Subscriber -> BOOLEAN]
    <3>1. CASE Receive("poller")
      <4>1. Tail(coalesced["poller"]) \in Seq(Event)
        BY <3>1, SubscriberAssumption DEF Receive, BannerFits, ChannelsTypeOK
      <4>. QED BY <3>1, <4>1 DEF Receive, BannerFits, ChannelsTypeOK
    <3>2. CASE ReceiveLagged("poller")
      BY <3>2 DEF ReceiveLagged, BannerFits, ChannelsTypeOK
    <3>. QED BY <1>4, <3>1, <3>2 DEF PollerReceives, PollerLags
  <2>3. ChannelsTypeOK'
    BY <2>1, <2>2 DEF BannerFits, ChannelsTypeOK
  <2>. QED BY <1>4, <2>3, PillAlone DEF PollerReceives, PollerLags, gui
<1>5. CASE PollerCancelled
  BY <1>5, PillAlone DEF PollerCancelled, channels, gui, BannerFits, ChannelsTypeOK
<1>6. CASE Frame
  BY <1>6, FrameKeepsBanner
<1>7. CASE Click
  BY <1>1, <1>7, PillAlone DEF Click, gui
<1>8. CASE CloseWindow \/ OnExit \/ CtrlC
  BY <1>1, <1>8, PillAlone DEF CloseWindow, OnExit, CtrlC, RequestShutdown, gui
<1>9. CASE PlatformEvent \/ SendsShutdown
  BY <1>0, <1>9, SendsType, PillAlone DEF PlatformEvent, SendsShutdown, Announces, gui, BannerFits
<1>10. CASE SupervisorPolls \/ UserAnswers \/ MachineMoves
  BY <1>1, <1>10, PillAlone DEF SupervisorPolls, UserAnswers, MachineMoves, gui
<1>11. CASE SupervisorShutsDown
  <2>1. ChannelsTypeOK'
    BY <1>0, <1>1, <1>11, SendsType DEF SupervisorShutsDown, BannerFits
  <2>. QED BY <1>11, <2>1, PillAlone DEF SupervisorShutsDown, gui
<1>12. CASE UNCHANGED vars
  BY <1>12, PillAlone DEF vars, channels, gui, BannerFits, ChannelsTypeOK
<1>. QED
  BY <1>2, <1>3, <1>4, <1>5, <1>6, <1>7, <1>8, <1>9, <1>10, <1>11, <1>12
  DEF FullModeNext

LEMMA BannerFitsHolds == FullModeSpec => []BannerFits
<1>1. InitFullMode => BannerFits
  BY NoEvents
  DEF InitFullMode, InitChannels, ChannelsTypeOK, BannerFits, StoppedMeansBasic, Tier
<1>. QED BY <1>1, BannerFitsStep, PTL DEF FullModeSpec

\* The banner that says the monitor has stopped never stands beside a Full
\* pill, whatever is sent, dropped, coalesced or late.
THEOREM BannerFitsPill == FullModeSpec => []StoppedMeansBasic
<1>1. BannerFits => StoppedMeansBasic
  BY DEF BannerFits
<1>. QED BY <1>1, BannerFitsHolds, PTL

-----------------------------------------------------------------------------
(* What is under way: the tier that a subscriber comes to, and the Shutdown. *)

\* The last tier of a queue is t; there is none.
EndsIn(queue, t) ==
    /\ t \in Tier
    /\ \E i \in 1..Len(queue) :
        queue[i] = t /\ \A j \in 1..Len(queue) : i < j => queue[j] \notin Tier
NoTier(queue) == \A i \in 1..Len(queue) : queue[i] \notin Tier

\* The tier a subscriber, which is in current, is in when it has seen all that
\* was sent: the last one of the raw channel, else the one that is held back,
\* else the last one of its own channel.
ComesTo(s, current, t) ==
    \/ EndsIn(raw, t)
    \/ NoTier(raw) /\ pending_tier = t /\ t \in Tier
    \/ NoTier(raw) /\ pending_tier = "none" /\ EndsIn(coalesced[s], t)
    \/ NoTier(raw) /\ pending_tier = "none" /\ NoTier(coalesced[s]) /\ current = t

Settling ==
    up /\ coalescing /\ ~dropped =>
        ComesTo("gui", tier, last_sent) /\ ComesTo("poller", poller_tier, last_sent)

UnderWay == Settling /\ ShutdownIsUnderWay

LEMMA HeadOrTail ==
    ASSUME NEW queue \in Seq(Event), queue # <<>>
    PROVE  /\ \A t : EndsIn(queue, t) => EndsIn(Tail(queue), t)
                                         \/ (Head(queue) = t /\ NoTier(Tail(queue)))
           /\ NoTier(queue) => NoTier(Tail(queue)) /\ Head(queue) \notin Tier
           /\ \A e : Contains(queue, e) => Contains(Tail(queue), e) \/ Head(queue) = e
           /\ \A e : Contains(Tail(queue), e) => Contains(queue, e)
<1> DEFINE rest == Tail(queue)
<1>1. /\ Len(queue) \in Nat \ {0} /\ Head(queue) = queue[1]
      /\ Len(rest) = Len(queue) - 1 /\ \A i \in 1..Len(rest) : rest[i] = queue[i + 1]
  OBVIOUS
<1>2. \A i \in 1..Len(queue) : i = 1 \/ (i - 1 \in 1..Len(rest) /\ rest[i - 1] = queue[i])
  BY <1>1
<1>3. ASSUME NEW t, EndsIn(queue, t), ~(Head(queue) = t /\ NoTier(rest))
      PROVE  EndsIn(rest, t)
  <2>1. PICK i \in 1..Len(queue) :
            queue[i] = t /\ \A j \in 1..Len(queue) : i < j => queue[j] \notin Tier
    BY <1>3 DEF EndsIn
  <2>2. \A j \in 1..Len(rest) : i < j + 1 => rest[j] \notin Tier
    BY <1>1, <2>1
  <2>3. i # 1
    BY <1>1, <1>3, <2>1, <2>2 DEF NoTier
  <2>4. i - 1 \in 1..Len(rest) /\ rest[i - 1] = t
    BY <1>2, <2>1, <2>3
  <2>5. \A j \in 1..Len(rest) : i - 1 < j => rest[j] \notin Tier
    BY <1>1, <2>2
  <2>6. t \in Tier
    BY <1>3 DEF EndsIn
  <2>. QED BY <2>4, <2>5, <2>6 DEF EndsIn
<1>4. NoTier(queue) => NoTier(rest) /\ Head(queue) \notin Tier
  BY <1>1 DEF NoTier
<1>5. \A e : Contains(queue, e) => Contains(rest, e) \/ Head(queue) = e
  BY <1>1, <1>2 DEF Contains
<1>6. \A e : Contains(rest, e) => Contains(queue, e)
  BY <1>1 DEF Contains
<1>. QED BY <1>3, <1>4, <1>5, <1>6

\* A send without a loss adds the event behind all others.
LEMMA SentLast ==
    ASSUME NEW queue \in Seq(Event), NEW event \in Event
    PROVE  /\ Contains(Sent(queue, event), event)
           /\ event \in Tier => EndsIn(Sent(queue, event), event)
           /\ NoTier(queue) /\ event \notin Tier => NoTier(Sent(queue, event))
           /\ \A e : Contains(Sent(queue, event), e) => Contains(queue, e) \/ e = event
<1> DEFINE kept == IF Full(queue) THEN Tail(queue) ELSE queue
           sent == Sent(queue, event)
<1>1. kept \in Seq(Event)
  BY CapacityAssumption DEF Full
<1>2. /\ Len(kept) \in Nat /\ Len(sent) = Len(kept) + 1 /\ sent[Len(kept) + 1] = event
      /\ \A i \in 1..Len(kept) : sent[i] = kept[i]
  BY <1>1 DEF Sent
<1>3. NoTier(queue) => NoTier(kept)
  BY HeadOrTail, CapacityAssumption DEF Full
<1>4. \A e : Contains(kept, e) => Contains(queue, e)
  BY HeadOrTail, CapacityAssumption DEF Full
<1>5. \A i \in 1..Len(sent) : i = Len(sent) \/ i \in 1..Len(kept)
  BY <1>2
<1>6. Contains(sent, event)
  BY <1>2 DEF Contains
<1>7. event \in Tier => EndsIn(sent, event)
  BY <1>2 DEF EndsIn
<1>8. NoTier(queue) /\ event \notin Tier => NoTier(sent)
  BY <1>2, <1>3, <1>5 DEF NoTier
<1>9. \A e : Contains(sent, e) => Contains(queue, e) \/ e = event
  BY <1>2, <1>4, <1>5 DEF Contains
<1>. QED BY <1>6, <1>7, <1>8, <1>9

LEMMA SentKeeps ==
    ASSUME NEW queue \in Seq(Event), NEW event \in Event, ~Full(queue)
    PROVE  /\ \A e : Contains(queue, e) => Contains(Sent(queue, event), e)
           /\ event \notin Tier => \A t : EndsIn(queue, t) => EndsIn(Sent(queue, event), t)
<1> DEFINE sent == Sent(queue, event)
<1>1. /\ Len(queue) \in Nat /\ Len(sent) = Len(queue) + 1 /\ sent[Len(queue) + 1] = event
      /\ \A i \in 1..Len(queue) : sent[i] = queue[i]
  BY DEF Sent
<1>2. \A i \in 1..Len(sent) : i = Len(sent) \/ i \in 1..Len(queue)
  BY <1>1
<1>3. \A e : Contains(queue, e) => Contains(sent, e)
  BY <1>1 DEF Contains
<1>4. ASSUME event \notin Tier, NEW t, EndsIn(queue, t) PROVE EndsIn(sent, t)
  BY <1>1, <1>2, <1>4 DEF EndsIn
<1>. QED BY <1>3, <1>4

\* What an emitter sends is the last of the raw channel; that nothing was lost
\* is what dropped tells.
LEMMA EmitsLast ==
    ASSUME ChannelsTypeOK, coalescing, NEW event \in Event, Emits(event)
    PROVE  /\ Contains(raw', event)
           /\ event \in Tier => EndsIn(raw', event) /\ last_sent' = event
           /\ event \notin Tier => last_sent' = last_sent
           /\ NoTier(raw) /\ event \notin Tier => NoTier(raw')
           /\ \A e : Contains(raw', e) => Contains(raw, e) \/ e = event
           /\ ~dropped' => /\ ~dropped
                           /\ \A e : Contains(raw, e) => Contains(raw', e)
                           /\ event \notin Tier => \A t : EndsIn(raw, t) => EndsIn(raw', t)
<1>1. raw \in Seq(Event) /\ raw' = Sent(raw, event)
  BY DEF ChannelsTypeOK, Emits, Send
<1>2. dropped' = (dropped \/ Full(raw)) /\ last_sent' = IF event \in Tier THEN event ELSE last_sent
  BY DEF Emits
<1>3. ~dropped' => ~dropped /\ ~Full(raw)
  BY <1>2
<1>. QED BY <1>1, <1>2, <1>3, SentLast, SentKeeps

\* A sender that only sends: the events under way come to what they came to, or
\* to the tier that was sent.
LEMMA SendsSettles ==
    ASSUME BannerFits, UnderWay, up, NEW event \in Event, Sends(event),
           UNCHANGED <<tier, poller_tier, up>>, window' => window,
           announced' => announced \/ event = "Shutdown"
    PROVE  UnderWay'
<1>1. ChannelsTypeOK
  BY DEF BannerFits
<1>2. Emits(event) /\ UNCHANGED <<pending_tier, coalescing, coalesced, lagged>>
  BY DEF Sends
<1>3. ASSUME coalescing, ~dropped' PROVE Settling'
  <2>1. ~dropped
    BY <1>1, <1>2, <1>3, EmitsLast
  <2>2. CASE event \in Tier
    BY <1>1, <1>2, <1>3, <2>2, EmitsLast DEF Settling, ComesTo
  <2>3. CASE event \notin Tier
    BY <1>1, <1>2, <1>3, <2>1, <2>3, EmitsLast DEF UnderWay, Settling, ComesTo
  <2>. QED BY <2>2, <2>3
<1>4. ShutdownIsUnderWay'
  <2>1. CASE ~coalescing
    <3>1. raw' = raw /\ (~dropped' => ~dropped)
      BY <1>2, <2>1 DEF Emits, Send
    <3>. QED BY <1>2, <2>1, <3>1 DEF UnderWay, ShutdownIsUnderWay
  <2>2. CASE coalescing /\ event = "Shutdown"
    <3>1. coalescing' /\ Contains(raw', "Shutdown")
      BY <1>1, <1>2, <2>2, EmitsLast
    <3>. QED BY <3>1 DEF ShutdownIsUnderWay
  <2>3. CASE coalescing /\ event # "Shutdown"
    <3> SUFFICES ASSUME announced', window', ~dropped' PROVE ShutdownIsUnderWay'
      BY <1>2, <2>3 DEF ShutdownIsUnderWay
    <3>1. ~dropped /\ (Contains(raw, "Shutdown") => Contains(raw', "Shutdown"))
      BY <1>1, <1>2, <2>3, EmitsLast
    <3>. QED BY <1>2, <2>3, <3>1 DEF UnderWay, ShutdownIsUnderWay
  <2>. QED BY <2>1, <2>2, <2>3
<1>. QED BY <1>2, <1>3, <1>4 DEF UnderWay, Settling

\* A publication is the last of every channel.
LEMMA PublishLast ==
    ASSUME ChannelsTypeOK, NEW event \in Event, Publish(event), NEW s \in Subscriber,
           coalesced' = coalesced \/ \A r \in Subscriber : ~Full(coalesced[r])
    PROVE  /\ Contains(coalesced'[s], event)
           /\ event \in Tier => EndsIn(coalesced'[s], event)
           /\ NoTier(coalesced[s]) /\ event \notin Tier => NoTier(coalesced'[s])
           /\ \A e : Contains(coalesced[s], e) => Contains(coalesced'[s], e)
           /\ event \notin Tier =>
                \A t : EndsIn(coalesced[s], t) => EndsIn(coalesced'[s], t)
<1>1. coalesced[s] \in Seq(Event) /\ coalesced'[s] = Sent(coalesced[s], event)
  BY DEF ChannelsTypeOK, Publish
<1>2. coalesced'[s] = coalesced[s] \/ ~Full(coalesced[s])
  OBVIOUS
<1>. QED BY <1>1, <1>2, SentLast, SentKeeps

LEMMA CoalesceSettles ==
    ASSUME BannerFits, UnderWay, CoalescerReads \/ CoalescerPublishes
    PROVE  UnderWay'
<1>1. /\ ChannelsTypeOK /\ "gui" \in Subscriber /\ "poller" \in Subscriber
      /\ "Shutdown" \in Event /\ "Shutdown" \notin Tier
  BY SubscriberAssumption DEF BannerFits, Event, Tier
<1>2. CountsDrops
  BY DEF CoalescerReads, CoalescerPublishes
<1>3. /\ UNCHANGED <<tier, poller_tier, up, window, announced, last_sent>>
      /\ ~dropped' => ~dropped /\ (coalesced' = coalesced \/ \A s \in Subscriber : ~Full(coalesced[s]))
  BY <1>2 DEF CountsDrops, gui, poller, supervised, closing
<1>4. CASE CoalescerReceives
  <2>1. /\ raw \in Seq(Event) /\ raw # <<>> /\ raw' = Tail(raw) /\ Head(raw) \in Event
        /\ coalescing
    BY <1>1, <1>4 DEF CoalescerReceives, ChannelsTypeOK
  <2>2. CASE Head(raw) \in Tier
    <3>1. pending_tier' = Head(raw) /\ coalesced' = coalesced /\ coalescing'
      BY <1>4, <2>1, <2>2 DEF CoalescerReceives, HoldBack
    <3>2. Settling'
      BY <1>3, <2>1, <2>2, <3>1, HeadOrTail DEF UnderWay, Settling, ComesTo
    <3>3. ShutdownIsUnderWay'
      BY <1>1, <1>3, <2>1, <2>2, <3>1, HeadOrTail DEF UnderWay, ShutdownIsUnderWay
    <3>. QED BY <3>2, <3>3 DEF UnderWay
  <2>3. CASE Head(raw) \notin Tier
    <3>1. Publish(Head(raw)) /\ pending_tier' = pending_tier /\ coalescing' = (Head(raw) # "Shutdown")
      BY <1>4, <2>3 DEF CoalescerReceives
    <3>2. \A t : EndsIn(raw, t) => EndsIn(raw', t)
      BY <2>1, <2>3, HeadOrTail DEF EndsIn
    <3>3. NoTier(raw) => NoTier(raw')
      BY <2>1, HeadOrTail
    <3>4. Settling'
      <4> SUFFICES ASSUME up, ~dropped'
                   PROVE  ComesTo("gui", tier, last_sent)' /\ ComesTo("poller", poller_tier, last_sent)'
        BY <1>3 DEF Settling
      <4>1. ComesTo("gui", tier, last_sent) /\ ComesTo("poller", poller_tier, last_sent)
        BY <1>3, <2>1 DEF UnderWay, Settling
      <4>. QED BY <1>1, <1>3, <2>1, <2>3, <3>1, <3>2, <3>3, <4>1, PublishLast DEF ComesTo
    <3>5. ShutdownIsUnderWay'
      <4> SUFFICES ASSUME announced \/ Head(raw) = "Shutdown", window, up, ~dropped'
                   PROVE  \/ Head(raw) # "Shutdown" /\ Contains(raw', "Shutdown")
                          \/ Contains(coalesced'["gui"], "Shutdown")
        BY <1>3, <3>1 DEF ShutdownIsUnderWay
      <4>1. CASE Head(raw) = "Shutdown"
        BY <1>1, <1>3, <2>1, <3>1, <4>1, PublishLast
      <4>2. CASE Head(raw) # "Shutdown"
        BY <1>1, <1>3, <2>1, <3>1, <4>2, HeadOrTail, PublishLast DEF UnderWay, ShutdownIsUnderWay
      <4>. QED BY <4>1, <4>2
    <3>. QED BY <3>4, <3>5 DEF UnderWay
  <2>. QED BY <2>2, <2>3
<1>5. CASE CoalescerLags
  <2>1. UNCHANGED <<raw, pending_tier, coalescing, coalesced>>
    BY <1>5 DEF CoalescerLags
  <2>. QED
    BY <1>3, <2>1 DEF UnderWay, Settling, ComesTo, ShutdownIsUnderWay
<1>6. CASE WindowElapses
  <2>1. /\ pending_tier \in Tier /\ pending_tier \in Event /\ pending_tier' = "none"
        /\ Publish(pending_tier) /\ UNCHANGED <<raw, coalescing>>
    BY <1>1, <1>6 DEF WindowElapses, ChannelsTypeOK, Event
  <2>2. Settling'
    <3> SUFFICES ASSUME up, coalescing, ~dropped'
                 PROVE  ComesTo("gui", tier, last_sent)' /\ ComesTo("poller", poller_tier, last_sent)'
      BY <1>3, <2>1 DEF Settling
    <3>1. ComesTo("gui", tier, last_sent) /\ ComesTo("poller", poller_tier, last_sent)
      BY <1>3 DEF UnderWay, Settling
    <3>2. "none" \notin Tier
      BY DEF Tier
    <3>. QED BY <1>1, <1>3, <2>1, <3>1, <3>2, PublishLast DEF ComesTo
  <2>3. ShutdownIsUnderWay'
    BY <1>1, <1>3, <2>1, PublishLast DEF UnderWay, ShutdownIsUnderWay
  <2>. QED BY <2>2, <2>3 DEF UnderWay
<1>. QED BY <1>4, <1>5, <1>6 DEF CoalescerReads, CoalescerPublishes

\* A frame's tier is that of the last tier it drained, or the one it had.
LEMMA LastOfAFrame ==
    ASSUME NEW events \in Seq(Event), NEW current \in Tier
    PROVE  /\ NoTier(events) => LastTier(events, current) = current
           /\ \A t : EndsIn(events, t) => LastTier(events, current) = t
<1> DEFINE tiers == {i \in 1..Len(events) : events[i] \in Tier}
<1>1. SelectLastInSeq(events, IsTier) = IF tiers # {} THEN Max(tiers) ELSE 0
  BY DEF SelectLastInSeq, IsTier
<1>2. NoTier(events) => LastTier(events, current) = current
  BY <1>1 DEF LastTier, NoTier
<1>3. ASSUME NEW t, EndsIn(events, t) PROVE LastTier(events, current) = t
  <2>1. PICK i \in 1..Len(events) :
            events[i] = t /\ \A j \in 1..Len(events) : i < j => events[j] \notin Tier
    BY <1>3 DEF EndsIn
  <2>2. i \in tiers /\ \A j \in tiers : j <= i
    BY <1>3, <2>1 DEF EndsIn
  <2>3. tiers \in SUBSET (1..Len(events)) /\ Len(events) \in Nat
    OBVIOUS
  <2>4. Max(tiers) \in tiers /\ Max(tiers) >= i
    BY <2>2, <2>3, GreatestIndex
  <2>5. Max(tiers) = i /\ i # 0
    BY <2>2, <2>3, <2>4
  <2>. QED BY <1>1, <2>1, <2>2, <2>5 DEF LastTier
<1>. QED BY <1>2, <1>3

LEMMA FrameSettles ==
    ASSUME BannerFits, UnderWay, Frame
    PROVE  UnderWay'
<1> DEFINE events == DrainedEvents
           current == IF Degrades THEN "Basic" ELSE tier
<1>1. /\ ChannelsTypeOK /\ "gui" \in Subscriber /\ "poller" \in Subscriber
      /\ "Basic" \in Event /\ "Basic" \in Tier /\ "Basic" # "Shutdown" /\ tier \in Tier
  BY SubscriberAssumption DEF BannerFits, Event, Tier
<1>2. UNCHANGED <<pending_tier, coalescing, poller_tier, up, announced>>
  BY DEF Frame, supervised, poller, closing
<1>3. /\ window /\ up /\ tier' = LastTier(events, current)
      /\ window' = ~Contains(events, "Shutdown")
  BY DEF Frame
<1>4. /\ coalesced'["poller"] = coalesced["poller"]
      /\ \/ events = coalesced["gui"] /\ coalesced'["gui"] = <<>>
         \/ events = <<>> /\ coalesced'["gui"] = coalesced["gui"]
  BY <1>1 DEF Frame, Drains, DrainedEvents, ChannelsTypeOK
<1>5. events \in Seq(Event) /\ current \in Tier /\ NoTier(<<>>)
  BY <1>1 DEF DrainedEvents, ChannelsTypeOK, NoTier
<1>6. CASE Degrades
  <2>1. Emits("Basic")
    BY <1>6 DEF Frame
  <2>2. Settling'
    <3>1. coalescing => EndsIn(raw', "Basic") /\ last_sent' = "Basic"
      BY <1>1, <2>1, EmitsLast
    <3>. QED BY <1>2, <3>1 DEF Settling, ComesTo
  <2>3. ShutdownIsUnderWay'
    <3> SUFFICES ASSUME announced \/ ~coalescing, window', ~dropped'
                 PROVE  \/ coalescing /\ Contains(raw', "Shutdown")
                        \/ Contains(coalesced'["gui"], "Shutdown")
      BY <1>2 DEF ShutdownIsUnderWay
    <3>1. ~dropped /\ (Contains(raw, "Shutdown") => Contains(raw', "Shutdown"))
      <4>1. CASE coalescing
        BY <1>1, <2>1, <4>1, EmitsLast
      <4>2. CASE ~coalescing
        BY <2>1, <4>2 DEF Emits, Send
      <4>. QED BY <4>1, <4>2
    <3>. QED BY <1>3, <1>4, <3>1 DEF UnderWay, ShutdownIsUnderWay
  <2>. QED BY <2>2, <2>3 DEF UnderWay
<1>7. CASE ~Degrades
  <2>1. UNCHANGED <<raw, dropped, last_sent>> /\ current = tier
    BY <1>7 DEF Frame, EmitsNothing, observers
  <2>2. Settling'
    <3>1. ComesTo("gui", tier, last_sent) => ComesTo("gui", tier, last_sent)'
      <4>1. CASE \/ EndsIn(raw, last_sent)
                 \/ NoTier(raw) /\ pending_tier = last_sent /\ last_sent \in Tier
        BY <1>2, <2>1, <4>1 DEF ComesTo
      <4>2. ASSUME NoTier(raw), pending_tier = "none", EndsIn(coalesced["gui"], last_sent)
            PROVE  ComesTo("gui", tier, last_sent)'
        BY <1>2, <1>3, <1>4, <1>5, <2>1, <4>2, LastOfAFrame DEF ComesTo
      <4>3. ASSUME NoTier(raw), pending_tier = "none", NoTier(coalesced["gui"]), tier = last_sent
            PROVE  ComesTo("gui", tier, last_sent)'
        BY <1>2, <1>3, <1>4, <1>5, <2>1, <4>3, LastOfAFrame DEF ComesTo
      <4>. QED
        <5> SUFFICES ASSUME ComesTo("gui", tier, last_sent) PROVE ComesTo("gui", tier, last_sent)'
          OBVIOUS
        <5>1. \/ EndsIn(raw, last_sent)
              \/ NoTier(raw) /\ pending_tier = last_sent /\ last_sent \in Tier
              \/ /\ NoTier(raw) /\ pending_tier = "none"
                 /\ EndsIn(coalesced["gui"], last_sent)
              \/ /\ NoTier(raw) /\ pending_tier = "none"
                 /\ NoTier(coalesced["gui"]) /\ tier = last_sent
          BY DEF ComesTo
        <5>. QED BY <5>1, <4>1, <4>2, <4>3
    <3>2. ComesTo("poller", poller_tier, last_sent) => ComesTo("poller", poller_tier, last_sent)'
      BY <1>2, <1>4, <2>1 DEF ComesTo
    <3>. QED BY <1>2, <2>1, <3>1, <3>2 DEF UnderWay, Settling
  <2>3. ShutdownIsUnderWay'
    BY <1>2, <1>3, <1>4, <2>1 DEF UnderWay, ShutdownIsUnderWay
  <2>. QED BY <2>2, <2>3 DEF UnderWay
<1>. QED BY <1>6, <1>7

LEMMA PollerSettles == ASSUME BannerFits, UnderWay, PollerReceives PROVE UnderWay'
<1> DEFINE queue == coalesced["poller"]
<1>1. ChannelsTypeOK /\ "gui" \in Subscriber /\ "poller" \in Subscriber
  BY SubscriberAssumption DEF BannerFits
<1>2. UNCHANGED <<raw, pending_tier, coalescing, tier, window, up, announced, dropped, last_sent>>
  BY DEF PollerReceives, supervised, gui, closing, observers
<1>3. /\ queue \in Seq(Event) /\ queue # <<>> /\ coalesced'["poller"] = Tail(queue)
      /\ coalesced'["gui"] = coalesced["gui"]
      /\ poller_tier' = IF Head(queue) \in Tier THEN Head(queue) ELSE poller_tier
  BY <1>1 DEF PollerReceives, Receive, ChannelsTypeOK
<1>4. ComesTo("poller", poller_tier, last_sent) => ComesTo("poller", poller_tier, last_sent)'
  BY <1>2, <1>3, HeadOrTail DEF ComesTo, EndsIn
<1>5. ComesTo("gui", tier, last_sent) => ComesTo("gui", tier, last_sent)'
  BY <1>2, <1>3 DEF ComesTo
<1>. QED
  BY <1>2, <1>3, <1>4, <1>5 DEF UnderWay, Settling, ShutdownIsUnderWay

\* A step that leaves the events, the tiers and the shutdown alone.
LEMMA NothingSettles ==
    ASSUME UnderWay, SendsNothing, UNCHANGED <<tier, poller_tier, announced>>,
           up' => up, window' => window
    PROVE  UnderWay'
  BY DEF UnderWay, Settling, ComesTo, ShutdownIsUnderWay, SendsNothing,
         channels, observers

LEMMA UnderWayStep == ASSUME BannerFits, UnderWay, [FullModeNext]_vars PROVE UnderWay'
<1>0. /\ "Full" \in Event /\ "Basic" \in Event /\ "Shutdown" \in Event /\ "Other" \in Event
  BY DEF Event, Tier
<1>1. CASE ProbePort
  BY <1>0, <1>1, SendsSettles, NothingSettles DEF ProbePort, supervised, poller, gui, closing
<1>2. CASE CoalescerReads \/ CoalescerPublishes
  BY <1>2, CoalesceSettles
<1>3. CASE PollerReceives
  BY <1>3, PollerSettles
<1>4. CASE PollerLags
  BY <1>4 DEF PollerLags, ReceiveLagged, supervised, poller, gui, closing, observers,
              UnderWay, Settling, ComesTo, ShutdownIsUnderWay
<1>5. CASE PollerCancelled
  BY <1>5 DEF PollerCancelled, supervised, channels, gui, closing, observers,
              UnderWay, Settling, ComesTo, ShutdownIsUnderWay
<1>6. CASE Frame
  BY <1>6, FrameSettles
<1>7. CASE Click
  BY <1>7, NothingSettles DEF Click, RequestLaunch, machine, flags, poller, gui, closing
<1>8. CASE PlatformEvent
  BY <1>0, <1>8, SendsSettles DEF PlatformEvent, supervised, poller, gui
<1>9. CASE CloseWindow
  BY <1>9, NothingSettles DEF CloseWindow, supervised, poller, closing
<1>10. CASE OnExit \/ CtrlC
  <2>1. RequestShutdown
    BY <1>10 DEF OnExit, CtrlC
  <2>. QED BY <2>1, NothingSettles DEF RequestShutdown, Cancel, poller, gui, closing
<1>11. CASE SendsShutdown
  BY <1>0, <1>11, SendsSettles DEF SendsShutdown, Announces, supervised, poller, gui
<1>12. CASE SupervisorPolls \/ UserAnswers
  <2>1. up' = up
    BY <1>12
    DEF SupervisorPolls, UserAnswers, Polls, Prompt, Assign, Wait, PollRequests, PickPort,
        PromptAccepted, PromptDeclined, JobAssigned, JobFails, ProbeAnswers, LaunchTimesOut,
        StoreLaunched, StoreAlive, StoreFailure, CheckLiveness, GoesOn, machine, flags
  <2>. QED BY <1>12, <2>1, NothingSettles DEF SupervisorPolls, UserAnswers, poller, gui, closing
<1>13. CASE SupervisorShutsDown
  <2>1. up /\ UNCHANGED <<up, tier, poller_tier, window, announced>>
    BY <1>13 DEF SupervisorShutsDown, ShutsDown, flags, poller, gui, closing
  <2>. QED BY <1>0, <1>13, <2>1, SendsSettles, NothingSettles DEF SupervisorShutsDown
<1>14. CASE MachineMoves
  <2>1. up' => up
    BY <1>14 DEF MachineMoves, Environment, ChildListens, ChildExits, OtherProgram, ProcessEnds
  <2>. QED BY <1>14, <2>1, NothingSettles DEF MachineMoves, poller, gui, closing
<1>15. CASE UNCHANGED vars
  BY <1>15 DEF vars, supervised, channels, poller, gui, closing, observers,
               UnderWay, Settling, ComesTo, ShutdownIsUnderWay
<1>. QED
  BY <1>1, <1>2, <1>3, <1>4, <1>5, <1>6, <1>7, <1>8, <1>9, <1>10, <1>11, <1>12, <1>13, <1>14, <1>15
  DEF FullModeNext

LEMMA UnderWayHolds == FullModeSpec => []UnderWay
<1>1. InitFullMode => UnderWay
  BY SubscriberAssumption
  DEF InitFullMode, InitSupervisor, InitChannels, UnderWay, Settling, ComesTo,
      NoTier, ShutdownIsUnderWay, Contains
<1>2. BannerFits /\ UnderWay /\ [FullModeNext]_vars => UnderWay'
  BY UnderWayStep
<1>. QED BY <1>1, <1>2, BannerFitsHolds, PTL DEF FullModeSpec

\* Whoever sent the last tier, in whatever order the GUI, the launch probe and
\* the supervisor send and the coalescer holds back: when no event is under way
\* the GUI and the poller are both in that tier, as long as the coalescer runs and
\* unless a full channel dropped one.
THEOREM AllSettle == FullModeSpec => []TiersSettle
<1>1. "gui" \in Subscriber /\ "poller" \in Subscriber /\ "none" \notin Tier
  BY SubscriberAssumption DEF Tier
<1>2. ASSUME UnderWay, up, coalescing, ~dropped, Drained
      PROVE  tier = last_sent /\ poller_tier = last_sent
  <2>1. \A t : ~EndsIn(<<>>, t)
    BY DEF EndsIn
  <2>2. ASSUME NEW s \in Subscriber, NEW current, ComesTo(s, current, last_sent)
        PROVE  current = last_sent
    BY <1>1, <1>2, <2>1, <2>2 DEF ComesTo, Drained
  <2>. QED BY <1>1, <1>2, <2>2 DEF UnderWay, Settling
<1>3. UnderWay => TiersSettle
  BY <1>2 DEF TiersSettle
<1>. QED BY <1>3, UnderWayHolds, PTL

\* From the first Shutdown on, that of a request or of the close hotkey, nothing
\* that is sent, held back or published takes one away from the GUI before the
\* window is closed, unless a full channel dropped one.
THEOREM ShutdownGetsThrough == FullModeSpec => []ShutdownIsUnderWay
<1>1. UnderWay => ShutdownIsUnderWay
  BY DEF UnderWay
<1>. QED BY <1>1, UnderWayHolds, PTL
-----------------------------------------------------------------------------
(* The types of the composition                                            *)

LEMMA ProbeOrderType == ProbeOrder \in Seq(Port)
<1> DEFINE others == IF ConfigPort \in PortRange THEN LastPort - 1 ELSE LastPort
           chain == [i \in 1..others |-> IF i < ConfigPort THEN i ELSE i + 1]
<1>1. others \in Nat
  BY PortAssumption DEF PortRange
<1>2. \A i \in 1..others : (IF i < ConfigPort THEN i ELSE i + 1) \in Port
  BY PortAssumption DEF Port, PortRange
<1>3. chain \in Seq(Port)
  <2> HIDE DEF others
  <2>. QED BY <1>1, <1>2
<1>4. <<ConfigPort>> \in Seq(Port)
  BY DEF Port
<1>. QED BY <1>3, <1>4 DEF ProbeOrder

\* The types of all but the supervisor and the channels, which have theirs.
OthersTypeOK ==
    /\ unprobed \in Seq(Port) /\ found \in Port \cup {NoPort}
    /\ poller_tier \in Tier /\ polling \in BOOLEAN
    /\ child_exit_degraded \in BOOLEAN
    /\ degraded_message \in {"none", "stopped", "no_sensors"}
    /\ shown_message \in Message \cup {"none"}
    /\ window \in BOOLEAN /\ polled \in 0..MaxPolled /\ announced \in BOOLEAN
    /\ dropped \in BOOLEAN /\ last_sent \in Tier

LEMMA EmitsType ==
    ASSUME OthersTypeOK, NEW event \in Event, Emits(event)
    PROVE  dropped' \in BOOLEAN /\ last_sent' \in Tier
  BY DEF OthersTypeOK, Emits

LEMMA FrameType ==
    ASSUME OthersTypeOK, SupervisorTypeOK, Frame
    PROVE  OthersTypeOK'
<1>1. dropped' \in BOOLEAN /\ last_sent' \in Tier
  BY EmitsType DEF Frame, EmitsNothing, observers, OthersTypeOK, Event, Tier
<1>2. child_exit_degraded' \in BOOLEAN
  BY DEF Frame, Rearmed, Degrades, OthersTypeOK
<1>3. degraded_message' \in {"none", "stopped", "no_sensors"}
  <2>1. PICK banner \in IF Degrades THEN {"stopped"} ELSE AfterReadings :
            degraded_message' = Cleared(DrainedEvents, banner)
    BY DEF Frame
  <2>. QED BY <2>1 DEF Cleared, AfterReadings, OthersTypeOK
<1>4. shown_message' \in Message \cup {"none"}
  BY DEF Frame, SupervisorTypeOK
<1>5. window' \in BOOLEAN
  BY DEF Frame
<1>6. UNCHANGED <<unprobed, found, poller_tier, polling, polled, announced>>
  BY DEF Frame, probe, poller, closing
<1>. QED BY <1>1, <1>2, <1>3, <1>4, <1>5, <1>6 DEF OthersTypeOK

LEMMA OthersTypeStep ==
    ASSUME SupervisorTypeOK, BannerFits, OthersTypeOK, [FullModeNext]_vars
    PROVE  OthersTypeOK'
<1>0. "Full" \in Event /\ "Basic" \in Event /\ "Shutdown" \in Event /\ "Other" \in Event
  BY DEF Event, Tier
<1>1. ASSUME NEW event \in Event, Sends(event) PROVE dropped' \in BOOLEAN /\ last_sent' \in Tier
  BY <1>1, EmitsType DEF Sends
<1>2. SendsNothing => dropped' = dropped /\ last_sent' = last_sent
  BY DEF SendsNothing, observers
<1>3. CASE ProbePort
  <2>1. Head(unprobed) \in Port /\ Tail(unprobed) \in Seq(Port)
    BY <1>3 DEF ProbePort, OthersTypeOK
  <2>2. <<>> \in Seq(Port)
    OBVIOUS
  <2>3. found' \in Port \cup {NoPort} /\ unprobed' \in Seq(Port)
    BY <1>3, <2>1, <2>2 DEF ProbePort, OthersTypeOK
  <2>4. dropped' \in BOOLEAN /\ last_sent' \in Tier
    BY <1>0, <1>1, <1>2, <1>3 DEF ProbePort, OthersTypeOK
  <2>. QED BY <1>3, <2>3, <2>4 DEF ProbePort, poller, gui, closing, OthersTypeOK
<1>4. CASE CoalescerReads \/ CoalescerPublishes
  BY <1>4 DEF CoalescerReads, CoalescerPublishes, CountsDrops, probe, poller, gui, closing, OthersTypeOK
<1>5. CASE PollerReceives \/ PollerLags \/ PollerCancelled
  BY <1>5 DEF PollerReceives, PollerLags, PollerCancelled, probe, poller, gui, closing, observers,
              OthersTypeOK
<1>6. CASE Frame
  BY <1>6, FrameType
<1>7. CASE Click \/ SupervisorPolls \/ UserAnswers \/ MachineMoves
  BY <1>2, <1>7 DEF Click, SupervisorPolls, UserAnswers, MachineMoves, probe, poller, gui, closing,
                    OthersTypeOK
<1>8. CASE CloseWindow \/ OnExit \/ CtrlC
  BY <1>2, <1>8 DEF CloseWindow, OnExit, CtrlC, RequestShutdown, probe, poller, gui, closing,
                    OthersTypeOK
<1>9. CASE PlatformEvent \/ SendsShutdown \/ SupervisorShutsDown
  <2>1. dropped' \in BOOLEAN /\ last_sent' \in Tier
    BY <1>0, <1>1, <1>2, <1>9
    DEF PlatformEvent, SendsShutdown, Announces, SupervisorShutsDown, OthersTypeOK
  <2>2. polled' \in 0..MaxPolled
    <3>1. CASE PlatformEvent
      <4>1. polled \in 0..MaxPolled /\ polled < MaxPolled /\ polled' = polled + 1
        BY <3>1 DEF PlatformEvent, OthersTypeOK
      <4>. QED BY <4>1, PolledAssumption
    <3>2. CASE SendsShutdown \/ SupervisorShutsDown
      BY <3>2 DEF SendsShutdown, Announces, SupervisorShutsDown, closing, OthersTypeOK
    <3>. QED BY <1>9, <3>1, <3>2
  <2>3. announced' \in BOOLEAN
    <3>1. CASE PlatformEvent \/ SupervisorShutsDown
      BY <3>1 DEF PlatformEvent, SupervisorShutsDown, closing, OthersTypeOK
    <3>2. CASE SendsShutdown
      BY <3>2 DEF SendsShutdown, Announces
    <3>. QED BY <1>9, <3>1, <3>2
  <2>. QED BY <1>9, <2>1, <2>2, <2>3
           DEF PlatformEvent, SendsShutdown, Announces, SupervisorShutsDown, probe, poller, gui,
               OthersTypeOK
<1>10. CASE UNCHANGED vars
  BY <1>10 DEF vars, probe, poller, gui, closing, observers, OthersTypeOK
<1>. QED
  BY <1>3, <1>4, <1>5, <1>6, <1>7, <1>8, <1>9, <1>10 DEF FullModeNext

\* The composed system only holds well-formed values, and an event in a channel
\* is one of the program's.
THEOREM FullModeTypeCorrect == FullModeSpec => []FullModeTypeOK
<1>1. InitFullMode => OthersTypeOK
  <2>1. ASSUME InitFullMode PROVE polled \in 0..MaxPolled
    <3>1. polled = 0
      BY <2>1 DEF InitFullMode
    <3>. QED BY <3>1, PolledAssumption
  <2>2. ASSUME InitFullMode PROVE unprobed \in Seq(Port) /\ found \in Port \cup {NoPort}
    BY <2>2, ProbeOrderType DEF InitFullMode
  <2>3. ASSUME InitFullMode PROVE /\ {tier, poller_tier, last_sent} \subseteq Tier
                                  /\ degraded_message = "none" /\ shown_message = "none"
    BY <2>3 DEF InitFullMode, Tier
  <2>4. ASSUME InitFullMode PROVE /\ polling \in BOOLEAN /\ child_exit_degraded \in BOOLEAN
                                  /\ window \in BOOLEAN /\ announced \in BOOLEAN
                                  /\ dropped \in BOOLEAN
    BY <2>4 DEF InitFullMode
  <2>. QED BY <2>1, <2>2, <2>3, <2>4 DEF OthersTypeOK
<1>2. SupervisorTypeOK /\ BannerFits /\ OthersTypeOK /\ [FullModeNext]_vars => OthersTypeOK'
  BY OthersTypeStep
<1>3. SupervisorTypeOK /\ BannerFits /\ OthersTypeOK => FullModeTypeOK
  BY DEF OthersTypeOK, BannerFits, FullModeTypeOK
<1>. QED BY <1>1, <1>2, <1>3, BannerFitsHolds, FullModeImplementsSupervisor,
            SupervisorTypeCorrect, PTL DEF FullModeSpec
=============================================================================
