---------------------------- MODULE EventChannel ----------------------------
(***************************************************************************)
(* The event channel between the emitters of UI events and their           *)
(* subscribers, crates/sidebar-app/src/event_channel.rs: two tokio         *)
(* broadcast channels with the coalescer task between them.  The coalescer *)
(* holds back the latest TierChanged until its window of 500 ms elapses    *)
(* and forwards every other event at once.                                 *)
(*                                                                         *)
(* There is no clock: the window may elapse at any time, which allows      *)
(* every order the real one does.  The module has no behaviour of its own; *)
(* the modules that extend it send, and receive what is published.         *)
(* As in Billing, a definition headed "Mutant" is a plausible bug.         *)
(***************************************************************************)
EXTENDS Naturals, Sequences

CONSTANTS
    CHANNEL_CAPACITY,   \* T-14
    Subscriber          \* who receives the coalesced events

ASSUME CapacityAssumption == CHANNEL_CAPACITY \in Nat \ {0}

VARIABLES
    raw, raw_lagged,    \* sent and not yet read by the coalescer; has it lost any?
    pending_tier,       \* the TierChanged it holds back, or "none"
    coalescing,         \* is the task running?
    coalesced, lagged   \* per subscriber: published and not yet received; any lost?

channels == <<raw, raw_lagged, pending_tier, coalescing, coalesced, lagged>>

Tier == {"Basic", "Full"}
Event == Tier \cup {"Shutdown", "Other"}

ChannelsTypeOK ==
    /\ raw \in Seq(Event)
    /\ raw_lagged \in BOOLEAN
    /\ pending_tier \in Tier \cup {"none"}
    /\ coalescing \in BOOLEAN
    /\ coalesced \in [Subscriber -> Seq(Event)]
    /\ lagged \in [Subscriber -> BOOLEAN]

InitChannels ==
    /\ raw = <<>>
    /\ raw_lagged = FALSE
    /\ pending_tier = "none"
    /\ coalescing = TRUE
    /\ coalesced = [s \in Subscriber |-> <<>>]
    /\ lagged = [s \in Subscriber |-> FALSE]

\* broadcast::Sender::send: a full channel drops its oldest event, and the
\* receiver is told so by its next recv.
Full(queue) == Len(queue) = CHANNEL_CAPACITY
Sent(queue, event) == Append(IF Full(queue) THEN Tail(queue) ELSE queue, event)

\* Once the coalescer has returned, the raw channel has no receiver.
Send(event) ==
    IF coalescing
    THEN raw' = Sent(raw, event) /\ raw_lagged' = (raw_lagged \/ Full(raw))
    ELSE UNCHANGED <<raw, raw_lagged>>

Publish(event) ==
    /\ coalesced' = [s \in Subscriber |-> Sent(coalesced[s], event)]
    /\ lagged' = [s \in Subscriber |-> lagged[s] \/ Full(coalesced[s])]

\* Mutant: the first tier of a window wins.
HoldBackFirst(event) == IF pending_tier = "none" THEN event ELSE pending_tier

\* The latest tier of a window replaces the one held back.
HoldBack(event) == event

\* A TierChanged replaces the one held back.  Shutdown ends the task, and what
\* it holds back with it.
CoalescerReceives ==
    /\ coalescing
    /\ ~raw_lagged
    /\ raw # <<>>
    /\ raw' = Tail(raw)
    /\ IF Head(raw) \in Tier
       THEN /\ pending_tier' = HoldBack(Head(raw))
            /\ UNCHANGED <<coalescing, coalesced, lagged>>
       ELSE /\ Publish(Head(raw))
            /\ coalescing' = (Head(raw) # "Shutdown")
            /\ UNCHANGED pending_tier
    /\ UNCHANGED raw_lagged

CoalescerLags ==
    /\ coalescing
    /\ raw_lagged
    /\ raw_lagged' = FALSE
    /\ UNCHANGED <<raw, pending_tier, coalescing, coalesced, lagged>>

WindowElapses ==
    /\ coalescing
    /\ pending_tier # "none"
    /\ Publish(pending_tier)
    /\ pending_tier' = "none"
    /\ UNCHANGED <<raw, raw_lagged, coalescing>>

Coalescer == CoalescerReceives \/ CoalescerLags \/ WindowElapses

\* A recv of the subscriber that finds it lagged, and one that does not.
ReceiveLagged(s) ==
    /\ lagged[s]
    /\ lagged' = [lagged EXCEPT ![s] = FALSE]
    /\ UNCHANGED coalesced

Receive(s) ==
    /\ ~lagged[s]
    /\ coalesced[s] # <<>>
    /\ coalesced' = [coalesced EXCEPT ![s] = Tail(@)]
    /\ UNCHANGED lagged

\* Nothing is on its way to any subscriber.
Drained ==
    /\ raw = <<>>
    /\ pending_tier = "none"
    /\ \A s \in Subscriber : coalesced[s] = <<>>
=============================================================================
