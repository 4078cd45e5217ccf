------------------------------- MODULE Alerts -------------------------------
(***************************************************************************)
(* The alerts of the sidebar's rows: the thresholds with their hysteresis  *)
(* (sidebar-domain/src/alert.rs, gui/alert_indicator.rs), the buttons that *)
(* acknowledge an alert or snooze it for five minutes (gui/mod.rs), the    *)
(* sliders that move the thresholds (gui/settings_panel.rs) and acks.toml, *)
(* which keeps what was acknowledged over a restart (gui/acks_store.rs).   *)
(*                                                                         *)
(* Rows share nothing but the file, which is written whole, so the module  *)
(* follows one: either a temperature, whose last state is remembered, or   *)
(* the rate of an adapter in bytes a second, whose last state is not.  The *)
(* GPU's temperature has sliders and a row like the CPU's, and the rate    *)
(* sent has a threshold like the one received.                             *)
(***************************************************************************)
EXTENDS Integers

CONSTANTS
    Temperatures,   \* readings of the temperature, in degrees
    Rates,          \* readings of the rate, in bytes a second
    Mbps,           \* thresholds of the rate; 0 is none
    Marks,          \* positions the user moves a slider to
    MaxNow,         \* bound: seconds
    MaxSaveFaults,  \* bound: saves of acks.toml that fail
    MaxStarts       \* bound: starts of the program after the first

ASSUME AlertsAssumption ==
    /\ Temperatures \subseteq Nat /\ Rates \subseteq Nat
    /\ Mbps \subseteq Nat /\ Marks \subseteq 40..110
    /\ MaxNow \in Nat /\ MaxSaveFaults \in Nat /\ MaxStarts \in Nat

VARIABLES
    row,            \* "temperature" or "rate"
    latest,         \* its reading, NaN or Gone
    remembered,     \* its entry in alert_states; Normal is also that there is none
    ack,            \* its entry in alert_acks
    stored,         \* its line in acks.toml
    shownAs,        \* how the last frame drew it; "none" since anything else happened
    open,           \* is the settings panel open?  It takes the place of the rows.
    thresholds,
    now,            \* the clock, in seconds
    asked,          \* what the user asked for, until the reading has recovered
    unsaved,        \* has a save failed since the start?
    saveFaults, starts

alertVars == <<row, latest, remembered, ack, stored, shownAs, open, thresholds, now, asked, unsaved,
               saveFaults, starts>>

NaN == -1
Gone == -2
Readable == IF row = "temperature" THEN Temperatures ELSE Rates
States == {"Normal", "Warning", "Critical"}

\* An Option<AlertAck>; the time is 0 unless it is a snooze.
NoAck == [kind |-> "none", until |-> 0]
Acknowledged == [kind |-> "acknowledged", until |-> 0]
Snoozed(until) == [kind |-> "snoozed", until |-> until]

HYSTERESIS_C == 5
THRESHOLD_GAP == 5
SnoozeTime == 300

AlertsInit ==
    /\ row \in {"temperature", "rate"}
    /\ latest = Gone /\ remembered = "Normal" /\ shownAs = "none"
    /\ ack = NoAck /\ stored = NoAck /\ asked = NoAck
    /\ open = FALSE /\ unsaved = FALSE
    /\ \E mbps \in Mbps : thresholds = [warn |-> 80, critical |-> 95, mbps |-> mbps]
    /\ now = 0 /\ saveFaults = 0 /\ starts = 0

NothingShown == shownAs' = "none"

-----------------------------------------------------------------------------
(* The state of a row.                                                     *)

check_threshold(value, warn, critical, previous) ==
    IF value = NaN THEN "Normal"
    ELSE IF value >= critical \/ (previous = "Critical" /\ value >= critical - HYSTERESIS_C)
    THEN "Critical"
    ELSE IF value >= warn \/ (previous # "Normal" /\ value >= warn - HYSTERESIS_C)
    THEN "Warning"
    ELSE "Normal"

classify ==
    IF row = "temperature"
    THEN check_threshold(latest, thresholds.warn, thresholds.critical, remembered)
    ELSE LET warn == thresholds.mbps * 125000
         IN  IF warn = 0 THEN "Normal" ELSE check_threshold(latest, warn, warn + 1, "Normal")

ack_should_clear(raw) ==
    \/ ack.kind = "snoozed" /\ now >= ack.until
    \/ ack.kind = "acknowledged" /\ raw = "Normal"

displayed_state(raw, left) ==
    IF left.kind = "acknowledged" \/ (left.kind = "snoozed" /\ now < left.until)
    THEN "Normal" ELSE raw

-----------------------------------------------------------------------------
(* A frame that draws the row.                                             *)

Drawable == latest # Gone /\ ~open

\* What a frame leaves of the ack.
Left == IF ack_should_clear(classify) THEN NoAck ELSE ack

\* What the user may press on a row that is drawn as an alert.
Buttons(displayed) ==
    IF displayed \in {"Warning", "Critical"}
    THEN {Acknowledged, Snoozed(now + SnoozeTime)} ELSE {}

\* A comparison of the number of acks.
AcksChangedInNumber(before, after) == (before = NoAck) # (after = NoAck)

\* The map is saved if it is not what it was before the frame.
AcksChanged(before, after) == before # after

save_acks(before, after) ==
    IF ~AcksChanged(before, after)
    THEN UNCHANGED <<stored, unsaved, saveFaults>>
    ELSE \/ stored' = after /\ UNCHANGED <<unsaved, saveFaults>>
         \/ /\ saveFaults < MaxSaveFaults /\ saveFaults' = saveFaults + 1
            /\ unsaved' = TRUE /\ UNCHANGED stored

\* alert_states gets the state before acks, and of a temperature only.
Remembers(displayed) == IF row = "temperature" THEN classify ELSE remembered

\* The reading has left the band below the warning, so the alert is over.
Recovered ==
    \/ latest = NaN
    \/ row = "temperature" /\ latest < thresholds.warn - HYSTERESIS_C
    \/ row = "rate" /\ (latest < thresholds.mbps * 125000 \/ thresholds.mbps = 0)

StillAsked ==
    IF \/ asked.kind = "snoozed" /\ now >= asked.until
       \/ asked.kind \in {"acknowledged", "restarted"} /\ Recovered
    THEN NoAck ELSE asked

DrawRow ==
    LET displayed == displayed_state(classify, Left)
    IN  /\ Drawable
        /\ remembered' = Remembers(displayed)
        /\ shownAs' = displayed
        /\ \/ ack' = Left /\ asked' = StillAsked
           \/ ack' \in Buttons(displayed) /\ asked' = ack'
        /\ save_acks(ack, ack')
        /\ UNCHANGED <<row, latest, open, thresholds, now, starts>>

-----------------------------------------------------------------------------
(* What happens between frames.                                            *)

Report ==
    /\ latest' \in Readable \cup {NaN, Gone}
    /\ NothingShown
    /\ UNCHANGED <<row, remembered, ack, stored, open, thresholds, now, asked, unsaved,
                   saveFaults, starts>>

ClockRuns ==
    /\ now + SnoozeTime \div 2 <= MaxNow /\ now' = now + SnoozeTime \div 2
    /\ NothingShown
    /\ UNCHANGED <<row, latest, remembered, ack, stored, open, thresholds, asked, unsaved,
                   saveFaults, starts>>

\* The gear, or the button of an alert that opens the settings
TogglePanel ==
    /\ open' = ~open /\ NothingShown
    /\ UNCHANGED <<row, latest, remembered, ack, stored, thresholds, now, asked, unsaved,
                   saveFaults, starts>>

\* Sliders that leave no gap.
AnywhereUpTo(critical) == 110

warn_slider_max(critical) ==
    IF critical - THRESHOLD_GAP > 40 THEN critical - THRESHOLD_GAP ELSE 40

critical_slider_min(warn) ==
    IF warn + THRESHOLD_GAP < 110 THEN warn + THRESHOLD_GAP ELSE 110

MoveSlider ==
    /\ open /\ NothingShown
    /\ \/ \E mark \in Marks \cap 40..warn_slider_max(thresholds.critical) :
            thresholds' = [thresholds EXCEPT !.warn = mark]
       \/ \E mark \in Marks \cap critical_slider_min(thresholds.warn)..110 :
            thresholds' = [thresholds EXCEPT !.critical = mark]
       \/ \E mbps \in Mbps : thresholds' = [thresholds EXCEPT !.mbps = mbps]
    /\ UNCHANGED <<row, latest, remembered, ack, stored, open, now, asked, unsaved,
                   saveFaults, starts>>

load_acks == IF stored.kind = "snoozed" /\ stored.until <= now THEN NoAck ELSE stored

\* The program ends and is started again.
Restart ==
    /\ starts < MaxStarts /\ starts' = starts + 1
    /\ ack' = load_acks
    /\ remembered' = "Normal" /\ latest' = Gone /\ open' = FALSE /\ NothingShown
    /\ asked' = IF asked.kind = "acknowledged"
                THEN [kind |-> "restarted", until |-> 0] ELSE asked
    /\ UNCHANGED <<row, stored, thresholds, now, unsaved, saveFaults>>

AlertsNext == DrawRow \/ Report \/ ClockRuns \/ TogglePanel \/ MoveSlider \/ Restart

AlertsSpec == AlertsInit /\ [][AlertsNext]_alertVars

-----------------------------------------------------------------------------
(* What must hold.                                                         *)

Acks == {NoAck, Acknowledged} \cup {Snoozed(t) : t \in SnoozeTime..now + SnoozeTime}

AlertsTypeOK ==
    /\ latest \in Temperatures \cup Rates \cup {NaN, Gone}
    /\ remembered \in {"Normal", "Warning", "Critical"}
    /\ row = "rate" => remembered = "Normal"
    /\ ack \in Acks /\ stored \in Acks
    /\ shownAs \in {"none", "Normal", "Warning", "Critical"}
    /\ open \in BOOLEAN /\ unsaved \in BOOLEAN
    /\ thresholds \in [warn : 40..110, critical : 40..110, mbps : Mbps]
    /\ now \in 0..MaxNow /\ saveFaults \in 0..MaxSaveFaults /\ starts \in 0..MaxStarts

\* How a reading may be drawn, whatever went before.
AtLeast ==
    LET warn == IF row = "temperature" THEN thresholds.warn ELSE thresholds.mbps * 125000
        critical == IF row = "temperature" THEN thresholds.critical ELSE warn + 1
    IN  IF warn = 0 \/ latest < warn THEN {"Normal", "Warning", "Critical"}
        ELSE IF latest >= critical THEN {"Critical"} ELSE {"Warning", "Critical"}

\* A reading that is over a threshold is drawn as an alert, unless the user has
\* said otherwise of this very alert: after a recovery, after the five minutes
\* and after a restart nothing old keeps a new alert quiet.
AlarmsAreShown ==
    [][StillAsked = NoAck /\ ~unsaved => shownAs' \in AtLeast \cup {"none"}]_alertVars

\* An alert that the user has acknowledged stays quiet until the reading has gone
\* through the band below the warning, and one that was snoozed stays quiet for
\* the five minutes, also when the program is restarted meanwhile.
QuietIsKept ==
    [][~unsaved /\ (asked.kind = "acknowledged" \/ (asked.kind = "snoozed" /\ now < asked.until))
        => shownAs' \in {"none", "Normal"}]_alertVars

\* AlertAck::Acknowledged, while the settings take the place of the rows: an ack
\* has ended when a reading that had recovered is too high again.
AckEndsAtRecovery ==
    [][/\ open /\ latest \in 0..thresholds.warn - HYSTERESIS_C - 1
       /\ latest' >= thresholds.warn
       => ack.kind # "acknowledged" \/ row = "rate"]_alertVars

\* AlertAck::Acknowledged, over a restart: the ack lasts until the reading recovers.
AckLastsUntilRecovery ==
    [][asked.kind = "restarted" /\ ~unsaved => shownAs' \in {"none", "Normal"}]_alertVars

\* classify: "crit is set just above warn so only Warning fires"
BandwidthOnlyWarns == row = "rate" => shownAs # "Critical"
=============================================================================
