------------------------------ MODULE Hotkeys -------------------------------
(***************************************************************************)
(* The global hotkeys: configure_platform and PlatformRuntime in           *)
(* sidebar-app/src/gui/mod.rs, and sidebar-platform/src/hotkey.rs.         *)
(*                                                                         *)
(* Windows posts WM_HOTKEY to the thread that registered the combination,  *)
(* so a thread of its own registers them and waits for messages.  It sends *)
(* what was pressed to the GUI through a channel that every frame drains,  *)
(* and ends when the GUI posts WM_QUIT to it on exit.  The GUI waits for   *)
(* that without a limit.                                                   *)
(***************************************************************************)
EXTENDS Naturals, Sequences, SequencesExt, FiniteSets, FiniteSetsExt

CONSTANTS
    Bindable,       \* the hotkeys that a configuration binds; the rest are blank
    Spellings,      \* what they are bound to: sequences of tokens
    MaxPresses,     \* bound: keys pressed by the user
    MaxRefusals     \* bound: failed changes of the window's style

VARIABLES
    bindings,       \* HotkeyConfig, split into tokens
    specs,          \* the combinations of the hotkeys given to the thread, by id
    taken,          \* combinations that another program has registered
    thread,         \* what the hotkey thread does next
    registered,     \* the id it has tried last
    owned,          \* the combinations it has, and the id of each
    hasQueue,       \* does it have a message queue?
    messages,       \* that queue
    forwarded,      \* the channel to the GUI
    window,         \* "starts", "waits", "open", "closes", "exits", "joins" or "gone"
    clickThrough,   \* PlatformRuntime::click_through
    transparent,    \* the style of the window
    unrefreshed,    \* did the last change of the style fail in its second call?
    dispatched,     \* the hotkeys that the GUI has handled
    presses,        \* the combinations pressed while the thread had them
    refusals

hotkeyVars == <<bindings, specs, taken, thread, registered, owned, hasQueue, messages, forwarded,
                window, clickThrough, transparent, unrefreshed, dispatched, presses, refusals>>

keys == <<bindings, specs, taken>>
style == <<clickThrough, transparent, unrefreshed, refusals>>

\* HotkeyKind::all, in declared order
HotkeyKind == <<"click_through", "toggle_visibility", "show", "hide", "cycle_edge",
                "cycle_screen", "reload", "toggle_reserve_space", "close">>

ASSUME HotkeysAssumption ==
    /\ Bindable \subseteq ToSet(HotkeyKind)
    /\ MaxPresses \in Nat /\ MaxRefusals \in Nat

-----------------------------------------------------------------------------
(* HotkeyCombo::parse, on the tokens between the plus signs.               *)

Modifiers == {"ctrl", "shift", "alt", "win"}
Keys == {"s", "f1"}
NoCombo == [modifiers |-> {}, key |-> "none"]

\* A modifier that is repeated is read as a key, which it is not; a second key is
\* an error as well.
parse(tokens) ==
    LET rest == {n \in DOMAIN tokens :
                    \/ tokens[n] \notin Modifiers
                    \/ \E before \in 1 .. n - 1 : tokens[before] = tokens[n]}
        key == {k \in Keys : \E n \in rest : rest = {n} /\ tokens[n] = k}
    IN  [modifiers |-> Modifiers \cap ToSet(tokens),
         key |-> IF rest = {} THEN "none" ELSE IF key = {} THEN "junk" ELSE CHOOSE k \in key : TRUE]

IsCombo(combo) == combo.key \in Keys /\ combo.modifiers # {}

combo_of(kind) == parse(bindings[kind])

\* The ids of the hotkeys to register.  HotkeyKind::id is the place of a hotkey
\* among all, so that the declared order is that of the ids.
bound_kinds == {id \in DOMAIN HotkeyKind : IsCombo(combo_of(HotkeyKind[id]))}

kind_of(id) == HotkeyKind[id]

Hotkey(id) == [message |-> "WM_HOTKEY", id |-> id]
Quit == [message |-> "WM_QUIT", id |-> 0]

-----------------------------------------------------------------------------
(* The hotkey thread.                                                      *)

HotkeysInit ==
    /\ \E bound \in [Bindable -> Spellings \cup {<<>>}] :
        bindings = [kind \in ToSet(HotkeyKind) |->
                        IF kind \in Bindable THEN bound[kind] ELSE <<>>]
    /\ taken \in {{}} \cup {{c} : c \in {combo_of(kind) : kind \in Bindable} \ {NoCombo}}
    /\ specs = <<>> /\ thread = "none" /\ registered = 0 /\ owned = <<>>
    /\ hasQueue = FALSE /\ messages = <<>> /\ forwarded = <<>>
    /\ window = "starts"
    /\ clickThrough = FALSE /\ transparent = FALSE /\ unrefreshed = FALSE
    /\ dispatched = <<>> /\ presses = <<>> /\ refusals = 0

\* The thread without a call that makes it a queue.
MakesNoQueue ==
    /\ thread = "probes"
    /\ thread' = "tells"
    /\ UNCHANGED <<keys, registered, owned, hasQueue, messages, forwarded, window, style,
                   dispatched, presses>>

\* PeekMessageW makes the thread's queue.
MakesQueue ==
    /\ thread = "probes"
    /\ thread' = "tells" /\ hasQueue' = TRUE
    /\ UNCHANGED <<keys, registered, owned, messages, forwarded, window, style,
                   dispatched, presses>>

\* The thread sends its id; the GUI, which waits for it, goes on.
TellsId ==
    /\ thread = "tells" /\ window = "waits"
    /\ thread' = "registers" /\ window' = "open"
    /\ UNCHANGED <<keys, registered, owned, hasQueue, messages, forwarded, style,
                   dispatched, presses>>

Untried == {id \in DOMAIN specs : id > registered}
NextSpec == Min(Untried)

\* Windows knows the next hotkey by this number from now on.
RegistersAs(number) ==
    /\ thread = "registers" /\ Untried # {}
    /\ registered' = NextSpec
    /\ LET combo == specs[NextSpec]
       IN  owned' = IF combo \in taken \cup DOMAIN owned THEN owned
                    ELSE [c \in DOMAIN owned \cup {combo} |-> IF c = combo THEN number ELSE owned[c]]
    /\ UNCHANGED <<keys, thread, hasQueue, messages, forwarded, window, style,
                   dispatched, presses>>

\* Mutant: the number is the place among those that are bound.
RegisterByPlace == RegistersAs(Cardinality({id \in DOMAIN specs : id <= NextSpec}))

\* RegisterHotKey refuses a combination that any thread has, this one included.
RegisterHotKey == RegistersAs(NextSpec)

\* With nothing registered there is nothing to wait for.
EndsRegistering ==
    /\ thread = "registers" /\ Untried = {}
    /\ thread' = IF DOMAIN owned = {} THEN "returned" ELSE "pumps"
    /\ hasQueue' = (DOMAIN owned # {})
    /\ UNCHANGED <<keys, registered, owned, messages, forwarded, window, style,
                   dispatched, presses>>

GetMessage ==
    /\ thread = "pumps" /\ messages # <<>>
    /\ messages' = Tail(messages)
    /\ LET message == Head(messages)
       IN  IF message = Quit
           THEN thread' = "unregisters" /\ UNCHANGED forwarded
           ELSE forwarded' = Append(forwarded, kind_of(message.id)) /\ UNCHANGED thread
    /\ UNCHANGED <<keys, registered, owned, hasQueue, window, style, dispatched, presses>>

UnregisterHotKeys ==
    /\ thread = "unregisters"
    /\ thread' = "returned" /\ owned' = <<>> /\ hasQueue' = FALSE
    /\ UNCHANGED <<keys, registered, messages, forwarded, window, style, dispatched, presses>>

HotkeyThread ==
    MakesQueue \/ TellsId \/ RegisterHotKey \/ EndsRegistering \/ GetMessage \/ UnregisterHotKeys

-----------------------------------------------------------------------------
(* Windows and the user.                                                   *)

Press ==
    /\ Len(presses) < MaxPresses
    /\ \E combo \in DOMAIN owned :
        /\ presses' = Append(presses, combo)
        /\ messages' = Append(messages, Hotkey(owned[combo]))
    /\ UNCHANGED <<keys, thread, registered, owned, hasQueue, forwarded, window, style,
                   dispatched>>

-----------------------------------------------------------------------------
(* The GUI thread.                                                         *)

configure_platform ==
    /\ window = "starts"
    /\ specs' = [id \in bound_kinds |-> combo_of(HotkeyKind[id])]
    /\ IF bound_kinds = {}
       THEN window' = "open" /\ UNCHANGED thread
       ELSE window' = "waits" /\ thread' = "probes"
    /\ UNCHANGED <<bindings, taken, registered, owned, hasQueue, messages, forwarded, style,
                   dispatched, presses>>

\* hotkey::set_click_through: the style is set, and then the frame refreshed.
Sets(on) ==
    \/ transparent' = on /\ unrefreshed' = FALSE /\ UNCHANGED refusals
    \/ /\ refusals < MaxRefusals /\ refusals' = refusals + 1
       /\ \/ transparent' = on /\ unrefreshed' = TRUE
          \/ UNCHANGED <<transparent, unrefreshed>>

\* Err of either call
Refused == refusals' # refusals

\* PlatformRuntime::poll takes one hotkey from the channel; the flag follows a
\* change of the style that succeeded.
Poll ==
    /\ window \in {"open", "closes"} /\ forwarded # <<>>
    /\ LET kind == Head(forwarded)
       IN  /\ forwarded' = Tail(forwarded)
           /\ dispatched' = Append(dispatched, kind)
           /\ window' = IF kind = "close" THEN "closes" ELSE window
           /\ IF kind = "click_through"
              THEN /\ Sets(~clickThrough)
                   /\ clickThrough' = IF Refused THEN clickThrough ELSE ~clickThrough
              ELSE UNCHANGED style
    /\ UNCHANGED <<keys, thread, registered, owned, hasQueue, messages, presses>>

UserCloses ==
    /\ window = "open"
    /\ window' = "closes"
    /\ UNCHANGED <<keys, thread, registered, owned, hasQueue, messages, forwarded, style,
                   dispatched, presses>>

\* The last frame has drained the channel.  What the thread sends from now on is
\* dropped with the channel.
LastFrame ==
    /\ window = "closes" /\ forwarded = <<>>
    /\ window' = "exits"
    /\ UNCHANGED <<keys, thread, registered, owned, hasQueue, messages, forwarded, style,
                   dispatched, presses>>

\* unregister, up to its wait.  WM_QUIT to a thread without a queue is lost.
PostsQuit ==
    /\ window = "exits"
    /\ window' = "joins"
    /\ messages' = IF hasQueue THEN Append(messages, Quit) ELSE messages
    /\ UNCHANGED <<keys, thread, registered, owned, hasQueue, forwarded, style,
                   dispatched, presses>>

\* The rest of unregister, when the thread has returned.
Joined ==
    /\ window = "joins" /\ thread \in {"none", "returned"}
    /\ window' = "gone"
    /\ IF clickThrough THEN Sets(FALSE) ELSE UNCHANGED <<transparent, unrefreshed, refusals>>
    /\ UNCHANGED <<keys, thread, registered, owned, hasQueue, messages, forwarded,
                   clickThrough, dispatched, presses>>

-----------------------------------------------------------------------------
HotkeysNext ==
    \/ HotkeyThread \/ Press
    \/ configure_platform \/ Poll \/ UserCloses \/ LastFrame \/ PostsQuit \/ Joined

\* Both threads run on, and a window is redrawn while it is there.  The user
\* need not press anything, nor close the window.
HotkeysFairness ==
    /\ WF_hotkeyVars(HotkeyThread)
    /\ WF_hotkeyVars(configure_platform \/ Poll \/ LastFrame \/ PostsQuit \/ Joined)

HotkeysSpec == HotkeysInit /\ [][HotkeysNext]_hotkeyVars /\ HotkeysFairness

-----------------------------------------------------------------------------
(* Properties.                                                             *)

(***************************************************************************)
(* The types of the hotkeys' variables.                                    *)
(***************************************************************************)
HotkeysTypeOK ==
    /\ \A kind \in ToSet(HotkeyKind) : bindings[kind] \in Spellings \cup {<<>>}
    /\ \A id \in DOMAIN specs : HotkeyKind[id] \in Bindable /\ specs[id].modifiers # {}
    /\ \A combo \in taken \cup DOMAIN owned : combo.modifiers \subseteq Modifiers
    /\ thread \in {"none", "probes", "tells", "registers", "pumps", "unregisters", "returned"}
    /\ registered \in 0..Len(HotkeyKind)
    /\ \A combo \in DOMAIN owned : owned[combo] \in 1..Len(HotkeyKind)
    /\ \A i \in DOMAIN messages : messages[i] \in {Quit} \cup {Hotkey(n) : n \in 1..Len(HotkeyKind)}
    /\ window \in {"starts", "waits", "open", "closes", "exits", "joins", "gone"}
    /\ {clickThrough, transparent, unrefreshed, hasQueue} \subseteq BOOLEAN
    /\ ToSet(dispatched) \cup ToSet(forwarded) \subseteq ToSet(HotkeyKind)
    /\ Len(presses) \in 0..MaxPresses /\ refusals \in 0..MaxRefusals

\* The hotkey declared first among those bound to a combination, which is the
\* one whose registration succeeds.
FirstBound(combo) ==
    HotkeyKind[Min({id \in DOMAIN HotkeyKind : combo_of(HotkeyKind[id]) = combo})]

(***************************************************************************)
(* What the GUI handles are the combinations pressed, in their order, each *)
(* as the first hotkey bound to it, whatever else is bound, taken by       *)
(* another program, or pressed while others are still being registered.    *)
(***************************************************************************)
PressesKeepTheirOrder ==
    IsPrefix(dispatched \o forwarded, [i \in DOMAIN presses |-> FirstBound(presses[i])])

(***************************************************************************)
(* The flag that decides what the next press does is what the window is,   *)
(* unless the last call changed the style and failed to refresh it.        *)
(***************************************************************************)
FlagIsTheStyle == window # "gone" /\ ~unrefreshed => clickThrough = transparent

(***************************************************************************)
(* Again and again every combination that was pressed has been handled,    *)
(* those included that were pressed while the thread was still registering *)
(* others, unless the window closes.                                       *)
(***************************************************************************)
PressesAreHandled ==
    []<>(Len(dispatched) = Len(presses) \/ window \in {"exits", "joins", "gone"})

(***************************************************************************)
(* The exit does not wait for the hotkey thread for ever: not when it is   *)
(* still registering, nor when it had nothing to register and is gone.     *)
(***************************************************************************)
ExitReturns == (window = "exits") ~> (window = "gone")
=============================================================================
