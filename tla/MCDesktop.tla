----------------------------- MODULE MCDesktop ------------------------------
(* Constants for the run of all of Desktop's components. *)
EXTENDS Desktop

\* Settings: two monitors.
TwoDisplays == <<"left", "right">>

\* History: two network adapters, of which one is plugged in and out, and a
\* sensor of another kind.
KindOfSource(s) == IF s = "cpu" THEN "load" ELSE "rate"
PluggedSources == {{"wifi", "cpu"}, {"wifi", "usb", "cpu"}, {"wifi"}}

\* Hotkeys: one combination in two spellings, and a key without a modifier.
SomeSpellings == {<<"ctrl", "s">>, <<"s", "ctrl">>, <<"s">>}
=============================================================================
