----------------------------- MODULE LhmConfig ------------------------------
(***************************************************************************)
(* The two configuration files of LibreHardwareMonitor that the supervisor *)
(* patches before it starts it (sidebar-platform/src/ohm_supervisor.rs):   *)
(* LibreHardwareMonitor.exe.config, and the file where the program keeps   *)
(* its own settings and reads whether, and on which port, to serve.  Both  *)
(* are patched as text, and replaced by a file written beside them         *)
(* (sidebar-platform/src/fs.rs).                                           *)
(*                                                                         *)
(* A file is a sequence of lines: a tag, or an entry of a setting.         *)
(***************************************************************************)
EXTENDS Naturals, Sequences, SequencesExt

CONSTANTS
    Ports,          \* ports to serve on
    MaxPatches,     \* bound: launches
    MaxFailures     \* bound: failed calls, and ends of the sidebar

ASSUME LhmConfigAssumption == Ports \subseteq Nat /\ MaxPatches \in Nat /\ MaxFailures \in Nat

VARIABLES
    exeConfig, userConfig,  \* the files: [state, lines]
    port,           \* of the launch under way
    patching,       \* what it does next: "none", "exe", "exe_rename", "user", "user_rename"
    beside,         \* the file written beside the one that is patched
    launched,       \* did the last launch come through to the start of the program?
    overwritten,    \* has the program saved its settings since they were read?
    before,         \* the lines of both files when the launch began
    patches, failures

lhmConfigVars == <<exeConfig, userConfig, port, patching, beside, launched, overwritten,
                   before, patches, failures>>

Tag(name) == [tag |-> name, key |-> "", value |-> 0]
Entry(key, value) == [tag |-> "add", key |-> key, value |-> value]
WebServer == "runWebServerMenuItem"
ListenerPort == "listenerPort"

Root == Tag("<configuration>")
RootEnd == Tag("</configuration>")
Section == Tag("<appSettings>")
SectionEnd == Tag("</appSettings>")
Startup == Tag("<startup>")
Plot(n) == Entry("plot", n)

\* Entries of the web server: TRUE is 1.
Required(p) == <<Entry(WebServer, 1), Entry(ListenerPort, p)>>

NoFile == [state |-> "missing", lines |-> <<>>]
TornFile == [state |-> "torn", lines |-> <<>>]
Holding(lines) == [state |-> "whole", lines |-> lines]

\* The place of a line, or 0.
At(lines, line) == SelectInSeq(lines, LAMBDA l : l = line)

-----------------------------------------------------------------------------
(* The patches.                                                            *)

build_app_settings_block(p) == <<Section>> \o Required(p) \o <<SectionEnd>>

Minimal(p) == <<Root>> \o build_app_settings_block(p) \o <<RootEnd>>

\* A patch that adds the section without looking for one.
AddsSection(lines, p) ==
    LET root == At(lines, Root)
    IN  SubSeq(lines, 1, root) \o build_app_settings_block(p)
            \o SubSeq(lines, root + 1, Len(lines))

\* The whole section is replaced, to the end of the file if it is not closed.
patch_app_settings(lines, p) ==
    LET start == At(lines, Section)
        root == At(lines, Root)
        rest == SubSeq(lines, start, Len(lines))
        end == IF SectionEnd \in ToSet(rest) THEN start + At(rest, SectionEnd) - 1 ELSE Len(lines)
        Insert(from, to) == SubSeq(lines, 1, from) \o build_app_settings_block(p)
                                \o SubSeq(lines, to + 1, Len(lines))
    IN  CASE start # 0 -> Insert(start - 1, end)
          [] start = 0 /\ root # 0 -> Insert(root, root)
          [] OTHER -> Minimal(p)

\* Every copy of the first entry of the key is replaced; without one, an entry
\* is added to the section, if there is a section.
update_app_setting_key(lines, key, value) ==
    LET old == SelectInSeq(lines, LAMBDA l : l.key = key)
        section == At(lines, Section)
    IN  CASE old # 0 ->
               [i \in DOMAIN lines |->
                   IF lines[i] = lines[old] THEN Entry(key, value) ELSE lines[i]]
          [] old = 0 /\ section # 0 ->
               InsertAt(lines, section + 1, Entry(key, value))
          [] OTHER -> lines

patch_user_settings(lines, p) ==
    update_app_setting_key(update_app_setting_key(lines, WebServer, 1), ListenerPort, p)

\* What the files are to become: created when missing.
ExePatched == IF exeConfig.state = "missing" THEN Minimal(port)
              ELSE patch_app_settings(exeConfig.lines, port)
UserPatched == IF userConfig.state = "missing" THEN Minimal(port)
               ELSE patch_user_settings(userConfig.lines, port)

-----------------------------------------------------------------------------
(* A launch.                                                               *)

\* Files of the distribution, of the program after its first run, and edited.
ExeFiles == {<<Root, Startup, RootEnd>>, <<Startup>>,
             <<Root, Section, Entry(ListenerPort, 0), SectionEnd, Startup, RootEnd>>,
             <<Root, Startup, Section, Plot(1), SectionEnd, RootEnd>>}
UserFiles == {<<Root, Section, SectionEnd, RootEnd>>,
              <<Root, Section, Plot(1), Plot(2), SectionEnd, RootEnd>>,
              <<Root, Section, Plot(1), Entry(WebServer, 0), Plot(2), SectionEnd, RootEnd>>,
              <<Root, Section, Entry(ListenerPort, 0), Entry(WebServer, 1), SectionEnd, RootEnd>>,
              <<Root, RootEnd>>}

LhmConfigInit ==
    /\ exeConfig \in {NoFile} \cup {Holding(f) : f \in ExeFiles}
    /\ userConfig \in {NoFile} \cup {Holding(f) : f \in UserFiles}
    /\ port = 0 /\ patching = "none" /\ beside = NoFile
    /\ launched = FALSE /\ overwritten = FALSE
    /\ before = <<exeConfig.lines, userConfig.lines>>
    /\ patches = 0 /\ failures = 0

Fails == failures < MaxFailures /\ failures' = failures + 1
Works == UNCHANGED failures

StartsPatch ==
    /\ patching = "none" /\ patches < MaxPatches /\ patches' = patches + 1
    /\ port' \in Ports
    /\ patching' = "exe" /\ launched' = FALSE /\ overwritten' = FALSE
    /\ before' = <<exeConfig.lines, userConfig.lines>>
    /\ UNCHANGED <<exeConfig, userConfig, beside, failures>>

\* fs::atomic_write, up to the rename; a file as it should be is left alone.
WritesBeside(step, rename, next, file, lines) ==
    /\ patching = step
    /\ \/ /\ Works
          /\ IF file = Holding(lines)
             THEN /\ patching' = next /\ launched' = (next = "none") /\ UNCHANGED beside
             ELSE /\ patching' = rename /\ beside' = Holding(lines)
                  /\ UNCHANGED launched
       \/ /\ Fails
          /\ patching' = "none" /\ beside' \in {beside, NoFile} /\ UNCHANGED launched
    /\ UNCHANGED <<exeConfig, userConfig, port, overwritten, before, patches>>

PatchExe == WritesBeside("exe", "exe_rename", "user", exeConfig, ExePatched)
PatchUser == WritesBeside("user", "user_rename", "none", userConfig, UserPatched)

Renames(step, next) ==
    /\ patching = step
    /\ \/ /\ Works /\ patching' = next /\ beside' = NoFile /\ launched' = (next = "none")
       \/ /\ Fails /\ patching' = "none" /\ beside' \in {beside, NoFile} /\ UNCHANGED launched
    /\ UNCHANGED <<port, overwritten, before, patches>>

RenameExe ==
    /\ Renames("exe_rename", "user")
    /\ exeConfig' = IF failures' = failures THEN beside ELSE exeConfig
    /\ UNCHANGED userConfig

\* std::fs::write in place of the rename.
WriteOver ==
    /\ Renames("user_rename", "none")
    /\ userConfig' = IF failures' = failures THEN beside ELSE TornFile
    /\ UNCHANGED exeConfig

RenameUser ==
    /\ Renames("user_rename", "none")
    /\ userConfig' = IF failures' = failures THEN beside ELSE userConfig
    /\ UNCHANGED exeConfig

\* The sidebar ends; another one starts with what the files then are.
SidebarDies ==
    /\ patching # "none" /\ Fails
    /\ patching' = "none" /\ beside' \in {beside, TornFile}
    /\ UNCHANGED <<exeConfig, userConfig, port, launched, overwritten, before, patches>>

\* The program saves its settings, which always have a section.
LhmSaves ==
    /\ Fails
    /\ \E lines \in UserFiles :
        /\ Section \in ToSet(lines) /\ userConfig # Holding(lines)
        /\ userConfig' = Holding(lines)
    /\ overwritten' = TRUE
    /\ UNCHANGED <<exeConfig, port, patching, beside, launched, before, patches>>

LhmConfigNext ==
    StartsPatch \/ PatchExe \/ RenameExe \/ PatchUser \/ RenameUser \/ SidebarDies \/ LhmSaves

LhmConfigSpec == LhmConfigInit /\ [][LhmConfigNext]_lhmConfigVars

-----------------------------------------------------------------------------
(* Properties.                                                             *)

\* The entries in the sections, as the program reads them.
Settings(lines) ==
    {lines[j] : j \in {k \in DOMAIN lines :
        /\ lines[k].tag = "add"
        /\ \E i \in 1..k : lines[i] = Section /\ SectionEnd \notin ToSet(SubSeq(lines, i, k))}}

\* The lines that are not the supervisor's.
Others(lines) ==
    SelectSeq(lines, LAMBDA l : l \notin {Root, RootEnd, Section, SectionEnd}
                                    /\ l.key \notin {WebServer, ListenerPort})

(***************************************************************************)
(* The types of the variables; no file that the program reads is torn.     *)
(***************************************************************************)
LhmConfigTypeOK ==
    /\ {exeConfig.state, userConfig.state} \subseteq {"missing", "whole"}
    /\ beside.state \in {"missing", "whole", "torn"}
    /\ port \in Ports \cup {0}
    /\ patching \in {"none", "exe", "exe_rename", "user", "user_rename"}
    /\ {launched, overwritten} \subseteq BOOLEAN
    /\ patches \in 0..MaxPatches /\ failures \in 0..MaxFailures

Serves(lines) ==
    \A key \in {WebServer, ListenerPort} :
        {e.value : e \in {s \in Settings(lines) : s.key = key}}
            = {IF key = WebServer THEN 1 ELSE port}

(***************************************************************************)
(* When a launch has patched both files, each has one value for each of    *)
(* the two settings, of this launch, whatever was there or was written by  *)
(* an earlier launch that failed halfway.  Excepted are settings of the    *)
(* program without a section, and those it saves in the meantime.          *)
(***************************************************************************)
LaunchedServes ==
    launched =>
        /\ Serves(exeConfig.lines)
        /\ ~overwritten /\ Section \in ToSet(userConfig.lines) => Serves(userConfig.lines)

(***************************************************************************)
(* Beyond the two settings nothing is lost, moved or repeated: all of the  *)
(* program's own file, and of the other what is outside of its section.    *)
(***************************************************************************)
PatchKeepsTheRest ==
    /\ ~overwritten => Others(userConfig.lines) = Others(before[2])
    /\ Root \in ToSet(before[1]) =>
        SelectSeq(exeConfig.lines, LAMBDA l : l = Startup)
            = SelectSeq(before[1], LAMBDA l : l = Startup)

(***************************************************************************)
(* "Without patching the user config, LHM starts but its HTTP server stays *)
(* OFF": a launch starts the program with its web server on.               *)
(***************************************************************************)
LaunchAlwaysServes == launched /\ ~overwritten => Serves(userConfig.lines)
=============================================================================
