--------------------------- MODULE FrontEnds_proofs ---------------------------
(***************************************************************************)
(* Theorems about the four front ends, for every value of the constants:   *)
(* their debugger's window, when it ticks and settles (DebugWindow and its *)
(* siblings) and what its pages show and edit (DebugPages); the keys and   *)
(* the Map mode of the Controllers window (Panel and the Keys modules);    *)
(* the Preferences (Prefs).                                                *)
(*                                                                         *)
(* A debugger window: between a poll and what it leads to, and once it has *)
(* nothing left to do, what was drawn is the machine's state unless the    *)
(* generation has moved (DrawnIsCurrent). The machine cannot stop without  *)
(* moving it, and only the GUI thread lets it go.                          *)
(*                                                                         *)
(* The pages come last: PagesInv, and the lemmas on what an edit leaves of *)
(* the engine, on the disassembly before and after an address, and on what *)
(* each refresh leaves of the window.                                      *)
(***************************************************************************)
EXTENDS Prefs, DebugPages, WellFoundedInduction, FiniteSetTheorems, SequenceTheorems, TLAPS

(* The variables of a window, under the names of WindowEngine.             *)
VARIABLES
  live, attached, stopped, stop_req, why, stepping, mt,
  shown, minimised, timer, gui, queued, notice, moved, counted, was_stopped,
  saw_gen, saw_stopped, status, page_current, unnoted

(* The constants and the variables of a Controllers window, under those of *)
(* Panel.                                                                  *)
CONSTANTS
  Targets, Keysyms, NoKey, PadInputs, NoPad, Players, EveryPad, scope_of, DefaultKey, DefaultPad,
  SysActs, ResetGame, KnobTargets, Buttons, NoTarget, Editable, F9, KeyR, Shifts

VARIABLES
  s_key, s_pad, saved_key, saved_pad,
  down, mod, focus, mouse, visible, g_map_state, g_down, labels, panel, g_held_keysym,
  s_capture_armed, s_capture_have, s_capture_id, catching, missed, slipped, overtaken

Kde == INSTANCE DebugWindow
Gtk == INSTANCE DebugWindowGtk
Win == INSTANCE DebugWindowWin
Mac == INSTANCE DebugWindowMac

Common == INSTANCE Panel
GtkKeys == INSTANCE KeysGtk
KdeKeys == INSTANCE KeysKde
WinKeys == INSTANCE KeysWin
MacKeys == INSTANCE KeysMac

windowVars == <<live, attached, stopped, stop_req, why, stepping, mt,
                shown, minimised, timer, gui, queued, notice, moved, counted, was_stopped,
                saw_gen, saw_stopped, status, page_current, unnoted>>

(* The status line says why the machine stopped, unless a notice holds it. *)
StatusSaysWhy == notice = "none" => status = why

(* A stopped machine of a generation that was seen is drawn as it is: the    *)
(* status line first, then the page.                                         *)
DrawnIsCurrent ==
  stopped /\ ~moved =>
    /\ gui = "page" => StatusSaysWhy
    /\ gui \in {"idle", "polled"} => StatusSaysWhy /\ page_current

(* While a session's machine thread is joined there is no machine to stop.   *)
JoinedIsGone == gui = "join" => ~live /\ ~stopped

WindowInv == DrawnIsCurrent /\ JoinedIsGone

-----------------------------------------------------------------------------
(* No step of KDE's window disturbs what it has drawn. *)
LEMMA KdeStep ==
  ASSUME WindowInv, [Kde!Next]_(Kde!vars)
  PROVE  WindowInv'
<1> USE DEF WindowInv, DrawnIsCurrent, StatusSaysWhy, JoinedIsGone,
            Kde!Go, Kde!engine, Kde!view, Kde!seen, Kde!locals, Kde!drawn
<1>1. CASE Kde!Park \/ Kde!Break
  BY <1>1 DEF Kde!Park, Kde!Break, Kde!Stops
<1>2. CASE Kde!Announces
  BY <1>2 DEF Kde!Announces, Kde!CountStop, Kde!Announce, Kde!Wake
<1>3. CASE Kde!Settle("resync") \/ Kde!ReadStopped \/ Kde!ReadStops \/ Kde!ReadGen
  BY <1>3 DEF Kde!Settle, Kde!ReadStopped, Kde!ReadStops, Kde!ReadGen, Kde!NoteGen
<1>4. CASE Kde!DrawStatus \/ Kde!RefreshPage \/ Kde!DrawPageOnly
  BY <1>4 DEF Kde!DrawStatus, Kde!StatusNow, Kde!RefreshPage, Kde!DrawPage, Kde!DrawPageOnly
<1>5. CASE Kde!Polled \/ Kde!Tick
  BY <1>5 DEF Kde!Polled, Kde!Tick, Kde!Due
<1>6. CASE Kde!Stop \/ Kde!Join \/ Kde!SessionStart \/ Kde!SessionStop
  BY <1>6 DEF Kde!Stop, Kde!Join, Kde!SessionStart, Kde!SessionStop
<1>7. CASE \E what \in {"settle", "resync"} : Kde!Queued(what)
  BY <1>7 DEF Kde!Queued
<1>8. CASE Kde!Run("resync") \/ Kde!AskStop \/ Kde!Step
  BY <1>8 DEF Kde!Run, Kde!AskStop, Kde!Step, Kde!Released
<1>9. CASE Kde!Edit("resync") \/ Kde!EditRow
  BY <1>9 DEF Kde!Edit, Kde!EditRow, Kde!Edited
<1>10. CASE Kde!Show \/ Kde!Hide
  BY <1>10 DEF Kde!Show, Kde!Hide, Kde!Attach, Kde!Detach
<1>11. CASE Kde!Minimise \/ Kde!Restore
  BY <1>11 DEF Kde!Minimise, Kde!Restore
<1>12. CASE UNCHANGED Kde!vars
  BY <1>12 DEF Kde!vars
<1> QED
  BY <1>1, <1>2, <1>3, <1>4, <1>5, <1>6, <1>7, <1>8, <1>9, <1>10, <1>11, <1>12
     DEF Kde!Next, Kde!Handler, Kde!Resync

(* The debugger window of KDE, once it has nothing left to do, shows a stopped *)
(* machine as it is (frontends/kde/debugger/DebuggerWindow.cpp, resync).       *)
THEOREM KdeAtRestIsCurrent == Kde!Spec => []Kde!AtRestIsCurrent
<1>1. Kde!Init => WindowInv
  BY DEF Kde!Init, Kde!TypeOK, Kde!GuiPlaces, WindowInv, DrawnIsCurrent, JoinedIsGone
<1>2. WindowInv /\ [Kde!Next]_(Kde!vars) => WindowInv'
  BY KdeStep
<1>3. WindowInv => Kde!AtRestIsCurrent
  BY DEF WindowInv, DrawnIsCurrent, StatusSaysWhy, Kde!AtRestIsCurrent, Kde!AtRest, Kde!Due
<1> QED
  BY <1>1, <1>2, <1>3, PTL DEF Kde!Spec

(* No step of GNOME's window disturbs what it has drawn. *)
LEMMA GtkStep ==
  ASSUME WindowInv, [Gtk!Next]_(Gtk!vars)
  PROVE  WindowInv'
<1> USE DEF WindowInv, DrawnIsCurrent, StatusSaysWhy, JoinedIsGone,
            Gtk!Go, Gtk!engine, Gtk!view, Gtk!seen, Gtk!locals, Gtk!drawn
<1>1. CASE Gtk!Park \/ Gtk!Break
  BY <1>1 DEF Gtk!Park, Gtk!Break, Gtk!Stops
<1>2. CASE Gtk!Announces
  BY <1>2 DEF Gtk!Announces, Gtk!Announce, Gtk!Wake
<1>3. CASE Gtk!Settle("gen") \/ Gtk!SeenGeneration \/ Gtk!WasStopped
  BY <1>3 DEF Gtk!Settle, Gtk!SeenGeneration, Gtk!NoteGen, Gtk!WasStopped, Gtk!NoteStopped
<1>4. CASE Gtk!RefreshStatus \/ Gtk!RefreshTab \/ Gtk!DrawPageOnly
  BY <1>4 DEF Gtk!RefreshStatus, Gtk!StatusNow, Gtk!RefreshTab, Gtk!DrawPage, Gtk!DrawPageOnly
<1>5. CASE Gtk!TickRefresh \/ Gtk!Tick
  BY <1>5 DEF Gtk!TickRefresh, Gtk!Tick, Gtk!Due
<1>6. CASE Gtk!Stop \/ Gtk!Join \/ Gtk!SessionStart \/ Gtk!SessionStop
  BY <1>6 DEF Gtk!Stop, Gtk!Join, Gtk!SessionStart, Gtk!SessionStop
<1>7. CASE Gtk!Run("gen") \/ Gtk!AskStop \/ Gtk!Step \/ Gtk!Command
  BY <1>7 DEF Gtk!Run, Gtk!AskStop, Gtk!Step, Gtk!Released, Gtk!Command
<1>8. CASE Gtk!Edit("gen")
  BY <1>8 DEF Gtk!Edit, Gtk!Edited
<1>9. CASE Gtk!AttachAndRefresh \/ Gtk!HideWindow
  BY <1>9 DEF Gtk!AttachAndRefresh, Gtk!HideWindow, Gtk!Attach, Gtk!Detach
<1>10. CASE UNCHANGED Gtk!vars
  BY <1>10 DEF Gtk!vars
<1> QED
  BY <1>1, <1>2, <1>3, <1>4, <1>5, <1>6, <1>7, <1>8, <1>9, <1>10
     DEF Gtk!Next, Gtk!Handler, Gtk!Refresh

(* The debugger window of GNOME, once it has nothing left to do, shows a
   stopped machine as it is (frontends/gnome/debugger/dbg_window.c, refresh_now). *)
THEOREM GtkAtRestIsCurrent == Gtk!Spec => []Gtk!AtRestIsCurrent
<1>1. Gtk!Init => WindowInv
  BY DEF Gtk!Init, WindowInv, DrawnIsCurrent, JoinedIsGone
<1>2. WindowInv /\ [Gtk!Next]_(Gtk!vars) => WindowInv'
  BY GtkStep
<1>3. WindowInv => Gtk!AtRestIsCurrent
  BY DEF WindowInv, DrawnIsCurrent, StatusSaysWhy, Gtk!AtRestIsCurrent, Gtk!AtRest, Gtk!Due
<1> QED
  BY <1>1, <1>2, <1>3, PTL DEF Gtk!Spec

(* No step of Windows's window disturbs what it has drawn. *)
LEMMA WinStep ==
  ASSUME WindowInv, [Win!Next]_(Win!vars)
  PROVE  WindowInv'
<1> USE DEF WindowInv, DrawnIsCurrent, StatusSaysWhy, JoinedIsGone,
            Win!Go, Win!engine, Win!view, Win!seen, Win!locals, Win!drawn
<1>1. CASE Win!Park \/ Win!Break
  BY <1>1 DEF Win!Park, Win!Break, Win!Stops
<1>2. CASE Win!Announces
  BY <1>2 DEF Win!Announces, Win!Announce, Win!Wake
<1>3. CASE Win!SettleAndSync \/ Win!NoteStop \/ Win!SeenGen
  BY <1>3 DEF Win!SettleAndSync, Win!NoteStop, Win!SeenGen, Win!NoteGen
<1>4. CASE Win!RefreshStatus \/ Win!RefreshPage \/ Win!DrawPageOnly
  BY <1>4 DEF Win!RefreshStatus, Win!Line, Win!StatusNow, Win!RefreshPage, Win!DrawPage,
              Win!DrawPageOnly
<1>5. CASE Win!Polled \/ Win!TimerTick
  BY <1>5 DEF Win!Polled, Win!TimerTick, Win!StatusNow, Win!Due
<1>6. CASE Win!Toast \/ Win!Expire
  BY <1>6 DEF Win!Toast, Win!Line, Win!Expire
<1>7. CASE Win!Stop \/ Win!Join \/ Win!SessionStart \/ Win!SessionStop
  BY <1>7 DEF Win!Stop, Win!Join, Win!SessionStart, Win!SessionStop
<1>8. CASE Win!Run("resync") \/ Win!AskStop \/ Win!Step
  BY <1>8 DEF Win!Run, Win!AskStop, Win!Step, Win!Released
<1>9. CASE Win!Edit("resync") \/ Win!Edit("settle") \/ Win!EditRow \/ Win!SyncMessage
  BY <1>9 DEF Win!Edit, Win!Edited, Win!EditRow, Win!SyncMessage
<1>10. CASE Win!AttachAndRefresh \/ Win!ShowAgain \/ Win!HideWindow
  BY <1>10 DEF Win!AttachAndRefresh, Win!ShowAgain, Win!HideWindow, Win!Attach, Win!Detach
<1>11. CASE UNCHANGED Win!vars
  BY <1>11 DEF Win!vars
<1> QED
  BY <1>1, <1>2, <1>3, <1>4, <1>5, <1>6, <1>7, <1>8, <1>9, <1>10, <1>11
     DEF Win!Next, Win!Handler, Win!Resync

(* The debugger window of Windows, once it has nothing left to do, shows a
   stopped machine as it is (frontends/windows/debugger/dbg_window.c, resync). *)
THEOREM WinAtRestIsCurrent == Win!Spec => []Win!AtRestIsCurrent
<1>1. Win!Init => WindowInv
  BY DEF Win!Init, WindowInv, DrawnIsCurrent, JoinedIsGone
<1>2. WindowInv /\ [Win!Next]_(Win!vars) => WindowInv'
  BY WinStep
<1>3. WindowInv => Win!AtRestIsCurrent
  BY DEF WindowInv, DrawnIsCurrent, StatusSaysWhy, Win!AtRestIsCurrent, Win!AtRest, Win!Due
<1> QED
  BY <1>1, <1>2, <1>3, PTL DEF Win!Spec

(* No step of macOS's window disturbs what it has drawn. *)
LEMMA MacStep ==
  ASSUME WindowInv, [Mac!Next]_(Mac!vars)
  PROVE  WindowInv'
<1> USE DEF WindowInv, DrawnIsCurrent, StatusSaysWhy, JoinedIsGone,
            Mac!Go, Mac!engine, Mac!view, Mac!seen, Mac!locals, Mac!drawn
<1>1. CASE Mac!Park \/ Mac!Break
  BY <1>1 DEF Mac!Park, Mac!Break, Mac!Stops
<1>2. CASE Mac!Announces
  BY <1>2 DEF Mac!Announces, Mac!Announce, Mac!Wake
<1>3. CASE Mac!Settle("gen") \/ Mac!SeenGen \/ Mac!WasStopped
  BY <1>3 DEF Mac!Settle, Mac!SeenGen, Mac!NoteGen, Mac!WasStopped, Mac!NoteStopped
<1>4. CASE Mac!RefreshStatus \/ Mac!RefreshTab \/ Mac!DrawPageOnly
  BY <1>4 DEF Mac!RefreshStatus, Mac!StatusNow, Mac!RefreshTab, Mac!DrawPage, Mac!DrawPageOnly
<1>5. CASE Mac!Polled \/ Mac!OnTick
  BY <1>5 DEF Mac!Polled, Mac!OnTick, Mac!Tick, Mac!Due
<1>6. CASE Mac!Stop \/ Mac!Join \/ Mac!SessionStart \/ Mac!SessionStop
  BY <1>6 DEF Mac!Stop, Mac!Join, Mac!SessionStart, Mac!SessionStop
<1>7. CASE Mac!Run("settle") \/ Mac!AskStop \/ Mac!Step
  BY <1>7 DEF Mac!Run, Mac!AskStop, Mac!Step, Mac!Released
<1>8. CASE Mac!Edit("gen") \/ Mac!Edit("settle") \/ Mac!EditAndDraw \/ Mac!Message
  BY <1>8 DEF Mac!Edit, Mac!Edited, Mac!EditAndDraw, Mac!Message
<1>9. CASE Mac!Show \/ Mac!Close \/ Mac!Dock
  BY <1>9 DEF Mac!Show, Mac!Close, Mac!Dock, Mac!Attach, Mac!Detach
<1>10. CASE UNCHANGED Mac!vars
  BY <1>10 DEF Mac!vars
<1> QED
  BY <1>1, <1>2, <1>3, <1>4, <1>5, <1>6, <1>7, <1>8, <1>9, <1>10
     DEF Mac!Next, Mac!Handler, Mac!Refresh

(* The debugger window of macOS, once it has nothing left to do, shows a
   stopped machine as it is (frontends/macos/debugger/DebuggerWindow.m, refreshNow). *)
THEOREM MacAtRestIsCurrent == Mac!Spec => []Mac!AtRestIsCurrent
<1>1. Mac!Init => WindowInv
  BY DEF Mac!Init, WindowInv, DrawnIsCurrent, JoinedIsGone
<1>2. WindowInv /\ [Mac!Next]_(Mac!vars) => WindowInv'
  BY MacStep
<1>3. WindowInv => Mac!AtRestIsCurrent
  BY DEF WindowInv, DrawnIsCurrent, StatusSaysWhy, Mac!AtRestIsCurrent, Mac!AtRest, Mac!Due
<1> QED
  BY <1>1, <1>2, <1>3, PTL DEF Mac!Spec

(* The four together: with nothing left to do, each front end's debugger      *)
(* window shows a stopped machine as it is, and why it stopped.               *)
THEOREM WindowsAtRestAreCurrent ==
  /\ Kde!Spec => []Kde!AtRestIsCurrent
  /\ Gtk!Spec => []Gtk!AtRestIsCurrent
  /\ Win!Spec => []Win!AtRestIsCurrent
  /\ Mac!Spec => []Mac!AtRestIsCurrent
BY KdeAtRestIsCurrent, GtkAtRestIsCurrent, WinAtRestIsCurrent, MacAtRestIsCurrent, PTL

-----------------------------------------------------------------------------
(* The Preferences. *)

(* The machine that runs is the one that the settings name.                  *)
MachineIsStored ==
  runs => /\ machine.bios = Resolve(stored.bios, machine.had)
          /\ machine.fujinet = FujiNet(stored)

(* It may be another only while the Preferences know of the change: on KDE,  *)
(* which stores nothing before they close, it never is.                      *)
ChangesAreKnown ==
  /\ ~dirty => MachineIsStored
  /\ prefs = "closed" \/ front = "kde" => ~dirty

(* Who imports a BIOS has a machine, or the Preferences will start one.      *)
BiosIsBooted == prefs = "closed" /\ ~runs => imported = {} \/ failed

MainPageIsTrue == page = MainPage
RowsAreImported == prefs = "open" => rows = imported \/ behind

PrefsInv ==
  /\ front \in {"gtk", "kde", "win", "mac"} /\ (prefs = "closing" => front = "mac")
  /\ ChangesAreKnown /\ BiosIsBooted /\ MainPageIsTrue /\ RowsAreImported

(* A start leaves no machine, or the one that is stored; if there was a BIOS *)
(* to boot, it runs or has failed.                                           *)
LEMMA StartsWhatIsStored ==
  ASSUME Start
  PROVE  MachineIsStored' /\ (~runs' => imported' = {} \/ failed')
<1>1. CASE runs' = FALSE
  BY <1>1 DEF Start, MachineIsStored
<1>2. CASE /\ runs' = TRUE
           /\ machine' = [bios |-> Resolve(stored'.bios, imported'), had |-> imported',
                          fujinet |-> FujiNet(stored')]
  <2>1. machine'.bios = Resolve(stored'.bios, machine'.had) /\ machine'.fujinet = FujiNet(stored')
    BY <1>2
  <2> QED
    BY <1>2, <2>1 DEF MachineIsStored, FujiNet, Resolve
<1> QED
  BY <1>1, <1>2 DEF Start

LEMMA RestartApplies ==
  ASSUME Restart
  PROVE  MachineIsStored' /\ MainPageIsTrue' /\ (~runs' => imported' = {} \/ failed')
BY StartsWhatIsStored DEF Restart, MainPageIsTrue

(* One that runs is let be.                                                  *)
LEMMA StartMachineApplies ==
  ASSUME StartMachine, stored' = stored
  PROVE  /\ MachineIsStored => MachineIsStored'
         /\ MainPageIsTrue' /\ (~runs' => imported' = {} \/ failed')
<1>1. CASE ~runs /\ imported' # {}
  BY <1>1, RestartApplies DEF StartMachine
<1>2. CASE ~(~runs /\ imported' # {})
  BY <1>2 DEF StartMachine, MainPageIsTrue, MachineIsStored
<1> QED
  BY <1>1, <1>2

LEMMA ImportFromMenuStep ==
  ASSUME PrefsInv, NEW found, NEW spoilt, Import(found, spoilt)
  PROVE  PrefsInv'
<1> USE DEF PrefsInv, Import, Take
<1>1. ChangesAreKnown' /\ BiosIsBooted' /\ MainPageIsTrue'
  BY StartMachineApplies DEF ChangesAreKnown, BiosIsBooted
<1>2. RowsAreImported'
  BY DEF RowsAreImported
<1> QED
  BY <1>1, <1>2

LEMMA FromPageStep ==
  ASSUME PrefsInv, NEW found, NEW spoilt, ImportFromPage(found, spoilt)
  PROVE  PrefsInv'
<1>1. FromPage(found, spoilt) /\ Listed
  BY DEF ImportFromPage, ImportFromPageGtk, ImportFromPageKde, ImportFromPageWin,
         ImportFromPageMac, RefreshGtk, RefreshKde, RefreshWin, RefreshMac
<1> QED
  BY <1>1 DEF PrefsInv, ChangesAreKnown, MachineIsStored, BiosIsBooted, MainPageIsTrue,
              RowsAreImported, FromPage, Listed

LEMMA LoadCartStep ==
  ASSUME PrefsInv, LoadCart
  PROVE  PrefsInv'
<1>1. MachineIsStored' /\ (~runs' => imported' = {} \/ failed')
  BY StartsWhatIsStored DEF LoadCart
<1> QED
  BY <1>1 DEF PrefsInv, ChangesAreKnown, BiosIsBooted, MainPageIsTrue, MainPage, RowsAreImported,
              LoadCart

LEMMA OpenStep ==
  ASSUME PrefsInv, Open
  PROVE  PrefsInv'
<1>1. Opened /\ Listed
  BY DEF Open, OpenGtk, OpenKde, OpenWin, OpenMac, RefreshGtk, RefreshKde, RefreshWin,
         RefreshMac
<1> QED
  BY <1>1 DEF PrefsInv, ChangesAreKnown, MachineIsStored, BiosIsBooted, MainPageIsTrue, MainPage,
              RowsAreImported, Opened, Listed

(* What is stored makes the Preferences dirty, if it is a change.            *)
LEMMA EditStep ==
  ASSUME PrefsInv, Edit
  PROVE  PrefsInv'
<1>1. UNCHANGED beside /\ prefs = "open"
  BY DEF Edit, ChooseGtk, ToggleGtk, TypeGtk, EditKde, ChooseWin, EditWin, ChooseMac, ToggleMac,
         TypeMac, CommitMac
<1>2. \/ UNCHANGED <<stored, dirty>>
      \/ front # "kde" /\ \E new : Store(new)
  BY DEF Edit, ChooseGtk, ToggleGtk, TypeGtk, EditKde, ChooseWin, EditWin, ChooseMac, ToggleMac,
         TypeMac, CommitMac, StoreAddressMac
<1>3. ~dirty' => ~dirty /\ stored' = stored
  BY <1>2 DEF Store, PrefsInv, ChangesAreKnown
<1>4. ChangesAreKnown'
  BY <1>1, <1>2, <1>3 DEF PrefsInv, ChangesAreKnown, MachineIsStored, beside
<1> QED
  BY <1>1, <1>4 DEF PrefsInv, BiosIsBooted, MainPageIsTrue, MainPage, RowsAreImported, beside

(* Closed, they have what changed applied, or what there is to boot booted.  *)
LEMMA ClosedStep ==
  ASSUME PrefsInv, Closed, UNCHANGED <<front, imported>>,
         Restart \/ (StartMachine /\ stored' = stored /\ MachineIsStored)
  PROVE  PrefsInv'
<1>1. MachineIsStored' /\ MainPageIsTrue' /\ (~runs' => imported' = {} \/ failed')
  BY RestartApplies, StartMachineApplies
<1> QED
  BY <1>1 DEF PrefsInv, Closed, ChangesAreKnown, BiosIsBooted, RowsAreImported

LEMMA CloseStep ==
  ASSUME PrefsInv, Close
  PROVE  PrefsInv'
<1> USE DEF PrefsInv, ChangesAreKnown
<1>1. CASE front = "gtk" /\ CloseGtk
  BY <1>1, ClosedStep DEF CloseGtk, Applied
<1>2. CASE front = "kde" /\ CloseKde
  BY <1>2, ClosedStep DEF CloseKde
<1>3. CASE front = "win" /\ CloseWin
  BY <1>3, ClosedStep DEF CloseWin
<1>4. CASE front = "mac" /\ CloseMac
  <2>1. ~dirty' => ~dirty /\ stored' = stored
    BY <1>4 DEF CloseMac, StoreAddressMac, Store
  <2> QED
    BY <1>4, <2>1 DEF CloseMac, MachineIsStored, BiosIsBooted, MainPageIsTrue, MainPage, RowsAreImported
<1>5. CASE prefs = "closing" /\ ClosedMac
  BY <1>5, ClosedStep DEF ClosedMac, Applied
<1> QED
  BY <1>1, <1>2, <1>3, <1>4, <1>5 DEF Close

(* Once the Preferences have closed, the machine that runs is the one that     *)
(* the settings name, and one runs if there is a BIOS and it could start; the  *)
(* main window and the Preferences say which BIOSes there are                  *)
(* (frontends/gnome/prefs.c, kde/SettingsDialog.cpp, windows/prefs.c,          *)
(* macos/SettingsWindow.m, and what calls them).                               *)
THEOREM PreferencesAreApplied == PrefsSpec => []PrefsAreApplied
<1>1. PrefsInit => PrefsInv
  BY DEF PrefsInit, PrefsInv, ChangesAreKnown, MachineIsStored, BiosIsBooted, MainPageIsTrue,
         RowsAreImported
<1>2. PrefsInv /\ [PrefsNext]_prefsVars => PrefsInv'
  <2> SUFFICES ASSUME PrefsInv, [PrefsNext]_prefsVars
               PROVE  PrefsInv'
    OBVIOUS
  <2>1. ASSUME NEW found \in SUBSET Bioses, NEW spoilt \in SUBSET Bioses,
               ImportFromMenu(found, spoilt) \/ ImportFromPage(found, spoilt)
        PROVE  PrefsInv'
    <3>1. CASE ImportFromMenu(found, spoilt)
      BY <3>1, ImportFromMenuStep DEF ImportFromMenu, ImportFromMenuGtk, ImportFromMenuKde,
                                      ImportFromMenuWin, ImportFromMenuMac
    <3>2. CASE ImportFromPage(found, spoilt)
      BY <3>2, FromPageStep
    <3> QED
      BY <2>1, <3>1, <3>2
  <2>2. CASE UNCHANGED prefsVars
    BY <2>2 DEF prefsVars, PrefsInv, ChangesAreKnown, MachineIsStored, BiosIsBooted,
                MainPageIsTrue, MainPage, RowsAreImported
  <2> QED
    BY <2>1, <2>2, LoadCartStep, OpenStep, EditStep, CloseStep DEF PrefsNext
<1>3. PrefsInv => PrefsAreApplied
  BY DEF PrefsInv, ChangesAreKnown, MachineIsStored, BiosIsBooted, MainPageIsTrue,
         RowsAreImported, PrefsAreApplied
<1> QED
  BY <1>1, <1>2, <1>3, PTL DEF PrefsSpec

-----------------------------------------------------------------------------
(* The Controllers windows. *)

(* A key that holds a target is down, or its release was missed.             *)
KeysAreDown ==
  \A t \in Targets : g_held_keysym[t] # NoKey => g_held_keysym[t] \in down \cup missed

(* No key holds a target of a program that has lost the focus.               *)
NobodyHoldsAway == focus = "away" => \A t \in Targets : g_held_keysym[t] = NoKey

(* The panel holds what the mouse does, or what slipped from it; a system    *)
(* action is not held, and a dial is turned.                                 *)
MouseHolds ==
  /\ panel \subseteq Targets \ (SysActs \cup KnobTargets)
  /\ panel \subseteq {mouse} \cup slipped

-----------------------------------------------------------------------------
(* What the Controllers windows have in common. *)

LEMMA PressStep ==
  ASSUME KeysAreDown, NEW k, Common!Press(k), down' = down \cup {k}
  PROVE  /\ KeysAreDown' /\ UNCHANGED <<panel, slipped>>
         /\ \A t \in Targets : g_held_keysym'[t] = k \/ g_held_keysym'[t] = g_held_keysym[t]
<1>1. \A t \in Targets : g_held_keysym'[t] = k \/ g_held_keysym'[t] = g_held_keysym[t]
  BY DEF Common!Press
<1>2. \A x : x \in missed /\ x # k /\ (\E t \in Targets : g_held_keysym'[t] = x) /\ x # NoKey
             => x \in missed'
  BY DEF Common!Press, Common!HeldKeys
<1>3. UNCHANGED <<panel, slipped>>
  BY DEF Common!Press
<1> QED
  BY <1>1, <1>2, <1>3 DEF KeysAreDown

(* A key is let go in the machine, or its release is one that was missed.    *)
LEMMA KeyboardStep ==
  ASSUME KeysAreDown, NEW k, down' = down \ {k},
         Common!Release(k) \/ Common!Keyboard(g_held_keysym, {k})
  PROVE  /\ KeysAreDown' /\ UNCHANGED <<panel, slipped>>
         /\ \A t \in Targets : \/ g_held_keysym'[t] = NoKey
                               \/ g_held_keysym'[t] = g_held_keysym[t]
<1>1. CASE Common!Release(k)
  <2>1. \A t \in Targets : \/ g_held_keysym'[t] = NoKey
                           \/ g_held_keysym'[t] # k /\ g_held_keysym'[t] = g_held_keysym[t]
    BY <1>1 DEF Common!Release, Common!Keyboard, Common!Without
  <2>2. \A t \in Targets : g_held_keysym'[t] \in missed /\ g_held_keysym'[t] # NoKey
                           => g_held_keysym'[t] \in missed'
    BY <1>1 DEF Common!Release, Common!Keyboard, Common!HeldKeys
  <2>3. UNCHANGED <<panel, slipped>>
    BY <1>1 DEF Common!Release, Common!Keyboard
  <2> QED
    BY <2>1, <2>2, <2>3 DEF KeysAreDown
<1>2. CASE Common!Keyboard(g_held_keysym, {k})
  <2>1. g_held_keysym' = g_held_keysym /\ UNCHANGED <<panel, slipped>>
    BY <1>2 DEF Common!Keyboard
  <2>2. \A t \in Targets : g_held_keysym[t] \in missed \cup {k} /\ g_held_keysym[t] # NoKey
                           => g_held_keysym[t] \in missed'
    BY <1>2 DEF Common!Keyboard, Common!HeldKeys
  <2> QED
    BY <2>1, <2>2 DEF KeysAreDown
<1> QED
  BY <1>1, <1>2

LEMMA ReleaseAllStep ==
  ASSUME Common!ReleaseAll
  PROVE  (\A t \in Targets : g_held_keysym'[t] = NoKey) /\ UNCHANGED <<panel, slipped>>
BY DEF Common!ReleaseAll, Common!Keyboard, Common!Unheld

(* A control let go is held no more, and nothing else is.                    *)
LEMMA LetsGoStep ==
  ASSUME MouseHolds, NEW t, NEW fires, Common!LetsGo(t, fires)
  PROVE  /\ panel' \subseteq panel \ {t} /\ slipped' \subseteq slipped
         /\ panel' \cap slipped \subseteq slipped'
         /\ UNCHANGED <<g_held_keysym, missed>>
            \/ \A u \in Targets : g_held_keysym'[u] = NoKey
BY DEF MouseHolds, Common!LetsGo, Common!holds, Common!Unheld

LEMMA SetMapStateStep ==
  ASSUME Common!PanelBounds, NEW state, Common!SetMapState(state),
         visible' \/ state = Common!Idle
  PROVE  Common!MapModeIsTrue' /\ g_map_state' = state
BY DEF Common!PanelBounds, Common!SetMapState, Common!CaptureBegin, Common!CaptureCancel,
       Common!Refresh, Common!MapModeIsTrue, Common!Idle, Common!Armed

LEMMA MapKeyStep ==
  ASSUME Common!PanelBounds, Common!MapModeIsTrue, NEW k, Common!MapKey(k),
         UNCHANGED visible, g_map_state # Common!Idle
  PROVE  Common!MapModeIsTrue' /\ g_map_state' # Common!Idle
<1>1. CASE UNCHANGED Common!mapping
  BY <1>1 DEF Common!mapping, Common!capture, Common!bindingsVars, Common!MapModeIsTrue
<1>2. CASE Common!SetMapState(Common!Armed)
  <2>1. visible
    BY DEF Common!MapModeIsTrue
  <2> QED
    BY <1>2, <2>1, SetMapStateStep DEF Common!Idle, Common!Armed
<1> QED
  BY <1>1, <1>2 DEF Common!MapKey

(* A click on a control in Map mode holds nothing, whatever the control      *)
(* makes of the press.                                                       *)
Picking == \E t \in Targets : Common!Pick(t) \/ Common!PickedAlready(t)

LEMMA PickStep ==
  ASSUME Common!PanelBounds, Common!MapModeIsTrue, Picking
  PROVE  /\ Common!MapModeIsTrue'
         /\ UNCHANGED <<down, focus, visible, panel, g_held_keysym, missed, slipped>>
         /\ mouse = NoTarget
<1> USE DEF Common!holds
<1>1. ASSUME NEW t \in Targets, Common!PickedAlready(t)
      PROVE  /\ UNCHANGED <<s_key, s_pad, g_map_state, labels, s_capture_armed, s_capture_have,
                            catching, overtaken, visible>>
             /\ UNCHANGED <<down, focus, panel, g_held_keysym, missed, slipped>>
             /\ mouse = NoTarget
  BY <1>1 DEF Common!PickedAlready, Common!Clicks, Common!mapping, Common!bindingsVars,
              Common!capture
<1>2. ASSUME NEW t \in Targets, Common!Pick(t)
      PROVE  /\ Common!MapModeIsTrue'
             /\ UNCHANGED <<down, focus, visible, panel, g_held_keysym, missed, slipped>>
             /\ mouse = NoTarget
  BY <1>2, SetMapStateStep DEF Common!Pick, Common!Clicks
<1> QED
  BY <1>1, <1>2 DEF Picking, Common!MapModeIsTrue

(* What every window does alike: modifiers, the clicks and buttons of Map    *)
(* mode, its timer, and the pads' thread.                                    *)
SharedAction ==
  \/ \E mods : Common!Modifier(mods)
  \/ Picking /\ UNCHANGED g_down
  \/ Common!ToggleMap \/ Common!ClearPicked \/ Common!Defaults
  \/ Common!CapturePoll \/ Common!Pads

(* It holds nothing and lets go of nothing, keeps Map mode true, and leaves  *)
(* the mouse and a panel that is played alone while a button is down.        *)
LEMMA SharedStep ==
  ASSUME Common!PanelBounds, Common!MapModeIsTrue, SharedAction
  PROVE  /\ Common!MapModeIsTrue'
         /\ UNCHANGED <<down, focus, visible, g_down, panel, g_held_keysym, missed, slipped>>
         /\ \/ mouse' = mouse /\ (g_map_state = Common!Idle => g_map_state' = Common!Idle)
            \/ mouse = NoTarget
<1> USE DEF Common!user, Common!holds
<1>1. ASSUME NEW mods, Common!Modifier(mods)
      PROVE  /\ UNCHANGED <<s_key, s_pad, g_map_state, labels, s_capture_armed, s_capture_have,
                            catching, overtaken, visible>>
             /\ UNCHANGED <<down, focus, g_down, panel, g_held_keysym, missed, slipped, mouse>>
  BY <1>1 DEF Common!Modifier, Common!mapping, Common!bindingsVars, Common!capture
<1>2. CASE Picking /\ UNCHANGED g_down
  BY <1>2, PickStep
<1>3. CASE Common!ToggleMap
  BY <1>3, SetMapStateStep DEF Common!ToggleMap, Common!Clicks
<1>4. CASE Common!ClearPicked
  BY <1>4, SetMapStateStep DEF Common!ClearPicked, Common!Clicks
<1>5. CASE Common!Defaults
  <2>1. labels' = IF g_map_state' = Common!Idle THEN Common!Faces ELSE <<s_key', s_pad'>>
    BY <1>5 DEF Common!Defaults, Common!Refresh
  <2> QED
    BY <1>5, <2>1 DEF Common!Defaults, Common!MapModeIsTrue, Common!capture
<1>6. CASE Common!CapturePoll
  <2>1. CASE Common!CaptureBegin /\ UNCHANGED <<s_key, s_pad, g_map_state, labels>>
    BY <1>6, <2>1 DEF Common!CapturePoll, Common!CaptureBegin, Common!MapModeIsTrue
  <2>2. CASE Common!SetMapState(Common!Armed)
    BY <1>6, <2>2, SetMapStateStep DEF Common!CapturePoll, Common!PanelBounds
  <2> QED
    BY <1>6, <2>1, <2>2 DEF Common!CapturePoll, Common!bindingsVars
<1>7. CASE Common!Pads
  <2>1. UNCHANGED <<down, focus, mouse, visible, g_down, panel, g_held_keysym, missed, slipped,
                    s_key, s_pad, g_map_state, labels>>
    BY <1>7 DEF Common!Pads, Common!PadTest, Common!PadHave, Common!PadDone, Common!bindingsVars
  <2>2. CASE \E i \in PadInputs : Common!PadTest(i)
    BY <2>1, <2>2 DEF Common!PadTest, Common!MapModeIsTrue
  <2>3. CASE Common!PadHave
    BY <2>1, <2>3 DEF Common!PadHave, Common!MapModeIsTrue
  <2>4. CASE Common!PadDone
    <3>1. ~s_capture_armed' /\ UNCHANGED s_capture_have
      BY <2>4 DEF Common!PadDone
    <3>2. overtaken' = ~s_capture_have
      BY <2>4 DEF Common!PadDone
    <3>3. s_capture_have \/ overtaken'
      BY <3>2, Zenon
    <3> QED
      BY <2>1, <3>1, <3>3 DEF Common!MapModeIsTrue
  <2> QED
    BY <1>7, <2>1, <2>2, <2>3, <2>4 DEF Common!Pads
<1> QED
  BY <1>1, <1>2, <1>3, <1>4, <1>5, <1>6, <1>7 DEF SharedAction, Common!MapModeIsTrue

LEMMA LeaveMapStep ==
  ASSUME Common!PanelBounds, Common!MapModeIsTrue, Common!LeaveMap
  PROVE  Common!MapModeIsTrue' /\ g_map_state' = Common!Idle
<1>1. CASE g_map_state = Common!Idle
  BY <1>1 DEF Common!LeaveMap, Common!mapping, Common!capture, Common!bindingsVars,
              Common!MapModeIsTrue, Common!PanelBounds
<1>2. CASE g_map_state # Common!Idle
  BY <1>2, SetMapStateStep DEF Common!LeaveMap
<1> QED
  BY <1>1, <1>2

(* Map mode is true of what it was true of, in a window that is not hidden.  *)
LEMMA SameMapStep ==
  ASSUME Common!MapModeIsTrue, UNCHANGED Common!mapping, visible => visible'
  PROVE  Common!MapModeIsTrue' /\ g_map_state' = g_map_state
BY DEF Common!mapping, Common!capture, Common!bindingsVars, Common!MapModeIsTrue

-----------------------------------------------------------------------------
(* The Controllers window of KDE.                                            *)

(* Its definitions of Panel are those of the lemmas above. *)
LEMMA KdeCommon ==
  /\ KdeKeys!Init <=> Common!Init
  /\ KdeKeys!NothingSticks <=> Common!NothingSticks
  /\ KdeKeys!MapModeIsTrue <=> Common!MapModeIsTrue
  /\ \A k : (KdeKeys!Press(k) <=> Common!Press(k))
  /\ \A k : (KdeKeys!Release(k) <=> Common!Release(k))
  /\ \A h, l : (KdeKeys!Keyboard(h, l) <=> Common!Keyboard(h, l))
  /\ KdeKeys!ReleaseAll <=> Common!ReleaseAll
  /\ \A t, fires : (KdeKeys!LetsGo(t, fires) <=> Common!LetsGo(t, fires))
  /\ \A k : (KdeKeys!MapKey(k) <=> Common!MapKey(k))
  /\ \A state : (KdeKeys!SetMapState(state) <=> Common!SetMapState(state))
  /\ KdeKeys!LeaveMap <=> Common!LeaveMap
  /\ \A mods : (KdeKeys!Modifier(mods) <=> Common!Modifier(mods))
  /\ \A t : (KdeKeys!Pick(t) <=> Common!Pick(t))
  /\ \A t : (KdeKeys!PickedAlready(t) <=> Common!PickedAlready(t))
  /\ KdeKeys!ToggleMap <=> Common!ToggleMap
  /\ KdeKeys!ClearPicked <=> Common!ClearPicked
  /\ KdeKeys!Defaults <=> Common!Defaults
  /\ KdeKeys!CapturePoll <=> Common!CapturePoll
  /\ KdeKeys!Pads <=> Common!Pads
<1> USE DEF KdeKeys!Init, KdeKeys!BindingsInit, KdeKeys!Overrides, KdeKeys!Differing,
            KdeKeys!Idle, KdeKeys!Faces, KdeKeys!Unheld, KdeKeys!NothingSticks,
            KdeKeys!HeldKeys, KdeKeys!MapModeIsTrue, KdeKeys!Press, KdeKeys!Plays,
            KdeKeys!BoundTo, KdeKeys!Release, KdeKeys!Keyboard, KdeKeys!Without,
            KdeKeys!ReleaseAll, KdeKeys!LetsGo, KdeKeys!holds, KdeKeys!MapKey, KdeKeys!Armed,
            KdeKeys!mapping, KdeKeys!bindingsVars, KdeKeys!capture, KdeKeys!SetKeysym,
            KdeKeys!Persist, KdeKeys!SetMapState, KdeKeys!CaptureBegin, KdeKeys!Forgets,
            KdeKeys!CaptureCancel, KdeKeys!Refresh, KdeKeys!LeaveMap, KdeKeys!Modifier,
            KdeKeys!Pick, KdeKeys!Clicks, KdeKeys!PickedAlready, KdeKeys!ToggleMap,
            KdeKeys!user, KdeKeys!ClearPicked, KdeKeys!Clear, KdeKeys!Defaults,
            KdeKeys!ResetDefaults, KdeKeys!CapturePoll, KdeKeys!SetPad, KdeKeys!Overlap,
            KdeKeys!Pads, KdeKeys!PadTest, KdeKeys!PadHave, KdeKeys!PadDone, Common!Init,
            Common!BindingsInit, Common!Overrides, Common!Differing, Common!Idle, Common!Faces,
            Common!Unheld, Common!NothingSticks, Common!HeldKeys, Common!MapModeIsTrue,
            Common!Press, Common!Plays, Common!BoundTo, Common!Release, Common!Keyboard,
            Common!Without, Common!ReleaseAll, Common!LetsGo, Common!holds, Common!MapKey,
            Common!Armed, Common!mapping, Common!bindingsVars, Common!capture,
            Common!SetKeysym, Common!Persist, Common!SetMapState, Common!CaptureBegin,
            Common!Forgets, Common!CaptureCancel, Common!Refresh, Common!LeaveMap,
            Common!Modifier, Common!Pick, Common!Clicks, Common!PickedAlready,
            Common!ToggleMap, Common!user, Common!ClearPicked, Common!Clear, Common!Defaults,
            Common!ResetDefaults, Common!CapturePoll, Common!SetPad, Common!Overlap,
            Common!Pads, Common!PadTest, Common!PadHave, Common!PadDone
<1>1. KdeKeys!Init <=> Common!Init
  OBVIOUS
<1>2. KdeKeys!NothingSticks <=> Common!NothingSticks
  OBVIOUS
<1>3. KdeKeys!MapModeIsTrue <=> Common!MapModeIsTrue
  OBVIOUS
<1>4. \A k : (KdeKeys!Press(k) <=> Common!Press(k))
  OBVIOUS
<1>5. \A k : (KdeKeys!Release(k) <=> Common!Release(k))
  OBVIOUS
<1>6. \A h, l : (KdeKeys!Keyboard(h, l) <=> Common!Keyboard(h, l))
  OBVIOUS
<1>7. KdeKeys!ReleaseAll <=> Common!ReleaseAll
  OBVIOUS
<1>8. \A t, fires : (KdeKeys!LetsGo(t, fires) <=> Common!LetsGo(t, fires))
  OBVIOUS
<1>9. \A k : (KdeKeys!MapKey(k) <=> Common!MapKey(k))
  OBVIOUS
<1>10. \A state : (KdeKeys!SetMapState(state) <=> Common!SetMapState(state))
  OBVIOUS
<1>11. KdeKeys!LeaveMap <=> Common!LeaveMap
  OBVIOUS
<1>12. \A mods : (KdeKeys!Modifier(mods) <=> Common!Modifier(mods))
  OBVIOUS
<1>13. \A t : (KdeKeys!Pick(t) <=> Common!Pick(t))
  OBVIOUS
<1>14. \A t : (KdeKeys!PickedAlready(t) <=> Common!PickedAlready(t))
  OBVIOUS
<1>15. KdeKeys!ToggleMap <=> Common!ToggleMap
  OBVIOUS
<1>16. KdeKeys!ClearPicked <=> Common!ClearPicked
  OBVIOUS
<1>17. KdeKeys!Defaults <=> Common!Defaults
  OBVIOUS
<1>18. KdeKeys!CapturePoll <=> Common!CapturePoll
  OBVIOUS
<1>19. KdeKeys!Pads <=> Common!Pads
  OBVIOUS
<1> QED
  BY <1>1, <1>2, <1>3, <1>4, <1>5, <1>6, <1>7, <1>8, <1>9, <1>10, <1>11, <1>12, <1>13, <1>14,
     <1>15, <1>16, <1>17, <1>18, <1>19

(* A control that is held and has not slipped is the one that is down, and   *)
(* Map mode is off: its release will let go of it.                           *)
KdeWillLetGo == mouse \in panel \ slipped => g_map_state = Common!Idle /\ g_down = mouse

KdeKeysInv == KeysAreDown /\ NobodyHoldsAway
KdeMouseInv == MouseHolds /\ KdeWillLetGo
KdePanelInv == KdeKeysInv /\ KdeMouseInv /\ Common!MapModeIsTrue

LEMMA KdeMoveFocusStep ==
  ASSUME KdeKeysInv, NEW window, KdeKeys!MoveFocus(window), down \subseteq down'
  PROVE  KdeKeysInv' /\ UNCHANGED <<panel, slipped>> /\ focus' = window
<1>1. CASE UNCHANGED KdeKeys!holds /\ (window = focus \/ window = "panel")
  BY <1>1 DEF KdeKeys!MoveFocus, KdeKeys!holds, KdeKeysInv, KeysAreDown, NobodyHoldsAway
<1>2. CASE KdeKeys!ReleaseAll
  <2>1. (\A t \in Targets : g_held_keysym'[t] = NoKey) /\ UNCHANGED <<panel, slipped>>
    BY <1>2, KdeCommon, ReleaseAllStep
  <2> QED
    BY <2>1 DEF KdeKeys!MoveFocus, KdeKeysInv, KeysAreDown, NobodyHoldsAway
<1> QED
  BY <1>1, <1>2 DEF KdeKeys!MoveFocus

(* What does not move the mouse nor leaves the panel keeps its holds.        *)
LEMMA KdeMouseStays ==
  ASSUME KdeMouseInv, UNCHANGED <<panel, slipped, mouse, g_down>>,
         g_map_state = Common!Idle => g_map_state' = Common!Idle
  PROVE  KdeMouseInv'
BY DEF KdeMouseInv, MouseHolds, KdeWillLetGo

LEMMA KdeForwardStep ==
  ASSUME Common!PanelBounds, KdePanelInv, NEW k, KdeKeys!astroForwardKey(k), focus # "away",
         down' = down \cup {k}, UNCHANGED <<focus, mouse, visible, g_down>>
  PROVE  KdePanelInv'
<1> USE DEF KdePanelInv, KdeKeysInv
<1>1. CASE g_map_state # Common!Idle /\ Common!MapKey(k) /\ UNCHANGED Common!holds
  <2>1. Common!MapModeIsTrue'
    BY <1>1, MapKeyStep
  <2>2. KdeKeysInv' /\ KdeMouseInv'
    BY <1>1, KdeMouseStays DEF Common!holds, KeysAreDown, NobodyHoldsAway
  <2> QED
    BY <2>1, <2>2
<1>2. CASE Common!Press(k) /\ UNCHANGED Common!mapping
  <2>1. KeysAreDown' /\ UNCHANGED <<panel, slipped>>
    BY <1>2, PressStep
  <2>2. Common!MapModeIsTrue' /\ g_map_state' = g_map_state
    BY <1>2, SameMapStep
  <2> QED
    BY <2>1, <2>2, KdeMouseStays DEF NobodyHoldsAway
<1> QED
  BY <1>1, <1>2, KdeCommon
     DEF KdeKeys!astroForwardKey, KdeKeys!Idle, Common!Idle, KdeKeys!holds, Common!holds,
         KdeKeys!mapping, Common!mapping, KdeKeys!capture, Common!capture,
         KdeKeys!bindingsVars, Common!bindingsVars

LEMMA KdeHideStep ==
  ASSUME Common!PanelBounds, KdePanelInv, KdeKeys!Hide, down \subseteq down',
         UNCHANGED <<mouse, g_down>>
  PROVE  KdePanelInv'
<1> USE DEF KdePanelInv
<1>1. Common!MapModeIsTrue' /\ g_map_state' = Common!Idle
  BY LeaveMapStep, KdeCommon DEF KdeKeys!Hide
<1>2. KdeKeysInv' /\ UNCHANGED <<panel, slipped>>
  <2>1. CASE \E window \in {"main", "away"} : KdeKeys!MoveFocus(window)
    BY <2>1, KdeMoveFocusStep
  <2>2. CASE UNCHANGED <<focus, KdeKeys!holds>>
    BY <2>2 DEF KdeKeys!holds, KdeKeysInv, KeysAreDown, NobodyHoldsAway
  <2> QED
    BY <2>1, <2>2 DEF KdeKeys!Hide
<1> QED
  BY <1>1, <1>2, KdeMouseStays

LEMMA KdeToggleStep ==
  ASSUME Common!PanelBounds, KdePanelInv, KdeKeys!Toggle, down \subseteq down',
         UNCHANGED <<mouse, g_down>>
  PROVE  KdePanelInv'
<1> USE DEF KdePanelInv
<1>1. CASE visible
  BY <1>1, KdeHideStep DEF KdeKeys!Toggle
<1>2. CASE ~visible
  <2>1. visible' = TRUE /\ UNCHANGED Common!mapping
    BY <1>2 DEF KdeKeys!Toggle, KdeKeys!mapping, Common!mapping, KdeKeys!capture,
                Common!capture, KdeKeys!bindingsVars, Common!bindingsVars
  <2>2. KdeKeysInv' /\ UNCHANGED <<panel, slipped>>
    BY <1>2, KdeMoveFocusStep DEF KdeKeys!Toggle
  <2> QED
    BY <2>1, <2>2, SameMapStep, KdeMouseStays
<1> QED
  BY <1>1, <1>2

LEMMA KdeKeyStep ==
  ASSUME Common!PanelBounds, KdePanelInv, NEW k \in Keysyms, KdeKeys!KeyDown(k) \/ KdeKeys!KeyUp(k)
  PROVE  KdePanelInv'
<1> USE DEF KdePanelInv
<1>1. CASE KdeKeys!KeyDown(k)
  <2> USE DEF KdeKeys!KeyDown
  <2>1. down' = down \cup {k} /\ UNCHANGED <<mouse, g_down>>
    BY <1>1
  <2>2. CASE UNCHANGED <<focus, visible, KdeKeys!mapping, KdeKeys!holds>>
    <3>1. UNCHANGED Common!mapping
      BY <2>2 DEF KdeKeys!mapping, Common!mapping, KdeKeys!capture, Common!capture,
                  KdeKeys!bindingsVars, Common!bindingsVars
    <3> QED
      BY <2>1, <2>2, <3>1, SameMapStep, KdeMouseStays
         DEF KdeKeys!holds, KdeKeysInv, KeysAreDown, NobodyHoldsAway
  <2>3. CASE focus # "away" /\ KdeKeys!astroForwardKey(k) /\ UNCHANGED <<focus, visible>>
    BY <2>1, <2>3, KdeForwardStep
  <2>4. CASE KdeKeys!Toggle \/ KdeKeys!Hide
    BY <2>1, <2>4, KdeToggleStep, KdeHideStep
  <2> QED
    BY <1>1, <2>2, <2>3, <2>4 DEF KdeKeys!MainKeyDown, KdeKeys!PanelKeyDown
<1>2. CASE KdeKeys!KeyUp(k)
  <2>1. /\ down' = down \ {k} /\ UNCHANGED <<focus, mouse, visible, g_down>>
        /\ UNCHANGED Common!mapping
    BY <1>2 DEF KdeKeys!KeyUp, KdeKeys!mapping, Common!mapping, KdeKeys!capture,
                Common!capture, KdeKeys!bindingsVars, Common!bindingsVars
  <2>2. KdeKeysInv' /\ UNCHANGED <<panel, slipped>>
    <3>1. CASE focus = "away"
      BY <1>2, <2>1, <3>1 DEF KdeKeys!KeyUp, KdeKeys!holds, KdeKeysInv, KeysAreDown, NobodyHoldsAway
    <3>2. CASE focus # "away"
      BY <1>2, <2>1, <3>2, KdeCommon, KeyboardStep DEF KdeKeys!KeyUp, KdeKeysInv, NobodyHoldsAway
    <3> QED
      BY <3>1, <3>2
  <2> QED
    BY <2>1, <2>2, SameMapStep, KdeMouseStays
<1> QED
  BY <1>1, <1>2

LEMMA KdeFocusStep ==
  ASSUME Common!PanelBounds, KdePanelInv,
         (\E window \in {"main", "panel", "away"} : KdeKeys!FocusTo(window))
         \/ KdeKeys!Close \/ KdeKeys!Open
  PROVE  KdePanelInv'
<1> USE DEF KdePanelInv
<1>1. ASSUME NEW window \in {"main", "panel", "away"}, KdeKeys!FocusTo(window)
      PROVE  KdePanelInv'
  <2>1. UNCHANGED <<down, mouse, g_down, visible>> /\ UNCHANGED Common!mapping
    BY <1>1 DEF KdeKeys!FocusTo, KdeKeys!mapping, Common!mapping, KdeKeys!capture,
                Common!capture, KdeKeys!bindingsVars, Common!bindingsVars
  <2>2. KdeKeysInv' /\ UNCHANGED <<panel, slipped>>
    BY <1>1, <2>1, KdeMoveFocusStep DEF KdeKeys!FocusTo
  <2> QED
    BY <2>1, <2>2, SameMapStep, KdeMouseStays
<1>2. CASE KdeKeys!Close \/ KdeKeys!Open
  BY <1>2, KdeHideStep, KdeToggleStep DEF KdeKeys!Close, KdeKeys!Open
<1> QED
  BY <1>1, <1>2

LEMMA KdeMouseStep ==
  ASSUME Common!PanelBounds, KdePanelInv,
         (\E t \in Targets : KdeKeys!MouseDown(t) \/ KdeKeys!MouseUp(t)) \/ KdeKeys!MouseUpLost
  PROVE  KdePanelInv'
<1> USE DEF KdePanelInv, MouseHolds, KdeMouseInv, KdeWillLetGo, KdeKeys!holds
<1>1. ASSUME NEW t \in Targets, KdeKeys!MouseDown(t)
      PROVE  KdeMouseInv' /\ UNCHANGED <<g_held_keysym, missed>>
  <2>1. mouse = NoTarget /\ g_map_state = Common!Idle /\ g_map_state' = Common!Idle /\ mouse' = t
    BY <1>1 DEF KdeKeys!MouseDown, KdeKeys!Clicks, KdeKeys!Idle, Common!Idle, KdeKeys!mapping
  <2>2. panel \subseteq slipped
    BY <2>1 DEF Common!PanelBounds
  <2>3. CASE t \in SysActs \cup KnobTargets
    BY <1>1, <2>1, <2>2, <2>3 DEF KdeKeys!MouseDown
  <2>4. CASE t \notin SysActs \cup KnobTargets
    BY <1>1, <2>1, <2>2, <2>4 DEF KdeKeys!MouseDown, KdeKeys!Holds
  <2> QED
    BY <2>3, <2>4
<1>2. ASSUME NEW t \in Targets, KdeKeys!MouseUp(t)
      PROVE  KdeMouseInv' /\ (UNCHANGED <<g_held_keysym, missed>>
                              \/ \A u \in Targets : g_held_keysym'[u] = NoKey)
  <2>1. mouse = t /\ mouse' = NoTarget
    BY <1>2 DEF KdeKeys!MouseUp
  <2>2. CASE KdeKeys!LetsGo(t, TRUE)
    BY <2>1, <2>2, KdeCommon, LetsGoStep DEF Common!PanelBounds
  <2>3. CASE UNCHANGED KdeKeys!holds /\ ~(t = g_down /\ g_map_state = Common!Idle)
    BY <2>1, <2>3 DEF Common!PanelBounds
  <2> QED
    BY <1>2, <2>2, <2>3 DEF KdeKeys!MouseUp, KdeKeys!Idle, Common!Idle
<1>3. CASE KdeKeys!MouseUpLost
  <2>1. KdeMouseInv' /\ UNCHANGED <<g_held_keysym, missed>>
    BY <1>3 DEF KdeKeys!MouseUpLost, Common!PanelBounds
  <2> QED
    BY <1>3, <2>1, SameMapStep
       DEF KdeKeys!MouseUpLost, KdeKeysInv, KeysAreDown, NobodyHoldsAway,
           KdeKeys!mapping, Common!mapping, KdeKeys!capture, Common!capture,
           KdeKeys!bindingsVars, Common!bindingsVars
<1>4. ASSUME NEW t \in Targets, KdeKeys!MouseDown(t) \/ KdeKeys!MouseUp(t)
      PROVE  UNCHANGED <<down, focus, visible>> /\ UNCHANGED Common!mapping
  BY <1>4 DEF KdeKeys!MouseDown, KdeKeys!MouseUp, KdeKeys!mapping, Common!mapping,
              KdeKeys!capture, Common!capture, KdeKeys!bindingsVars, Common!bindingsVars
<1> QED
  BY <1>1, <1>2, <1>3, <1>4, SameMapStep DEF KdeKeysInv, KeysAreDown, NobodyHoldsAway

LEMMA KdePanelInvariance ==
  ASSUME Common!PanelBounds
  PROVE  KdeKeys!Spec => []KdePanelInv
<1>1. KdeKeys!Init => KdePanelInv
  BY DEF KdeKeys!Init, KdePanelInv, KdeKeysInv, KeysAreDown, NobodyHoldsAway, KdeMouseInv,
         MouseHolds, KdeWillLetGo, Common!MapModeIsTrue, KdeKeys!Unheld, KdeKeys!Idle,
         Common!Idle, KdeKeys!Faces, Common!Faces, Common!PanelBounds
<1>2. KdePanelInv /\ [KdeKeys!Next]_(KdeKeys!vars) => KdePanelInv'
  <2> SUFFICES ASSUME KdePanelInv, [KdeKeys!Next]_(KdeKeys!vars)
               PROVE  KdePanelInv'
    OBVIOUS
  <2>1. CASE SharedAction
    <3>1. /\ Common!MapModeIsTrue'
          /\ UNCHANGED <<down, focus, visible, g_down, panel, g_held_keysym, missed, slipped>>
          /\ \/ mouse' = mouse /\ (g_map_state = Common!Idle => g_map_state' = Common!Idle)
             \/ mouse = NoTarget
      BY <2>1, SharedStep DEF KdePanelInv
    <3> QED
      BY <3>1 DEF KdePanelInv, KdeKeysInv, KeysAreDown, NobodyHoldsAway, KdeMouseInv,
                  MouseHolds, KdeWillLetGo, Common!PanelBounds
  <2>2. CASE Picking /\ mouse' \in Targets
    <3>1. /\ Common!MapModeIsTrue'
          /\ UNCHANGED <<down, focus, panel, g_held_keysym, missed, slipped>>
          /\ mouse = NoTarget
      BY <2>2, PickStep DEF KdePanelInv
    <3>2. panel \subseteq slipped
      BY <3>1 DEF KdePanelInv, KdeMouseInv, MouseHolds, Common!PanelBounds
    <3> QED
      BY <3>1, <3>2 DEF KdePanelInv, KdeKeysInv, KeysAreDown, NobodyHoldsAway, KdeMouseInv,
                        MouseHolds, KdeWillLetGo
  <2>3. CASE UNCHANGED KdeKeys!vars
    BY <2>3 DEF KdeKeys!vars, KdeKeys!user, KdeKeys!mapping, KdeKeys!bindingsVars,
                KdeKeys!capture, KdeKeys!holds, KdePanelInv, KdeKeysInv, KeysAreDown,
                NobodyHoldsAway, KdeMouseInv, MouseHolds, KdeWillLetGo, Common!MapModeIsTrue
  <2>4. KdeKeys!Next =>
          \/ SharedAction
          \/ Picking /\ mouse' \in Targets
          \/ \E k \in Keysyms : KdeKeys!KeyDown(k) \/ KdeKeys!KeyUp(k)
          \/ (\E window \in {"main", "panel", "away"} : KdeKeys!FocusTo(window))
             \/ KdeKeys!Close \/ KdeKeys!Open
          \/ (\E t \in Targets : KdeKeys!MouseDown(t) \/ KdeKeys!MouseUp(t))
             \/ KdeKeys!MouseUpLost
    BY KdeCommon DEF KdeKeys!Next, SharedAction, Picking, KdeKeys!Picks, KdeKeys!MapButtons,
                     KdeKeys!capturePoll, Common!Pick, Common!PickedAlready
  <2> QED
    BY <2>1, <2>2, <2>3, <2>4, KdeKeyStep, KdeFocusStep, KdeMouseStep
<1> QED
  BY <1>1, <1>2, PTL DEF KdeKeys!Spec

(* Nothing stays held in the machine that nobody holds, on KDE, but for a      *)
(* button hidden under the mouse (frontends/kde/MainWindow.cpp,                *)
(* keypad/KeypadWindow.cpp).                                                   *)
THEOREM KdeNothingSticks ==
  ASSUME Common!PanelBounds
  PROVE  KdeKeys!Spec => []KdeKeys!NothingSticks
<1>1. KdePanelInv => Common!NothingSticks
  BY DEF KdePanelInv, KdeKeysInv, KdeMouseInv, KeysAreDown, MouseHolds, Common!NothingSticks,
         Common!HeldKeys
<1> QED
  BY <1>1, KdeCommon, KdePanelInvariance, PTL

(* Map mode shows the table that is, waits for what it says and takes no pad   *)
(* input from the game otherwise, on KDE.                                      *)
THEOREM KdeMapModeIsTrue ==
  ASSUME Common!PanelBounds
  PROVE  KdeKeys!Spec => []KdeKeys!MapModeIsTrue
<1>1. KdePanelInv => KdeKeys!MapModeIsTrue
  BY KdeCommon DEF KdePanelInv
<1> QED
  BY <1>1, KdePanelInvariance, PTL

-----------------------------------------------------------------------------
(* The Controllers window of GNOME.                                        *)

(* Its definitions of Panel are those of the lemmas above. *)
LEMMA GtkCommon ==
  /\ GtkKeys!Init <=> Common!Init
  /\ GtkKeys!NothingSticks <=> Common!NothingSticks
  /\ GtkKeys!MapModeIsTrue <=> Common!MapModeIsTrue
  /\ \A k : (GtkKeys!Press(k) <=> Common!Press(k))
  /\ \A k : (GtkKeys!Release(k) <=> Common!Release(k))
  /\ \A h, l : (GtkKeys!Keyboard(h, l) <=> Common!Keyboard(h, l))
  /\ GtkKeys!ReleaseAll <=> Common!ReleaseAll
  /\ \A t, fires : (GtkKeys!LetsGo(t, fires) <=> Common!LetsGo(t, fires))
  /\ \A k : (GtkKeys!MapKey(k) <=> Common!MapKey(k))
  /\ \A state : (GtkKeys!SetMapState(state) <=> Common!SetMapState(state))
  /\ GtkKeys!LeaveMap <=> Common!LeaveMap
  /\ \A mods : (GtkKeys!Modifier(mods) <=> Common!Modifier(mods))
  /\ \A t : (GtkKeys!Pick(t) <=> Common!Pick(t))
  /\ \A t : (GtkKeys!PickedAlready(t) <=> Common!PickedAlready(t))
  /\ GtkKeys!ToggleMap <=> Common!ToggleMap
  /\ GtkKeys!ClearPicked <=> Common!ClearPicked
  /\ GtkKeys!Defaults <=> Common!Defaults
  /\ GtkKeys!CapturePoll <=> Common!CapturePoll
  /\ GtkKeys!Pads <=> Common!Pads
<1> USE DEF GtkKeys!Init, GtkKeys!BindingsInit, GtkKeys!Overrides, GtkKeys!Differing,
            GtkKeys!Idle, GtkKeys!Faces, GtkKeys!Unheld, GtkKeys!NothingSticks,
            GtkKeys!HeldKeys, GtkKeys!MapModeIsTrue, GtkKeys!Press, GtkKeys!Plays,
            GtkKeys!BoundTo, GtkKeys!Release, GtkKeys!Keyboard, GtkKeys!Without,
            GtkKeys!ReleaseAll, GtkKeys!LetsGo, GtkKeys!holds, GtkKeys!MapKey, GtkKeys!Armed,
            GtkKeys!mapping, GtkKeys!bindingsVars, GtkKeys!capture, GtkKeys!SetKeysym,
            GtkKeys!Persist, GtkKeys!SetMapState, GtkKeys!CaptureBegin, GtkKeys!Forgets,
            GtkKeys!CaptureCancel, GtkKeys!Refresh, GtkKeys!LeaveMap, GtkKeys!Modifier,
            GtkKeys!Pick, GtkKeys!Clicks, GtkKeys!PickedAlready, GtkKeys!ToggleMap,
            GtkKeys!user, GtkKeys!ClearPicked, GtkKeys!Clear, GtkKeys!Defaults,
            GtkKeys!ResetDefaults, GtkKeys!CapturePoll, GtkKeys!SetPad, GtkKeys!Overlap,
            GtkKeys!Pads, GtkKeys!PadTest, GtkKeys!PadHave, GtkKeys!PadDone, Common!Init,
            Common!BindingsInit, Common!Overrides, Common!Differing, Common!Idle, Common!Faces,
            Common!Unheld, Common!NothingSticks, Common!HeldKeys, Common!MapModeIsTrue,
            Common!Press, Common!Plays, Common!BoundTo, Common!Release, Common!Keyboard,
            Common!Without, Common!ReleaseAll, Common!LetsGo, Common!holds, Common!MapKey,
            Common!Armed, Common!mapping, Common!bindingsVars, Common!capture,
            Common!SetKeysym, Common!Persist, Common!SetMapState, Common!CaptureBegin,
            Common!Forgets, Common!CaptureCancel, Common!Refresh, Common!LeaveMap,
            Common!Modifier, Common!Pick, Common!Clicks, Common!PickedAlready,
            Common!ToggleMap, Common!user, Common!ClearPicked, Common!Clear, Common!Defaults,
            Common!ResetDefaults, Common!CapturePoll, Common!SetPad, Common!Overlap,
            Common!Pads, Common!PadTest, Common!PadHave, Common!PadDone
<1>1. GtkKeys!Init <=> Common!Init
  OBVIOUS
<1>2. GtkKeys!NothingSticks <=> Common!NothingSticks
  OBVIOUS
<1>3. GtkKeys!MapModeIsTrue <=> Common!MapModeIsTrue
  OBVIOUS
<1>4. \A k : (GtkKeys!Press(k) <=> Common!Press(k))
  OBVIOUS
<1>5. \A k : (GtkKeys!Release(k) <=> Common!Release(k))
  OBVIOUS
<1>6. \A h, l : (GtkKeys!Keyboard(h, l) <=> Common!Keyboard(h, l))
  OBVIOUS
<1>7. GtkKeys!ReleaseAll <=> Common!ReleaseAll
  OBVIOUS
<1>8. \A t, fires : (GtkKeys!LetsGo(t, fires) <=> Common!LetsGo(t, fires))
  OBVIOUS
<1>9. \A k : (GtkKeys!MapKey(k) <=> Common!MapKey(k))
  OBVIOUS
<1>10. \A state : (GtkKeys!SetMapState(state) <=> Common!SetMapState(state))
  OBVIOUS
<1>11. GtkKeys!LeaveMap <=> Common!LeaveMap
  OBVIOUS
<1>12. \A mods : (GtkKeys!Modifier(mods) <=> Common!Modifier(mods))
  OBVIOUS
<1>13. \A t : (GtkKeys!Pick(t) <=> Common!Pick(t))
  OBVIOUS
<1>14. \A t : (GtkKeys!PickedAlready(t) <=> Common!PickedAlready(t))
  OBVIOUS
<1>15. GtkKeys!ToggleMap <=> Common!ToggleMap
  OBVIOUS
<1>16. GtkKeys!ClearPicked <=> Common!ClearPicked
  OBVIOUS
<1>17. GtkKeys!Defaults <=> Common!Defaults
  OBVIOUS
<1>18. GtkKeys!CapturePoll <=> Common!CapturePoll
  OBVIOUS
<1>19. GtkKeys!Pads <=> Common!Pads
  OBVIOUS
<1> QED
  BY <1>1, <1>2, <1>3, <1>4, <1>5, <1>6, <1>7, <1>8, <1>9, <1>10, <1>11, <1>12, <1>13, <1>14,
     <1>15, <1>16, <1>17, <1>18, <1>19

(* The main window forwards neither the press of F9 nor its release.         *)
GtkKeepsF9 ==
  focus = "main" => \A t \in Targets : g_held_keysym[t] # NoKey => g_held_keysym[t] # F9

(* Nothing slips from the mouse, and while it holds a control Map mode is    *)
(* off: the release will let go of it.                                       *)
GtkWillLetGo == slipped = {} /\ (panel # {} => g_map_state = Common!Idle)

GtkKeysInv == KeysAreDown /\ NobodyHoldsAway /\ GtkKeepsF9
GtkMouseInv == MouseHolds /\ GtkWillLetGo
GtkPanelInv == GtkKeysInv /\ GtkMouseInv /\ Common!MapModeIsTrue

LEMMA GtkMoveFocusStep ==
  ASSUME GtkKeysInv, NEW window, GtkKeys!MoveFocus(window), down \subseteq down'
  PROVE  GtkKeysInv' /\ UNCHANGED <<panel, slipped>>
<1> USE DEF GtkKeysInv, KeysAreDown, NobodyHoldsAway, GtkKeepsF9
<1>1. CASE UNCHANGED GtkKeys!holds /\ window = focus
  BY <1>1 DEF GtkKeys!MoveFocus, GtkKeys!holds
<1>2. CASE GtkKeys!ReleaseAll
  <2>1. (\A t \in Targets : g_held_keysym'[t] = NoKey) /\ UNCHANGED <<panel, slipped>>
    BY <1>2, GtkCommon, ReleaseAllStep
  <2> QED
    BY <2>1 DEF GtkKeys!MoveFocus
<1> QED
  BY <1>1, <1>2 DEF GtkKeys!MoveFocus

LEMMA GtkMouseStays ==
  ASSUME GtkMouseInv, UNCHANGED <<panel, slipped, mouse>>,
         g_map_state = Common!Idle => g_map_state' = Common!Idle
  PROVE  GtkMouseInv'
BY DEF GtkMouseInv, MouseHolds, GtkWillLetGo

(* A key of Map mode, of either window.                                      *)
LEMMA GtkMapKeyStep ==
  ASSUME Common!PanelBounds, GtkPanelInv, NEW k, g_map_state # Common!Idle, GtkKeys!MapKey(k),
         UNCHANGED GtkKeys!holds, down' = down \cup {k}, UNCHANGED <<focus, mouse, visible>>
  PROVE  GtkPanelInv'
<1>1. Common!MapModeIsTrue'
  BY GtkCommon, MapKeyStep DEF GtkPanelInv
<1>2. GtkKeysInv' /\ GtkMouseInv'
  BY GtkMouseStays DEF GtkPanelInv, GtkKeys!holds, GtkKeysInv, KeysAreDown, NobodyHoldsAway,
                       GtkKeepsF9
<1> QED
  BY <1>1, <1>2 DEF GtkPanelInv

LEMMA GtkForwardStep ==
  ASSUME Common!PanelBounds, GtkPanelInv, NEW k, GtkKeys!astro_window_input_key(k),
         focus # "away", focus = "main" => k # F9,
         down' = down \cup {k}, UNCHANGED <<focus, mouse, visible>>
  PROVE  GtkPanelInv'
<1>1. CASE g_map_state # Common!Idle /\ GtkKeys!MapKey(k) /\ UNCHANGED GtkKeys!holds
  BY <1>1, GtkMapKeyStep
<1>2. CASE Common!Press(k) /\ UNCHANGED Common!mapping
  <2> USE DEF GtkPanelInv, GtkKeysInv
  <2>1. /\ KeysAreDown' /\ UNCHANGED <<panel, slipped>>
        /\ \A t \in Targets : g_held_keysym'[t] = k \/ g_held_keysym'[t] = g_held_keysym[t]
    BY <1>2, PressStep
  <2>2. Common!MapModeIsTrue' /\ g_map_state' = g_map_state
    BY <1>2, SameMapStep
  <2> QED
    BY <2>1, <2>2, GtkMouseStays DEF NobodyHoldsAway, GtkKeepsF9
<1> QED
  BY <1>1, <1>2, GtkCommon
     DEF GtkKeys!astro_window_input_key, GtkKeys!Idle, Common!Idle, GtkKeys!mapping,
         Common!mapping, GtkKeys!capture, Common!capture, GtkKeys!bindingsVars,
         Common!bindingsVars

LEMMA GtkHideStep ==
  ASSUME Common!PanelBounds, GtkPanelInv, GtkKeys!Hide, down \subseteq down'
  PROVE  GtkPanelInv'
<1> USE DEF GtkPanelInv
<1>1. Common!MapModeIsTrue'
  BY LeaveMapStep, GtkCommon DEF GtkKeys!Hide
<1>2. GtkKeysInv'
  <2>1. CASE focus = "panel"
    BY <2>1 DEF GtkKeys!Hide, GtkKeys!Unheld, GtkKeysInv, KeysAreDown, NobodyHoldsAway, GtkKeepsF9
  <2>2. CASE focus # "panel"
    BY <2>2 DEF GtkKeys!Hide, GtkKeysInv, KeysAreDown, NobodyHoldsAway, GtkKeepsF9
  <2> QED
    BY <2>1, <2>2
<1>3. GtkMouseInv'
  BY DEF GtkKeys!Hide, GtkMouseInv, MouseHolds, GtkWillLetGo
<1> QED
  BY <1>1, <1>2, <1>3

LEMMA GtkToggleStep ==
  ASSUME Common!PanelBounds, GtkPanelInv, GtkKeys!Toggle, down \subseteq down'
  PROVE  GtkPanelInv'
<1> USE DEF GtkPanelInv
<1>1. CASE visible
  BY <1>1, GtkHideStep DEF GtkKeys!Toggle
<1>2. CASE ~visible
  <2>1. visible' = TRUE /\ UNCHANGED mouse /\ UNCHANGED Common!mapping
    BY <1>2 DEF GtkKeys!Toggle, GtkKeys!mapping, Common!mapping, GtkKeys!capture,
                Common!capture, GtkKeys!bindingsVars, Common!bindingsVars
  <2>2. GtkKeysInv' /\ UNCHANGED <<panel, slipped>>
    BY <1>2, GtkMoveFocusStep DEF GtkKeys!Toggle
  <2> QED
    BY <2>1, <2>2, SameMapStep, GtkMouseStays
<1> QED
  BY <1>1, <1>2

LEMMA GtkKeyDownStep ==
  ASSUME Common!PanelBounds, GtkPanelInv, NEW k \in Keysyms, GtkKeys!KeyDown(k)
  PROVE  GtkPanelInv'
<1> USE DEF GtkKeys!KeyDown, GtkKeys!Idle, Common!Idle
<1>1. down' = down \cup {k}
  OBVIOUS
<1>2. CASE UNCHANGED <<focus, mouse, visible, GtkKeys!mapping, GtkKeys!holds>>
  <2>1. UNCHANGED Common!mapping
    BY <1>2 DEF GtkKeys!mapping, Common!mapping, GtkKeys!capture, Common!capture,
                GtkKeys!bindingsVars, Common!bindingsVars
  <2> QED
    BY <1>1, <1>2, <2>1, SameMapStep, GtkMouseStays
       DEF GtkPanelInv, GtkKeys!holds, GtkKeysInv, KeysAreDown, NobodyHoldsAway, GtkKeepsF9
<1>3. CASE /\ GtkKeys!MapKey(k) /\ g_map_state # Common!Idle
           /\ UNCHANGED <<focus, mouse, visible, GtkKeys!holds>>
  BY <1>1, <1>3, GtkMapKeyStep
<1>4. CASE /\ focus # "away" /\ (focus = "main" => k # F9)
           /\ GtkKeys!astro_window_input_key(k) /\ UNCHANGED <<focus, mouse, visible>>
  BY <1>1, <1>4, GtkForwardStep
<1>5. CASE GtkKeys!Toggle
  BY <1>1, <1>5, GtkToggleStep
<1> QED
  BY <1>2, <1>3, <1>4, <1>5 DEF GtkKeys!MainKeyDown, GtkKeys!PanelKeyDown

LEMMA GtkKeyUpStep ==
  ASSUME Common!PanelBounds, GtkPanelInv, NEW k \in Keysyms, GtkKeys!KeyUp(k)
  PROVE  GtkPanelInv'
<1> USE DEF GtkPanelInv
<1>1. /\ down' = down \ {k} /\ UNCHANGED <<focus, mouse, visible>>
      /\ UNCHANGED Common!mapping
  BY DEF GtkKeys!KeyUp, GtkKeys!mapping, Common!mapping, GtkKeys!capture, Common!capture,
         GtkKeys!bindingsVars, Common!bindingsVars
<1>2. GtkKeysInv' /\ UNCHANGED <<panel, slipped>>
  <2> USE DEF GtkKeysInv, NobodyHoldsAway, GtkKeepsF9
  <2>1. CASE focus = "away"
    BY <1>1, <2>1 DEF GtkKeys!KeyUp, GtkKeys!holds, KeysAreDown
  <2>2. CASE Common!Release(k) \/ Common!Keyboard(g_held_keysym, {k})
    BY <1>1, <2>2, KeyboardStep
  <2>3. CASE focus = "main" /\ k = F9 /\ Common!Keyboard(g_held_keysym, {})
    BY <1>1, <2>3 DEF Common!Keyboard, Common!HeldKeys, KeysAreDown
  <2>4. k # F9 => {k} \ {F9} = {k}
    OBVIOUS
  <2>5. k = F9 => {k} \ {F9} = {}
    OBVIOUS
  <2> QED
    BY <2>1, <2>2, <2>3, <2>4, <2>5, GtkCommon DEF GtkKeys!KeyUp, GtkKeys!Drops
<1> QED
  BY <1>1, <1>2, SameMapStep, GtkMouseStays

LEMMA GtkFocusStep ==
  ASSUME Common!PanelBounds, GtkPanelInv,
         (\E window \in {"main", "panel", "away"} : GtkKeys!FocusTo(window))
         \/ GtkKeys!Close \/ GtkKeys!Open
  PROVE  GtkPanelInv'
<1> USE DEF GtkPanelInv
<1>1. ASSUME NEW window \in {"main", "panel", "away"}, GtkKeys!FocusTo(window)
      PROVE  GtkPanelInv'
  <2>1. UNCHANGED <<down, mouse, visible>> /\ UNCHANGED Common!mapping
    BY <1>1 DEF GtkKeys!FocusTo, GtkKeys!mapping, Common!mapping, GtkKeys!capture,
                Common!capture, GtkKeys!bindingsVars, Common!bindingsVars
  <2>2. GtkKeysInv' /\ UNCHANGED <<panel, slipped>>
    BY <1>1, <2>1, GtkMoveFocusStep DEF GtkKeys!FocusTo
  <2> QED
    BY <2>1, <2>2, SameMapStep, GtkMouseStays
<1>2. CASE GtkKeys!Close \/ GtkKeys!Open
  BY <1>2, GtkHideStep, GtkToggleStep DEF GtkKeys!Close, GtkKeys!Open
<1> QED
  BY <1>1, <1>2

LEMMA GtkMouseStep ==
  ASSUME Common!PanelBounds, GtkPanelInv, NEW t \in Targets, NEW inside \in BOOLEAN,
         GtkKeys!MouseDown(t) \/ GtkKeys!MouseUp(t, inside)
  PROVE  GtkPanelInv'
<1> USE DEF GtkPanelInv, MouseHolds, GtkMouseInv, GtkWillLetGo, GtkKeys!holds
<1>1. UNCHANGED <<down, focus, visible>> /\ UNCHANGED Common!mapping
  BY DEF GtkKeys!MouseDown, GtkKeys!MouseUp, GtkKeys!mapping, Common!mapping,
         GtkKeys!capture, Common!capture, GtkKeys!bindingsVars, Common!bindingsVars
<1>2. Common!MapModeIsTrue' /\ g_map_state' = g_map_state
  BY <1>1, SameMapStep
<1>3. CASE GtkKeys!MouseDown(t)
  <2>1. /\ mouse = NoTarget /\ mouse' = t /\ g_map_state = Common!Idle
        /\ UNCHANGED <<g_held_keysym, missed, slipped>>
    BY <1>3 DEF GtkKeys!MouseDown, GtkKeys!Clicks, GtkKeys!Idle, Common!Idle, GtkKeys!Holds
  <2>2. panel = {}
    BY <2>1 DEF Common!PanelBounds
  <2>3. panel' \subseteq {t} \ (SysActs \cup KnobTargets)
    BY <1>3, <2>2 DEF GtkKeys!MouseDown, GtkKeys!Holds
  <2> QED
    BY <1>1, <1>2, <2>1, <2>3 DEF GtkKeysInv, KeysAreDown, NobodyHoldsAway, GtkKeepsF9
<1>4. CASE GtkKeys!MouseUp(t, inside)
  <2>1. mouse = t /\ mouse' = NoTarget
    BY <1>4 DEF GtkKeys!MouseUp
  <2>2. CASE GtkKeys!LetsGo(t, inside)
    <3>1. /\ panel' \subseteq panel \ {t} /\ slipped' \subseteq slipped
          /\ UNCHANGED <<g_held_keysym, missed>> \/ \A u \in Targets : g_held_keysym'[u] = NoKey
      BY <2>2, GtkCommon, LetsGoStep
    <3> QED
      BY <1>1, <1>2, <2>1, <3>1 DEF GtkKeysInv, KeysAreDown, NobodyHoldsAway, GtkKeepsF9
  <2>3. CASE UNCHANGED GtkKeys!holds /\ (g_map_state # Common!Idle \/ t \in KnobTargets)
    BY <1>1, <1>2, <2>1, <2>3 DEF GtkKeysInv, KeysAreDown, NobodyHoldsAway, GtkKeepsF9
  <2> QED
    BY <1>4, <2>2, <2>3 DEF GtkKeys!MouseUp, GtkKeys!Idle, Common!Idle
<1> QED
  BY <1>3, <1>4

LEMMA GtkPanelInvariance ==
  ASSUME Common!PanelBounds
  PROVE  GtkKeys!Spec => []GtkPanelInv
<1>1. GtkKeys!Init => GtkPanelInv
  BY DEF GtkKeys!Init, GtkPanelInv, GtkKeysInv, KeysAreDown, NobodyHoldsAway, GtkKeepsF9,
         GtkMouseInv, MouseHolds, GtkWillLetGo, Common!MapModeIsTrue, GtkKeys!Unheld,
         GtkKeys!Idle, Common!Idle, GtkKeys!Faces, Common!Faces, Common!PanelBounds
<1>2. GtkPanelInv /\ [GtkKeys!Next]_(GtkKeys!vars) => GtkPanelInv'
  <2> SUFFICES ASSUME GtkPanelInv, [GtkKeys!Next]_(GtkKeys!vars)
               PROVE  GtkPanelInv'
    OBVIOUS
  <2>1. CASE SharedAction
    <3>1. /\ Common!MapModeIsTrue'
          /\ UNCHANGED <<down, focus, visible, g_down, panel, g_held_keysym, missed, slipped>>
          /\ \/ mouse' = mouse /\ (g_map_state = Common!Idle => g_map_state' = Common!Idle)
             \/ mouse = NoTarget
      BY <2>1, SharedStep DEF GtkPanelInv
    <3> QED
      BY <3>1 DEF GtkPanelInv, GtkKeysInv, KeysAreDown, NobodyHoldsAway, GtkKeepsF9,
                  GtkMouseInv, MouseHolds, GtkWillLetGo, Common!PanelBounds
  <2>2. CASE UNCHANGED GtkKeys!vars
    BY <2>2 DEF GtkKeys!vars, GtkKeys!user, GtkKeys!mapping, GtkKeys!bindingsVars,
                GtkKeys!capture, GtkKeys!holds, GtkPanelInv, GtkKeysInv, KeysAreDown,
                NobodyHoldsAway, GtkKeepsF9, GtkMouseInv, MouseHolds, GtkWillLetGo,
                Common!MapModeIsTrue
  <2>3. GtkKeys!Next =>
          \/ SharedAction
          \/ \E k \in Keysyms : GtkKeys!KeyDown(k) \/ GtkKeys!KeyUp(k)
          \/ (\E window \in {"main", "panel", "away"} : GtkKeys!FocusTo(window))
             \/ GtkKeys!Close \/ GtkKeys!Open
          \/ \E t \in Targets : \/ GtkKeys!MouseDown(t)
                                \/ \E inside \in BOOLEAN : GtkKeys!MouseUp(t, inside)
    BY GtkCommon DEF GtkKeys!Next, SharedAction, Picking, GtkKeys!Picks, GtkKeys!MapButtons,
                     GtkKeys!capture_poll
  <2> QED
    BY <2>1, <2>2, <2>3, GtkKeyDownStep, GtkKeyUpStep, GtkFocusStep, GtkMouseStep
<1> QED
  BY <1>1, <1>2, PTL DEF GtkKeys!Spec

(* Nothing stays held in the machine that nobody holds, on GNOME, but for a    *)
(* key whose release is a shortcut's (frontends/gnome/window.c,                *)
(* keypad/keypad_window.c).                                                    *)
THEOREM GtkNothingSticks ==
  ASSUME Common!PanelBounds
  PROVE  GtkKeys!Spec => []GtkKeys!NothingSticks
<1>1. GtkPanelInv => Common!NothingSticks
  BY DEF GtkPanelInv, GtkKeysInv, GtkMouseInv, KeysAreDown, MouseHolds, Common!NothingSticks,
         Common!HeldKeys
<1> QED
  BY <1>1, GtkCommon, GtkPanelInvariance, PTL

(* Map mode shows the table that is, waits for what it says and takes no pad   *)
(* input from the game otherwise, on GNOME.                                    *)
THEOREM GtkMapModeIsTrue ==
  ASSUME Common!PanelBounds
  PROVE  GtkKeys!Spec => []GtkKeys!MapModeIsTrue
<1>1. GtkPanelInv => GtkKeys!MapModeIsTrue
  BY GtkCommon DEF GtkPanelInv
<1> QED
  BY <1>1, GtkPanelInvariance, PTL

-----------------------------------------------------------------------------
(* The Controllers window of Windows.                                      *)

(* Its definitions of Panel are those of the lemmas above. *)
LEMMA WinCommon ==
  /\ WinKeys!Init <=> Common!Init
  /\ WinKeys!NothingSticks <=> Common!NothingSticks
  /\ WinKeys!MapModeIsTrue <=> Common!MapModeIsTrue
  /\ \A k : (WinKeys!Press(k) <=> Common!Press(k))
  /\ \A k : (WinKeys!Release(k) <=> Common!Release(k))
  /\ \A h, l : (WinKeys!Keyboard(h, l) <=> Common!Keyboard(h, l))
  /\ WinKeys!ReleaseAll <=> Common!ReleaseAll
  /\ \A t, fires : (WinKeys!LetsGo(t, fires) <=> Common!LetsGo(t, fires))
  /\ \A k : (WinKeys!MapKey(k) <=> Common!MapKey(k))
  /\ \A state : (WinKeys!SetMapState(state) <=> Common!SetMapState(state))
  /\ WinKeys!LeaveMap <=> Common!LeaveMap
  /\ \A mods : (WinKeys!Modifier(mods) <=> Common!Modifier(mods))
  /\ \A t : (WinKeys!Pick(t) <=> Common!Pick(t))
  /\ \A t : (WinKeys!PickedAlready(t) <=> Common!PickedAlready(t))
  /\ WinKeys!ToggleMap <=> Common!ToggleMap
  /\ WinKeys!ClearPicked <=> Common!ClearPicked
  /\ WinKeys!Defaults <=> Common!Defaults
  /\ WinKeys!CapturePoll <=> Common!CapturePoll
  /\ WinKeys!Pads <=> Common!Pads
<1> USE DEF WinKeys!Init, WinKeys!BindingsInit, WinKeys!Overrides, WinKeys!Differing,
            WinKeys!Idle, WinKeys!Faces, WinKeys!Unheld, WinKeys!NothingSticks,
            WinKeys!HeldKeys, WinKeys!MapModeIsTrue, WinKeys!Press, WinKeys!Plays,
            WinKeys!BoundTo, WinKeys!Release, WinKeys!Keyboard, WinKeys!Without,
            WinKeys!ReleaseAll, WinKeys!LetsGo, WinKeys!holds, WinKeys!MapKey, WinKeys!Armed,
            WinKeys!mapping, WinKeys!bindingsVars, WinKeys!capture, WinKeys!SetKeysym,
            WinKeys!Persist, WinKeys!SetMapState, WinKeys!CaptureBegin, WinKeys!Forgets,
            WinKeys!CaptureCancel, WinKeys!Refresh, WinKeys!LeaveMap, WinKeys!Modifier,
            WinKeys!Pick, WinKeys!Clicks, WinKeys!PickedAlready, WinKeys!ToggleMap,
            WinKeys!user, WinKeys!ClearPicked, WinKeys!Clear, WinKeys!Defaults,
            WinKeys!ResetDefaults, WinKeys!CapturePoll, WinKeys!SetPad, WinKeys!Overlap,
            WinKeys!Pads, WinKeys!PadTest, WinKeys!PadHave, WinKeys!PadDone, Common!Init,
            Common!BindingsInit, Common!Overrides, Common!Differing, Common!Idle, Common!Faces,
            Common!Unheld, Common!NothingSticks, Common!HeldKeys, Common!MapModeIsTrue,
            Common!Press, Common!Plays, Common!BoundTo, Common!Release, Common!Keyboard,
            Common!Without, Common!ReleaseAll, Common!LetsGo, Common!holds, Common!MapKey,
            Common!Armed, Common!mapping, Common!bindingsVars, Common!capture,
            Common!SetKeysym, Common!Persist, Common!SetMapState, Common!CaptureBegin,
            Common!Forgets, Common!CaptureCancel, Common!Refresh, Common!LeaveMap,
            Common!Modifier, Common!Pick, Common!Clicks, Common!PickedAlready,
            Common!ToggleMap, Common!user, Common!ClearPicked, Common!Clear, Common!Defaults,
            Common!ResetDefaults, Common!CapturePoll, Common!SetPad, Common!Overlap,
            Common!Pads, Common!PadTest, Common!PadHave, Common!PadDone
<1>1. WinKeys!Init <=> Common!Init
  OBVIOUS
<1>2. WinKeys!NothingSticks <=> Common!NothingSticks
  OBVIOUS
<1>3. WinKeys!MapModeIsTrue <=> Common!MapModeIsTrue
  OBVIOUS
<1>4. \A k : (WinKeys!Press(k) <=> Common!Press(k))
  OBVIOUS
<1>5. \A k : (WinKeys!Release(k) <=> Common!Release(k))
  OBVIOUS
<1>6. \A h, l : (WinKeys!Keyboard(h, l) <=> Common!Keyboard(h, l))
  OBVIOUS
<1>7. WinKeys!ReleaseAll <=> Common!ReleaseAll
  OBVIOUS
<1>8. \A t, fires : (WinKeys!LetsGo(t, fires) <=> Common!LetsGo(t, fires))
  OBVIOUS
<1>9. \A k : (WinKeys!MapKey(k) <=> Common!MapKey(k))
  OBVIOUS
<1>10. \A state : (WinKeys!SetMapState(state) <=> Common!SetMapState(state))
  OBVIOUS
<1>11. WinKeys!LeaveMap <=> Common!LeaveMap
  OBVIOUS
<1>12. \A mods : (WinKeys!Modifier(mods) <=> Common!Modifier(mods))
  OBVIOUS
<1>13. \A t : (WinKeys!Pick(t) <=> Common!Pick(t))
  OBVIOUS
<1>14. \A t : (WinKeys!PickedAlready(t) <=> Common!PickedAlready(t))
  OBVIOUS
<1>15. WinKeys!ToggleMap <=> Common!ToggleMap
  OBVIOUS
<1>16. WinKeys!ClearPicked <=> Common!ClearPicked
  OBVIOUS
<1>17. WinKeys!Defaults <=> Common!Defaults
  OBVIOUS
<1>18. WinKeys!CapturePoll <=> Common!CapturePoll
  OBVIOUS
<1>19. WinKeys!Pads <=> Common!Pads
  OBVIOUS
<1> QED
  BY <1>1, <1>2, <1>3, <1>4, <1>5, <1>6, <1>7, <1>8, <1>9, <1>10, <1>11, <1>12, <1>13, <1>14,
     <1>15, <1>16, <1>17, <1>18, <1>19

(* Nothing slips from the mouse: what the panel holds is the control that    *)
(* went down, which is let go with the mouse, the window or the capture.     *)
DownIsHeld == MouseHolds /\ slipped = {} /\ panel \subseteq {g_down}

WinKeysInv == KeysAreDown /\ NobodyHoldsAway
WinPanelInv == WinKeysInv /\ DownIsHeld /\ Common!MapModeIsTrue

LEMMA WinMoveFocusStep ==
  ASSUME WinKeysInv, NEW window, WinKeys!MoveFocus(window), down \subseteq down'
  PROVE  WinKeysInv' /\ UNCHANGED <<panel, slipped>>
<1> USE DEF WinKeysInv, KeysAreDown, NobodyHoldsAway
<1>1. CASE UNCHANGED WinKeys!holds /\ window = focus
  BY <1>1 DEF WinKeys!MoveFocus, WinKeys!holds
<1>2. CASE WinKeys!ReleaseAll
  <2>1. (\A t \in Targets : g_held_keysym'[t] = NoKey) /\ UNCHANGED <<panel, slipped>>
    BY <1>2, WinCommon, ReleaseAllStep
  <2> QED
    BY <2>1 DEF WinKeys!MoveFocus
<1> QED
  BY <1>1, <1>2 DEF WinKeys!MoveFocus

LEMMA WinForwardStep ==
  ASSUME Common!PanelBounds, WinPanelInv, NEW k, WinKeys!astro_controllers_key(k),
         focus # "away", down' = down \cup {k}, UNCHANGED <<focus, mouse, visible, g_down>>
  PROVE  WinPanelInv'
<1> USE DEF WinPanelInv, WinKeysInv, NobodyHoldsAway, DownIsHeld, MouseHolds
<1>1. CASE g_map_state # Common!Idle /\ Common!MapKey(k) /\ UNCHANGED Common!holds
  <2>1. Common!MapModeIsTrue'
    BY <1>1, MapKeyStep
  <2> QED
    BY <1>1, <2>1 DEF Common!holds, KeysAreDown
<1>2. CASE Common!Press(k) /\ UNCHANGED Common!mapping
  <2>1. KeysAreDown' /\ UNCHANGED <<panel, slipped>>
    BY <1>2, PressStep
  <2>2. Common!MapModeIsTrue'
    BY <1>2, SameMapStep
  <2> QED
    BY <2>1, <2>2
<1> QED
  BY <1>1, <1>2, WinCommon
     DEF WinKeys!astro_controllers_key, WinKeys!Idle, Common!Idle, WinKeys!holds,
         Common!holds, WinKeys!mapping, Common!mapping, WinKeys!capture, Common!capture,
         WinKeys!bindingsVars, Common!bindingsVars

LEMMA WinHideStep ==
  ASSUME Common!PanelBounds, WinPanelInv, WinKeys!Hide, down \subseteq down'
  PROVE  WinPanelInv'
<1> USE DEF WinPanelInv
<1>1. Common!MapModeIsTrue'
  BY LeaveMapStep, WinCommon DEF WinKeys!Hide
<1>2. WinKeysInv'
  <2>1. CASE focus' = focus
    BY <2>1 DEF WinKeys!Hide, WinKeys!HidesHolding, WinKeysInv, KeysAreDown, NobodyHoldsAway
  <2>2. CASE focus' # focus
    BY <2>2 DEF WinKeys!Hide, WinKeys!HidesHolding, WinKeys!Unheld, WinKeysInv, KeysAreDown,
                NobodyHoldsAway
  <2> QED
    BY <2>1, <2>2
<1>3. DownIsHeld'
  BY DEF WinKeys!Hide, WinKeys!HidesHolding, DownIsHeld, MouseHolds
<1> QED
  BY <1>1, <1>2, <1>3

LEMMA WinToggleStep ==
  ASSUME Common!PanelBounds, WinPanelInv, WinKeys!Toggle, down \subseteq down'
  PROVE  WinPanelInv'
<1> USE DEF WinPanelInv
<1>1. CASE visible
  BY <1>1, WinHideStep DEF WinKeys!Toggle
<1>2. CASE ~visible
  <2>1. visible' = TRUE /\ UNCHANGED <<mouse, g_down>> /\ UNCHANGED Common!mapping
    BY <1>2 DEF WinKeys!Toggle, WinKeys!mapping, Common!mapping, WinKeys!capture,
                Common!capture, WinKeys!bindingsVars, Common!bindingsVars
  <2>2. WinKeysInv' /\ UNCHANGED <<panel, slipped>>
    BY <1>2, WinMoveFocusStep DEF WinKeys!Toggle
  <2> QED
    BY <2>1, <2>2, SameMapStep DEF DownIsHeld, MouseHolds
<1> QED
  BY <1>1, <1>2

LEMMA WinKeyDownStep ==
  ASSUME Common!PanelBounds, WinPanelInv, NEW k \in Keysyms, WinKeys!KeyDown(k)
  PROVE  WinPanelInv'
<1> USE DEF WinKeys!KeyDown
<1>1. down' = down \cup {k}
  OBVIOUS
<1>2. CASE UNCHANGED <<focus, mouse, visible, g_down, WinKeys!mapping, WinKeys!holds>>
  <2>1. UNCHANGED Common!mapping
    BY <1>2 DEF WinKeys!mapping, Common!mapping, WinKeys!capture, Common!capture,
                WinKeys!bindingsVars, Common!bindingsVars
  <2> QED
    BY <1>1, <1>2, <2>1, SameMapStep
       DEF WinPanelInv, WinKeys!holds, WinKeysInv, KeysAreDown, NobodyHoldsAway, DownIsHeld,
           MouseHolds
<1>3. CASE /\ focus # "away" /\ WinKeys!astro_controllers_key(k)
           /\ UNCHANGED <<focus, mouse, visible, g_down>>
  BY <1>1, <1>3, WinForwardStep
<1>4. CASE WinKeys!Toggle \/ WinKeys!Hide
  BY <1>1, <1>4, WinToggleStep, WinHideStep
<1> QED
  BY <1>2, <1>3, <1>4 DEF WinKeys!MainKeyDown, WinKeys!PanelKeyDown

LEMMA WinKeyUpStep ==
  ASSUME Common!PanelBounds, WinPanelInv, NEW k \in Keysyms, WinKeys!KeyUp(k)
  PROVE  WinPanelInv'
<1> USE DEF WinPanelInv
<1>1. /\ down' = down \ {k} /\ UNCHANGED <<focus, mouse, visible, g_down>>
      /\ UNCHANGED Common!mapping
  BY DEF WinKeys!KeyUp, WinKeys!mapping, Common!mapping, WinKeys!capture, Common!capture,
         WinKeys!bindingsVars, Common!bindingsVars
<1>2. WinKeysInv' /\ UNCHANGED <<panel, slipped>>
  <2> USE DEF WinKeysInv, NobodyHoldsAway
  <2>1. CASE focus = "away"
    BY <1>1, <2>1 DEF WinKeys!KeyUp, WinKeys!holds, KeysAreDown
  <2>2. CASE Common!Release(k) \/ Common!Keyboard(g_held_keysym, {k})
    BY <1>1, <2>2, KeyboardStep
  <2> QED
    BY <2>1, <2>2, WinCommon DEF WinKeys!KeyUp
<1> QED
  BY <1>1, <1>2, SameMapStep DEF DownIsHeld, MouseHolds

LEMMA WinFocusStep ==
  ASSUME Common!PanelBounds, WinPanelInv,
         (\E window \in {"main", "panel", "away"} : WinKeys!FocusTo(window))
         \/ WinKeys!Close \/ WinKeys!Open
  PROVE  WinPanelInv'
<1> USE DEF WinPanelInv
<1>1. ASSUME NEW window \in {"main", "panel", "away"}, WinKeys!FocusTo(window)
      PROVE  WinPanelInv'
  <2>1. UNCHANGED <<down, mouse, visible, g_down>> /\ UNCHANGED Common!mapping
    BY <1>1 DEF WinKeys!FocusTo, WinKeys!mapping, Common!mapping, WinKeys!capture,
                Common!capture, WinKeys!bindingsVars, Common!bindingsVars
  <2>2. WinKeysInv' /\ UNCHANGED <<panel, slipped>>
    BY <1>1, <2>1, WinMoveFocusStep DEF WinKeys!FocusTo
  <2> QED
    BY <2>1, <2>2, SameMapStep DEF DownIsHeld, MouseHolds
<1>2. CASE WinKeys!Close \/ WinKeys!Open
  BY <1>2, WinHideStep, WinToggleStep DEF WinKeys!Close, WinKeys!Open
<1> QED
  BY <1>1, <1>2

LEMMA WinMouseStep ==
  ASSUME Common!PanelBounds, WinPanelInv,
         \/ \E t \in Targets : WinKeys!MouseDown(t)
         \/ \E inside \in BOOLEAN : WinKeys!MouseUp(inside)
  PROVE  WinPanelInv'
<1> USE DEF WinPanelInv, DownIsHeld, MouseHolds, WinKeys!holds
<1>1. UNCHANGED <<down, focus, visible>> /\ UNCHANGED Common!mapping
  BY DEF WinKeys!MouseDown, WinKeys!MouseUp, WinKeys!mapping, Common!mapping,
         WinKeys!capture, Common!capture, WinKeys!bindingsVars, Common!bindingsVars
<1>2. Common!MapModeIsTrue'
  BY <1>1, SameMapStep
<1>3. ASSUME NEW t \in Targets, WinKeys!MouseDown(t)
      PROVE  DownIsHeld' /\ UNCHANGED <<g_held_keysym, missed>>
  <2>1. mouse = NoTarget /\ mouse' = t /\ g_down' = t /\ UNCHANGED <<g_held_keysym, missed, slipped>>
    BY <1>3 DEF WinKeys!MouseDown, WinKeys!Clicks, WinKeys!Holds
  <2>2. panel = {}
    BY <2>1 DEF Common!PanelBounds
  <2>3. panel' \subseteq {t} \ (SysActs \cup KnobTargets)
    BY <1>3, <2>2 DEF WinKeys!MouseDown, WinKeys!Holds
  <2> QED
    BY <2>1, <2>3
<1>4. ASSUME NEW inside \in BOOLEAN, WinKeys!MouseUp(inside)
      PROVE  DownIsHeld' /\ (UNCHANGED <<g_held_keysym, missed>>
                             \/ \A u \in Targets : g_held_keysym'[u] = NoKey)
  <2>1. mouse' = NoTarget /\ g_down' = NoTarget
    BY <1>4 DEF WinKeys!MouseUp, WinKeys!ReleaseMouseHold
  <2>2. CASE WinKeys!LetsGo(g_down, inside)
    <3>1. /\ panel' \subseteq panel \ {g_down} /\ slipped' \subseteq slipped
          /\ UNCHANGED <<g_held_keysym, missed>> \/ \A u \in Targets : g_held_keysym'[u] = NoKey
      BY <2>2, WinCommon, LetsGoStep
    <3> QED
      BY <2>1, <3>1
  <2>3. CASE UNCHANGED WinKeys!holds /\ g_down \notin Targets \ KnobTargets
    BY <2>1, <2>3
  <2> QED
    BY <1>4, <2>2, <2>3 DEF WinKeys!MouseUp, WinKeys!ReleaseMouseHold
<1> QED
  BY <1>1, <1>2, <1>3, <1>4 DEF WinKeysInv, KeysAreDown, NobodyHoldsAway

LEMMA WinPanelInvariance ==
  ASSUME Common!PanelBounds
  PROVE  WinKeys!Spec => []WinPanelInv
<1>1. WinKeys!Init => WinPanelInv
  BY DEF WinKeys!Init, WinPanelInv, WinKeysInv, KeysAreDown, NobodyHoldsAway, DownIsHeld,
         MouseHolds, Common!MapModeIsTrue, WinKeys!Unheld, WinKeys!Idle, Common!Idle,
         WinKeys!Faces, Common!Faces, Common!PanelBounds
<1>2. WinPanelInv /\ [WinKeys!Next]_(WinKeys!vars) => WinPanelInv'
  <2> SUFFICES ASSUME WinPanelInv, [WinKeys!Next]_(WinKeys!vars)
               PROVE  WinPanelInv'
    OBVIOUS
  <2>1. CASE SharedAction
    <3>1. /\ Common!MapModeIsTrue'
          /\ UNCHANGED <<down, focus, visible, g_down, panel, g_held_keysym, missed, slipped>>
          /\ mouse' = mouse \/ mouse = NoTarget
      BY <2>1, SharedStep DEF WinPanelInv
    <3> QED
      BY <3>1 DEF WinPanelInv, WinKeysInv, KeysAreDown, NobodyHoldsAway, DownIsHeld,
                  MouseHolds, Common!PanelBounds
  <2>2. CASE UNCHANGED WinKeys!vars
    BY <2>2 DEF WinKeys!vars, WinKeys!user, WinKeys!mapping, WinKeys!bindingsVars,
                WinKeys!capture, WinKeys!holds, WinPanelInv, WinKeysInv, KeysAreDown,
                NobodyHoldsAway, DownIsHeld, MouseHolds, Common!MapModeIsTrue
  <2>3. WinKeys!Next =>
          \/ SharedAction
          \/ \E k \in Keysyms : WinKeys!KeyDown(k) \/ WinKeys!KeyUp(k)
          \/ (\E window \in {"main", "panel", "away"} : WinKeys!FocusTo(window))
             \/ WinKeys!Close \/ WinKeys!Open
          \/ \/ \E t \in Targets : WinKeys!MouseDown(t)
             \/ \E inside \in BOOLEAN : WinKeys!MouseUp(inside)
    BY WinCommon DEF WinKeys!Next, SharedAction, Picking, WinKeys!Picks, WinKeys!MapButtons,
                     WinKeys!capture_poll
  <2> QED
    BY <2>1, <2>2, <2>3, WinKeyDownStep, WinKeyUpStep, WinFocusStep, WinMouseStep
<1> QED
  BY <1>1, <1>2, PTL DEF WinKeys!Spec

(* Nothing stays held in the machine that nobody holds, on Windows, but for a  *)
(* key let go while Alt is down (frontends/windows/main.c,                     *)
(* keypad/keypad_window.c).                                                    *)
THEOREM WinNothingSticks ==
  ASSUME Common!PanelBounds
  PROVE  WinKeys!Spec => []WinKeys!NothingSticks
<1>1. WinPanelInv => Common!NothingSticks
  BY DEF WinPanelInv, WinKeysInv, DownIsHeld, KeysAreDown, MouseHolds, Common!NothingSticks,
         Common!HeldKeys
<1> QED
  BY <1>1, WinCommon, WinPanelInvariance, PTL

(* Map mode shows the table that is, waits for what it says and takes no pad   *)
(* input from the game otherwise, on Windows.                                  *)
THEOREM WinMapModeIsTrue ==
  ASSUME Common!PanelBounds
  PROVE  WinKeys!Spec => []WinKeys!MapModeIsTrue
<1>1. WinPanelInv => WinKeys!MapModeIsTrue
  BY WinCommon DEF WinPanelInv
<1> QED
  BY <1>1, WinPanelInvariance, PTL

-----------------------------------------------------------------------------
(* The Controllers window of macOS.                                        *)

(* Its definitions of Panel are those of the lemmas above. *)
LEMMA MacCommon ==
  /\ MacKeys!Init <=> Common!Init
  /\ MacKeys!NothingSticks <=> Common!NothingSticks
  /\ MacKeys!MapModeIsTrue <=> Common!MapModeIsTrue
  /\ \A k : (MacKeys!Press(k) <=> Common!Press(k))
  /\ \A k : (MacKeys!Release(k) <=> Common!Release(k))
  /\ \A h, l : (MacKeys!Keyboard(h, l) <=> Common!Keyboard(h, l))
  /\ MacKeys!ReleaseAll <=> Common!ReleaseAll
  /\ \A t, fires : (MacKeys!LetsGo(t, fires) <=> Common!LetsGo(t, fires))
  /\ \A k : (MacKeys!MapKey(k) <=> Common!MapKey(k))
  /\ \A state : (MacKeys!SetMapState(state) <=> Common!SetMapState(state))
  /\ MacKeys!LeaveMap <=> Common!LeaveMap
  /\ \A mods : (MacKeys!Modifier(mods) <=> Common!Modifier(mods))
  /\ \A t : (MacKeys!Pick(t) <=> Common!Pick(t))
  /\ \A t : (MacKeys!PickedAlready(t) <=> Common!PickedAlready(t))
  /\ MacKeys!ToggleMap <=> Common!ToggleMap
  /\ MacKeys!ClearPicked <=> Common!ClearPicked
  /\ MacKeys!Defaults <=> Common!Defaults
  /\ MacKeys!CapturePoll <=> Common!CapturePoll
  /\ MacKeys!Pads <=> Common!Pads
<1> USE DEF MacKeys!Init, MacKeys!BindingsInit, MacKeys!Overrides, MacKeys!Differing,
            MacKeys!Idle, MacKeys!Faces, MacKeys!Unheld, MacKeys!NothingSticks,
            MacKeys!HeldKeys, MacKeys!MapModeIsTrue, MacKeys!Press, MacKeys!Plays,
            MacKeys!BoundTo, MacKeys!Release, MacKeys!Keyboard, MacKeys!Without,
            MacKeys!ReleaseAll, MacKeys!LetsGo, MacKeys!holds, MacKeys!MapKey, MacKeys!Armed,
            MacKeys!mapping, MacKeys!bindingsVars, MacKeys!capture, MacKeys!SetKeysym,
            MacKeys!Persist, MacKeys!SetMapState, MacKeys!CaptureBegin, MacKeys!Forgets,
            MacKeys!CaptureCancel, MacKeys!Refresh, MacKeys!LeaveMap, MacKeys!Modifier,
            MacKeys!Pick, MacKeys!Clicks, MacKeys!PickedAlready, MacKeys!ToggleMap,
            MacKeys!user, MacKeys!ClearPicked, MacKeys!Clear, MacKeys!Defaults,
            MacKeys!ResetDefaults, MacKeys!CapturePoll, MacKeys!SetPad, MacKeys!Overlap,
            MacKeys!Pads, MacKeys!PadTest, MacKeys!PadHave, MacKeys!PadDone, Common!Init,
            Common!BindingsInit, Common!Overrides, Common!Differing, Common!Idle, Common!Faces,
            Common!Unheld, Common!NothingSticks, Common!HeldKeys, Common!MapModeIsTrue,
            Common!Press, Common!Plays, Common!BoundTo, Common!Release, Common!Keyboard,
            Common!Without, Common!ReleaseAll, Common!LetsGo, Common!holds, Common!MapKey,
            Common!Armed, Common!mapping, Common!bindingsVars, Common!capture,
            Common!SetKeysym, Common!Persist, Common!SetMapState, Common!CaptureBegin,
            Common!Forgets, Common!CaptureCancel, Common!Refresh, Common!LeaveMap,
            Common!Modifier, Common!Pick, Common!Clicks, Common!PickedAlready,
            Common!ToggleMap, Common!user, Common!ClearPicked, Common!Clear, Common!Defaults,
            Common!ResetDefaults, Common!CapturePoll, Common!SetPad, Common!Overlap,
            Common!Pads, Common!PadTest, Common!PadHave, Common!PadDone
<1>1. MacKeys!Init <=> Common!Init
  OBVIOUS
<1>2. MacKeys!NothingSticks <=> Common!NothingSticks
  OBVIOUS
<1>3. MacKeys!MapModeIsTrue <=> Common!MapModeIsTrue
  OBVIOUS
<1>4. \A k : (MacKeys!Press(k) <=> Common!Press(k))
  OBVIOUS
<1>5. \A k : (MacKeys!Release(k) <=> Common!Release(k))
  OBVIOUS
<1>6. \A h, l : (MacKeys!Keyboard(h, l) <=> Common!Keyboard(h, l))
  OBVIOUS
<1>7. MacKeys!ReleaseAll <=> Common!ReleaseAll
  OBVIOUS
<1>8. \A t, fires : (MacKeys!LetsGo(t, fires) <=> Common!LetsGo(t, fires))
  OBVIOUS
<1>9. \A k : (MacKeys!MapKey(k) <=> Common!MapKey(k))
  OBVIOUS
<1>10. \A state : (MacKeys!SetMapState(state) <=> Common!SetMapState(state))
  OBVIOUS
<1>11. MacKeys!LeaveMap <=> Common!LeaveMap
  OBVIOUS
<1>12. \A mods : (MacKeys!Modifier(mods) <=> Common!Modifier(mods))
  OBVIOUS
<1>13. \A t : (MacKeys!Pick(t) <=> Common!Pick(t))
  OBVIOUS
<1>14. \A t : (MacKeys!PickedAlready(t) <=> Common!PickedAlready(t))
  OBVIOUS
<1>15. MacKeys!ToggleMap <=> Common!ToggleMap
  OBVIOUS
<1>16. MacKeys!ClearPicked <=> Common!ClearPicked
  OBVIOUS
<1>17. MacKeys!Defaults <=> Common!Defaults
  OBVIOUS
<1>18. MacKeys!CapturePoll <=> Common!CapturePoll
  OBVIOUS
<1>19. MacKeys!Pads <=> Common!Pads
  OBVIOUS
<1> QED
  BY <1>1, <1>2, <1>3, <1>4, <1>5, <1>6, <1>7, <1>8, <1>9, <1>10, <1>11, <1>12, <1>13, <1>14,
     <1>15, <1>16, <1>17, <1>18, <1>19

MacPanelInv == KeysAreDown /\ DownIsHeld /\ Common!MapModeIsTrue

LEMMA MacMoveFocusStep ==
  ASSUME KeysAreDown, NEW window, MacKeys!MoveFocus(window), down \subseteq down'
  PROVE  KeysAreDown' /\ UNCHANGED <<panel, slipped>>
<1>1. CASE UNCHANGED MacKeys!holds
  BY <1>1 DEF MacKeys!holds, KeysAreDown
<1>2. CASE MacKeys!ReleaseAll
  <2>1. (\A t \in Targets : g_held_keysym'[t] = NoKey) /\ UNCHANGED <<panel, slipped>>
    BY <1>2, MacCommon, ReleaseAllStep
  <2> QED
    BY <2>1 DEF KeysAreDown
<1> QED
  BY <1>1, <1>2 DEF MacKeys!MoveFocus

LEMMA MacForwardStep ==
  ASSUME Common!PanelBounds, MacPanelInv, NEW k, MacKeys!AstroForwardKeyEvent(k),
         down' = down \cup {k}, UNCHANGED <<focus, mouse, visible, g_down>>
  PROVE  MacPanelInv'
<1> USE DEF MacPanelInv, DownIsHeld, MouseHolds
<1>1. CASE g_map_state # Common!Idle /\ Common!MapKey(k) /\ UNCHANGED Common!holds
  <2>1. Common!MapModeIsTrue'
    BY <1>1, MapKeyStep
  <2> QED
    BY <1>1, <2>1 DEF Common!holds, KeysAreDown
<1>2. CASE Common!Press(k) /\ UNCHANGED Common!mapping
  <2>1. KeysAreDown' /\ UNCHANGED <<panel, slipped>>
    BY <1>2, PressStep
  <2>2. Common!MapModeIsTrue'
    BY <1>2, SameMapStep
  <2> QED
    BY <2>1, <2>2
<1> QED
  BY <1>1, <1>2, MacCommon
     DEF MacKeys!AstroForwardKeyEvent, MacKeys!Idle, Common!Idle, MacKeys!holds,
         Common!holds, MacKeys!mapping, Common!mapping, MacKeys!capture, Common!capture,
         MacKeys!bindingsVars, Common!bindingsVars

LEMMA MacHideStep ==
  ASSUME Common!PanelBounds, MacPanelInv, MacKeys!Hide, down \subseteq down'
  PROVE  MacPanelInv'
<1> USE DEF MacPanelInv
<1>1. Common!MapModeIsTrue'
  BY LeaveMapStep, MacCommon DEF MacKeys!Hide
<1>2. KeysAreDown'
  <2>1. CASE focus = "panel"
    BY <2>1 DEF MacKeys!Hide, MacKeys!Unheld, KeysAreDown
  <2>2. CASE focus # "panel"
    BY <2>2 DEF MacKeys!Hide, KeysAreDown
  <2> QED
    BY <2>1, <2>2
<1>3. DownIsHeld'
  BY DEF MacKeys!Hide, DownIsHeld, MouseHolds
<1> QED
  BY <1>1, <1>2, <1>3

LEMMA MacKeyDownStep ==
  ASSUME Common!PanelBounds, MacPanelInv, NEW k \in Keysyms, MacKeys!KeyDown(k)
  PROVE  MacPanelInv'
<1> USE DEF MacKeys!KeyDown
<1>1. down' = down \cup {k} /\ UNCHANGED <<focus, mouse, visible, g_down>>
  OBVIOUS
<1>2. CASE UNCHANGED <<MacKeys!mapping, MacKeys!holds>>
  <2>1. UNCHANGED Common!mapping
    BY <1>2 DEF MacKeys!mapping, Common!mapping, MacKeys!capture, Common!capture,
                MacKeys!bindingsVars, Common!bindingsVars
  <2> QED
    BY <1>1, <1>2, <2>1, SameMapStep
       DEF MacPanelInv, MacKeys!holds, KeysAreDown, DownIsHeld, MouseHolds
<1>3. CASE MacKeys!AstroForwardKeyEvent(k)
  BY <1>1, <1>3, MacForwardStep
<1> QED
  BY <1>2, <1>3

LEMMA MacKeyUpStep ==
  ASSUME Common!PanelBounds, MacPanelInv, NEW k \in Keysyms, MacKeys!KeyUp(k)
  PROVE  MacPanelInv'
<1> USE DEF MacPanelInv
<1>1. /\ down' = down \ {k} /\ UNCHANGED <<focus, mouse, visible, g_down>>
      /\ UNCHANGED Common!mapping
  BY DEF MacKeys!KeyUp, MacKeys!mapping, Common!mapping, MacKeys!capture, Common!capture,
         MacKeys!bindingsVars, Common!bindingsVars
<1>2. Common!Release(k) \/ Common!Keyboard(g_held_keysym, {k})
  BY MacCommon DEF MacKeys!KeyUp
<1>3. KeysAreDown' /\ UNCHANGED <<panel, slipped>>
  BY <1>1, <1>2, KeyboardStep
<1> QED
  BY <1>1, <1>3, SameMapStep DEF DownIsHeld, MouseHolds

(* A modifier of which the other key is down is taken for pressed as it is   *)
(* let go: what it holds then is missed.                                     *)
LEMMA MacModifierUpStep ==
  ASSUME Common!PanelBounds, MacPanelInv, NEW k \in Keysyms, MacKeys!ModifierUp(k)
  PROVE  MacPanelInv'
<1> USE DEF MacPanelInv
<1>1. down' = down \ {k} /\ UNCHANGED <<focus, mouse, visible, g_down>>
  BY DEF MacKeys!ModifierUp
<1>2. CASE /\ Common!Release(k) \/ Common!Keyboard(g_held_keysym, {k})
           /\ UNCHANGED Common!mapping
  <2>1. KeysAreDown' /\ UNCHANGED <<panel, slipped>>
    BY <1>1, <1>2, KeyboardStep
  <2> QED
    BY <1>1, <1>2, <2>1, SameMapStep DEF DownIsHeld, MouseHolds
<1>3. CASE /\ g_map_state # Common!Idle /\ Common!MapKey(k)
           /\ Common!Keyboard(g_held_keysym, {k})
  <2>1. KeysAreDown' /\ UNCHANGED <<panel, slipped>>
    BY <1>1, <1>3, KeyboardStep
  <2> QED
    BY <1>1, <1>3, <2>1, MapKeyStep DEF DownIsHeld, MouseHolds
<1>4. CASE /\ g_held_keysym' = [t \in Targets |-> IF t \in MacKeys!BoundTo(k) THEN k
                                                  ELSE g_held_keysym[t]]
           /\ missed' = (missed \cup {k}) \cap Common!HeldKeys(g_held_keysym')
           /\ UNCHANGED <<panel, slipped>> /\ UNCHANGED Common!mapping
  <2>1. \A t \in Targets : g_held_keysym'[t] = k \/ g_held_keysym'[t] = g_held_keysym[t]
    BY <1>4
  <2>2. \A t \in Targets : g_held_keysym'[t] \in missed \cup {k} /\ g_held_keysym'[t] # NoKey
                           => g_held_keysym'[t] \in missed'
    BY <1>4 DEF Common!HeldKeys
  <2>3. KeysAreDown'
    BY <1>1, <2>1, <2>2 DEF KeysAreDown
  <2> QED
    BY <1>1, <1>4, <2>3, SameMapStep DEF DownIsHeld, MouseHolds
<1> QED
  BY <1>2, <1>3, <1>4, MacCommon
     DEF MacKeys!ModifierUp, MacKeys!Idle, Common!Idle, MacKeys!HeldKeys, Common!HeldKeys,
         MacKeys!mapping, Common!mapping, MacKeys!capture, Common!capture,
         MacKeys!bindingsVars, Common!bindingsVars

LEMMA MacFocusStep ==
  ASSUME Common!PanelBounds, MacPanelInv,
         (\E window \in {"main", "panel", "away"} : MacKeys!FocusTo(window))
         \/ MacKeys!Close \/ MacKeys!Open
  PROVE  MacPanelInv'
<1> USE DEF MacPanelInv
<1>1. ASSUME NEW window, MacKeys!MoveFocus(window), visible => visible',
             UNCHANGED <<down, mouse, g_down>>, UNCHANGED MacKeys!mapping
      PROVE  MacPanelInv'
  <2>1. UNCHANGED Common!mapping
    BY <1>1 DEF MacKeys!mapping, Common!mapping, MacKeys!capture, Common!capture,
                MacKeys!bindingsVars, Common!bindingsVars
  <2>2. KeysAreDown' /\ UNCHANGED <<panel, slipped>>
    BY <1>1, MacMoveFocusStep
  <2> QED
    BY <1>1, <2>1, <2>2, SameMapStep DEF DownIsHeld, MouseHolds
<1>2. CASE MacKeys!Close
  BY <1>2, MacHideStep DEF MacKeys!Close
<1> QED
  BY <1>1, <1>2 DEF MacKeys!FocusTo, MacKeys!Open

LEMMA MacMouseStep ==
  ASSUME Common!PanelBounds, MacPanelInv,
         \/ \E t \in Targets : MacKeys!MouseDown(t)
         \/ \E inside \in BOOLEAN : MacKeys!MouseUp(inside)
  PROVE  MacPanelInv'
<1> USE DEF MacPanelInv, DownIsHeld, MouseHolds, MacKeys!holds
<1>1. UNCHANGED <<down, focus, visible>> /\ UNCHANGED Common!mapping
  BY DEF MacKeys!MouseDown, MacKeys!MouseUp, MacKeys!mapping, Common!mapping,
         MacKeys!capture, Common!capture, MacKeys!bindingsVars, Common!bindingsVars
<1>2. Common!MapModeIsTrue'
  BY <1>1, SameMapStep
<1>3. ASSUME NEW t \in Targets, MacKeys!MouseDown(t)
      PROVE  DownIsHeld' /\ UNCHANGED <<g_held_keysym, missed>>
  <2>1. mouse = NoTarget /\ mouse' = t /\ g_down' = t /\ UNCHANGED <<g_held_keysym, missed, slipped>>
    BY <1>3 DEF MacKeys!MouseDown, MacKeys!Clicks, MacKeys!Holds
  <2>2. panel = {}
    BY <2>1 DEF Common!PanelBounds
  <2>3. panel' \subseteq {t} \ (SysActs \cup KnobTargets)
    BY <1>3, <2>2 DEF MacKeys!MouseDown, MacKeys!Holds
  <2> QED
    BY <2>1, <2>3
<1>4. ASSUME NEW inside \in BOOLEAN, MacKeys!MouseUp(inside)
      PROVE  DownIsHeld' /\ (UNCHANGED <<g_held_keysym, missed>>
                             \/ \A u \in Targets : g_held_keysym'[u] = NoKey)
  <2>1. mouse' = NoTarget /\ g_down' = NoTarget
    BY <1>4 DEF MacKeys!MouseUp
  <2>2. CASE MacKeys!LetsGo(g_down, inside)
    <3>1. /\ panel' \subseteq panel \ {g_down} /\ slipped' \subseteq slipped
          /\ UNCHANGED <<g_held_keysym, missed>> \/ \A u \in Targets : g_held_keysym'[u] = NoKey
      BY <2>2, MacCommon, LetsGoStep
    <3> QED
      BY <2>1, <3>1
  <2>3. CASE UNCHANGED MacKeys!holds /\ g_down \notin Targets \ KnobTargets
    BY <2>1, <2>3
  <2> QED
    BY <1>4, <2>2, <2>3 DEF MacKeys!MouseUp
<1> QED
  BY <1>1, <1>2, <1>3, <1>4 DEF KeysAreDown

LEMMA MacPanelInvariance ==
  ASSUME Common!PanelBounds
  PROVE  MacKeys!Spec => []MacPanelInv
<1>1. MacKeys!Init => MacPanelInv
  BY DEF MacKeys!Init, MacPanelInv, KeysAreDown, DownIsHeld, MouseHolds,
         Common!MapModeIsTrue, MacKeys!Unheld, MacKeys!Idle, Common!Idle,
         MacKeys!Faces, Common!Faces, Common!PanelBounds
<1>2. MacPanelInv /\ [MacKeys!Next]_(MacKeys!vars) => MacPanelInv'
  <2> SUFFICES ASSUME MacPanelInv, [MacKeys!Next]_(MacKeys!vars)
               PROVE  MacPanelInv'
    OBVIOUS
  <2>1. CASE SharedAction
    <3>1. /\ Common!MapModeIsTrue'
          /\ UNCHANGED <<down, focus, visible, g_down, panel, g_held_keysym, missed, slipped>>
          /\ mouse' = mouse \/ mouse = NoTarget
      BY <2>1, SharedStep DEF MacPanelInv
    <3> QED
      BY <3>1 DEF MacPanelInv, KeysAreDown, DownIsHeld, MouseHolds, Common!PanelBounds
  <2>2. CASE UNCHANGED MacKeys!vars
    BY <2>2 DEF MacKeys!vars, MacKeys!user, MacKeys!mapping, MacKeys!bindingsVars,
                MacKeys!capture, MacKeys!holds, MacPanelInv, KeysAreDown, DownIsHeld,
                MouseHolds, Common!MapModeIsTrue
  <2>3. MacKeys!Next =>
          \/ SharedAction
          \/ \E k \in Keysyms : MacKeys!KeyDown(k) \/ MacKeys!KeyUp(k) \/ MacKeys!ModifierUp(k)
          \/ (\E window \in {"main", "panel", "away"} : MacKeys!FocusTo(window))
             \/ MacKeys!Close \/ MacKeys!Open
          \/ \/ \E t \in Targets : MacKeys!MouseDown(t)
             \/ \E inside \in BOOLEAN : MacKeys!MouseUp(inside)
    BY MacCommon DEF MacKeys!Next, SharedAction, Picking, MacKeys!Picks, MacKeys!MapButtons,
                     MacKeys!poll
  <2> QED
    BY <2>1, <2>2, <2>3, MacKeyDownStep, MacKeyUpStep, MacModifierUpStep, MacFocusStep,
       MacMouseStep
<1> QED
  BY <1>1, <1>2, PTL DEF MacKeys!Spec

(* Nothing stays held in the machine that nobody holds, on macOS, but for a    *)
(* key let go while Command is down, one of the two keys of a modifier let go  *)
(* before the other, and a key let go over another program                     *)
(* (frontends/macos/DisplayView.m, keypad/KeypadWindow.m).                     *)
THEOREM MacNothingSticks ==
  ASSUME Common!PanelBounds
  PROVE  MacKeys!Spec => []MacKeys!NothingSticks
<1>1. MacPanelInv => Common!NothingSticks
  BY DEF MacPanelInv, DownIsHeld, KeysAreDown, MouseHolds, Common!NothingSticks,
         Common!HeldKeys
<1> QED
  BY <1>1, MacCommon, MacPanelInvariance, PTL

(* Map mode shows the table that is, waits for what it says and takes no pad   *)
(* input from the game otherwise, on macOS.                                    *)
THEOREM MacMapModeIsTrue ==
  ASSUME Common!PanelBounds
  PROVE  MacKeys!Spec => []MacKeys!MapModeIsTrue
<1>1. MacPanelInv => MacKeys!MapModeIsTrue
  BY MacCommon DEF MacPanelInv
<1> QED
  BY <1>1, MacPanelInvariance, PTL

(* The four together: what is held is held by a key or a mouse button that is *)
(* down, but for the releases that each module names as missed or slipped.    *)
THEOREM NothingSticksAnywhere ==
  ASSUME Common!PanelBounds
  PROVE  /\ KdeKeys!Spec => []KdeKeys!NothingSticks
         /\ GtkKeys!Spec => []GtkKeys!NothingSticks
         /\ WinKeys!Spec => []WinKeys!NothingSticks
         /\ MacKeys!Spec => []MacKeys!NothingSticks
BY KdeNothingSticks, GtkNothingSticks, WinNothingSticks, MacNothingSticks, PTL

(* The four together: Map mode waits, captures and shows what it says.        *)
THEOREM MapModeIsTrueAnywhere ==
  ASSUME Common!PanelBounds
  PROVE  /\ KdeKeys!Spec => []KdeKeys!MapModeIsTrue
         /\ GtkKeys!Spec => []GtkKeys!MapModeIsTrue
         /\ WinKeys!Spec => []WinKeys!MapModeIsTrue
         /\ MacKeys!Spec => []MacKeys!MapModeIsTrue
BY KdeMapModeIsTrue, GtkMapModeIsTrue, WinMapModeIsTrue, MacMapModeIsTrue, PTL

-----------------------------------------------------------------------------
(* The pages of the debugger's window. First, functions of numbers defined    *)
(* from one number to the next.                                               *)

(* There is a least of some numbers.                                          *)
LEMMA LeastNumber ==
  ASSUME NEW T \in SUBSET Nat, T # {}
  PROVE  \E n \in T : \A m \in T : n <= m
<1>1. IsWellFoundedOn(OpToRel(<, Nat), Nat)
  BY NatLessThanWellFounded
<1>2. PICK x \in T : \A y \in T : ~(<<y, x>> \in OpToRel(<, Nat))
  BY <1>1, WFMin
<1>3. ASSUME NEW y \in T PROVE x <= y
  <2>1. ~(y < x)
    BY <1>2 DEF OpToRel
  <2> QED
    BY <2>1
<1> QED
  BY <1>3

(* Induction up to n, over a set of numbers. *)
LEMMA Inductive ==
  ASSUME NEW n \in Nat, NEW S, 0 \in S, \A k \in 1..n : k - 1 \in S => k \in S
  PROVE  0..n \subseteq S
<1> DEFINE T == (0..n) \ S
<1>1. SUFFICES ASSUME T # {} PROVE FALSE
  OBVIOUS
<1>2. T \in SUBSET Nat
  OBVIOUS
<1>3. PICK x \in T : \A y \in T : x <= y
  <2> HIDE DEF T
  <2> QED
    BY <1>1, <1>2, LeastNumber
<1>4. x \in 1..n /\ x - 1 \notin T
  BY <1>3
<1> QED
  BY <1>4

(* A function f of 0..n is defined by its first value and each by the last:  *)
(* it exists when the step stays in a set.                                   *)
Runs(f, n, base, Op) == f[0] = base /\ \A k \in 1..n : f[k] = Op[<<k, f[k - 1]>>]

(* There is such a function. *)
LEMMA RunExists ==
  ASSUME NEW n \in Nat, NEW A, NEW base \in A, NEW Op \in [(1..n) \X A -> A]
  PROVE  \E f \in [0..n -> A] : Runs(f, n, base, Op)
<1> DEFINE S == {k \in 0..n : \E f \in [0..k -> A] : Runs(f, k, base, Op)}
<1>1. 0 \in S
  <2> DEFINE f0 == [k \in 0..0 |-> base]
  <2>1. f0 \in [0..0 -> A] /\ Runs(f0, 0, base, Op)
    BY DEF Runs
  <2> QED
    BY <2>1
<1>2. ASSUME NEW k \in 1..n, k - 1 \in S PROVE k \in S
  <2>1. PICK f \in [0..(k - 1) -> A] : Runs(f, k - 1, base, Op)
    BY <1>2
  <2> DEFINE g == [j \in 0..k |-> IF j = k THEN Op[<<k, f[k - 1]>>] ELSE f[j]]
  <2>2. f[k - 1] \in A
    BY <2>1
  <2>3. Op[<<k, f[k - 1]>>] \in A
    BY <2>2
  <2>4. g \in [0..k -> A]
    BY <2>3
  <2>5. ASSUME NEW j \in 1..k PROVE g[j] = Op[<<j, g[j - 1]>>]
    <3>1. CASE j = k
      <4>1. k \in 0..k /\ k - 1 \in 0..k /\ k - 1 # k
        OBVIOUS
      <4>2. g[k] = Op[<<k, f[k - 1]>>] /\ g[k - 1] = f[k - 1]
        BY <4>1
      <4> HIDE DEF g
      <4> QED
        BY <3>1, <4>2
    <3>2. CASE j # k
      <4>1. j \in 1..(k - 1) /\ j \in 0..k /\ j - 1 \in 0..k /\ j - 1 # k
        BY <3>2
      <4>2. g[j] = f[j] /\ g[j - 1] = f[j - 1]
        BY <3>2, <4>1
      <4> HIDE DEF g
      <4> QED
        BY <2>1, <4>1, <4>2 DEF Runs
    <3> QED
      BY <3>1, <3>2
  <2>6. g[0] = base
    BY <2>1 DEF Runs
  <2> HIDE DEF g
  <2>7. Runs(g, k, base, Op)
    BY <2>5, <2>6 DEF Runs
  <2>8. k \in 0..n
    OBVIOUS
  <2> QED
    BY <2>4, <2>7, <2>8
<1>3. n \in S
  <2> HIDE DEF S
  <2> QED
    BY <1>1, <1>2, Inductive
<1> QED
  BY <1>3

(* What such a function is at each number stays in the set. *)
LEMMA RunStays ==
  ASSUME NEW n \in Nat, NEW A, NEW F, F[0] \in A,
         \A k \in 1..n : F[k - 1] \in A => F[k] \in A
  PROVE  \A k \in 0..n : F[k] \in A
<1> DEFINE S == {k \in 0..n : F[k] \in A}
<1>1. 0 \in S
  OBVIOUS
<1>2. ASSUME NEW k \in 1..n, k - 1 \in S PROVE k \in S
  <2>1. F[k] \in A /\ k \in 0..n
    BY <1>2
  <2> QED
    BY <2>1, Zenon
<1>3. 0..n \subseteq S
  <2> HIDE DEF S
  <2> QED
    BY <1>1, <1>2, Inductive
<1> QED
  BY <1>3

-----------------------------------------------------------------------------
(* The engine. *)

Bp == [id : Nat \ {0}, start : Addr, enabled : BOOLEAN]
EngineType ==
  [stopped : BOOLEAN, pc : Addr, carry : Int, fetched : Byte, behind : BOOLEAN,
   mem : [Addr -> Byte], bp : Seq(Bp), next_id : Nat \ {0},
   user : SUBSET Names, file : SUBSET Names]

(* Ids are handed out once, and what runs next is what is there. *)
IdsAreOnce(e) ==
  /\ \A i \in DOMAIN e.bp : e.bp[i].id < e.next_id
  /\ \A i, j \in DOMAIN e.bp : e.bp[i].id = e.bp[j].id => e.bp[i].start = e.bp[j].start
RunsWhat(e) == e.stopped /\ ~e.behind => e.fetched = e.mem[e.pc]
Engines == {e \in EngineType : IdsAreOnce(e) /\ RunsWhat(e)}

(* f may be what e has become: an id still names the place it named. *)
Later(e, f) ==
  /\ e.next_id <= f.next_id
  /\ \A j \in DOMAIN f.bp :
       \/ f.bp[j].id >= e.next_id
       \/ \E i \in DOMAIN e.bp : e.bp[i].id = f.bp[j].id /\ e.bp[i].start = f.bp[j].start
(* ... of which nothing was said of breakpoints. *)
Edited(e) == {f \in Engines : f.bp = e.bp /\ f.next_id = e.next_id}

(* An edit of registers, memory or labels leaves every id its place. *)
LEMMA EditedIsLater == ASSUME NEW e \in Engines, NEW f \in Edited(e) PROVE f \in Engines /\ Later(e, f)
<1>1. f.bp = e.bp /\ f.next_id = e.next_id /\ f \in Engines
  BY DEF Edited
<1>2. e.next_id \in Nat
  BY DEF Engines, EngineType
<1> QED
  BY <1>1, <1>2 DEF Later

LEMMA SameIsEdited == ASSUME NEW e \in Engines PROVE e \in Edited(e)
BY DEF Edited

(* What is changed of an engine but for its breakpoints and its fetch. *)
LEMMA RefreshEdits ==
  ASSUME NEW e \in Engines, NEW f \in EngineType, f.bp = e.bp, f.next_id = e.next_id
  PROVE  RefreshFetch(f) \in Edited(e)
<1>1. f.mem[f.pc] \in Byte
  BY DEF EngineType
<1> DEFINE g == RefreshFetch(f)
<1>2. /\ g \in EngineType /\ g.bp = f.bp /\ g.next_id = f.next_id
      /\ g.fetched = f.mem[f.pc] /\ g.mem = f.mem /\ g.pc = f.pc
  BY <1>1 DEF RefreshFetch, EngineType
<1> HIDE DEF g
<1>3. IdsAreOnce(g)
  BY <1>2 DEF Engines, IdsAreOnce
<1>4. RunsWhat(g)
  BY <1>2 DEF RunsWhat
<1> QED
  BY <1>2, <1>3, <1>4 DEF Edited, Engines, g

(* A register is set, and what runs next read again. *)
LEMMA CpuSetEdits ==
  ASSUME NEW e \in Engines, NEW r \in Regs, NEW v \in Int, r = "pc" => v \in Addr
  PROVE  CpuSet(e, r, v) \in Edited(e)
<1>1. CASE e.stopped
  <2> DEFINE f == [e EXCEPT ![r] = v]
  <2>1. f \in EngineType /\ f.bp = e.bp /\ f.next_id = e.next_id
    BY DEF Engines, EngineType, Regs
  <2> HIDE DEF f
  <2>2. RefreshFetch(f) \in Edited(e)
    BY <2>1, RefreshEdits
  <2> QED
    BY <1>1, <2>2 DEF CpuSet, f
<1>2. CASE ~e.stopped
  BY <1>2, SameIsEdited DEF CpuSet
<1> QED
  BY <1>1, <1>2

(* ... and it is what it was set to. *)
LEMMA CpuSetSets ==
  ASSUME NEW e \in Engines, NEW r \in Regs, NEW v, e.stopped
  PROVE  CpuSet(e, r, v)[r] = v
<1>1. DOMAIN e = {"stopped", "pc", "carry", "fetched", "behind", "mem", "bp", "next_id", "user", "file"}
  BY DEF Engines, EngineType
<1> QED
  BY <1>1 DEF CpuSet, RefreshFetch, Regs

(* A byte is written, and so are some. *)
LEMMA WriteEdits ==
  ASSUME NEW e \in Engines, NEW f \in Edited(e), NEW a \in Addr, NEW v \in Byte
  PROVE  Write(f, a, v) \in Edited(e)
<1> DEFINE w == IF a \in Rom THEN f ELSE [f EXCEPT !.mem[a] = v]
<1>1. f \in EngineType /\ f.bp = e.bp /\ f.next_id = e.next_id
  BY DEF Edited, Engines
<1>2. /\ w \in EngineType /\ w.bp = e.bp /\ w.next_id = e.next_id
      /\ w.stopped = f.stopped
  BY <1>1 DEF EngineType
<1> HIDE DEF w
<1>3. CASE f.stopped
  <2>1. RefreshFetch(w) \in Edited(e)
    BY <1>2, RefreshEdits
  <2> QED
    BY <1>3, <2>1 DEF Write, w
<1>4. CASE ~f.stopped
  <2>1. IdsAreOnce(w)
    BY <1>2 DEF Engines, IdsAreOnce
  <2>2. w \in Edited(e)
    BY <1>2, <1>4, <2>1 DEF Edited, Engines, RunsWhat
  <2> QED
    BY <1>4, <2>2 DEF Write, w
<1> QED
  BY <1>3, <1>4

(* A byte of the screen RAM is written by its own address. *)
LEMMA VramWriteEdits ==
  ASSUME NEW e \in Engines, NEW a \in Addr, NEW v \in Byte
  PROVE  VramWrite(e, a, v) \in Edited(e)
<1> DEFINE g == VramWrite(e, a, v)
<1>1. e \in EngineType
  BY DEF Engines
<1>2. /\ g \in EngineType /\ g.bp = e.bp /\ g.next_id = e.next_id
      /\ g.stopped = e.stopped /\ g.pc = e.pc /\ g.fetched = e.fetched
      /\ g.behind = (e.behind \/ (e.stopped /\ a = e.pc))
      /\ g.mem = [e.mem EXCEPT ![a] = v]
  BY <1>1 DEF VramWrite, EngineType
<1> HIDE DEF g
<1>3. IdsAreOnce(g)
  BY <1>2 DEF Engines, IdsAreOnce
<1>4. RunsWhat(g)
  <2> SUFFICES ASSUME g.stopped, ~g.behind PROVE g.fetched = g.mem[g.pc]
    BY DEF RunsWhat
  <2>1. e.stopped /\ ~e.behind /\ a # e.pc
    BY <1>2
  <2>2. e.fetched = e.mem[e.pc]
    BY <2>1 DEF Engines, RunsWhat
  <2>3. e.mem \in [Addr -> Byte] /\ e.pc \in Addr
    BY <1>1 DEF EngineType
  <2> QED
    BY <1>2, <2>1, <2>2, <2>3
<1> QED
  BY <1>2, <1>3, <1>4 DEF Edited, Engines, g

LEMMA PlusType == ASSUME AddrBounds, NEW a \in Int, NEW n \in Int PROVE Plus(a, n) \in Addr
BY DEF Plus, Addr, AddrBounds

(* One byte is written after the other. *)
LEMMA WritesEdits ==
  ASSUME AddrBounds, NEW e \in Engines, NEW a \in Addr, NEW m \in Nat, NEW vs \in [1..m -> Byte]
  PROVE  Writes(e, a, vs) \in Edited(e)
<1> DEFINE A == Edited(e)
           Eq(f) == f = [n \in 0..Len(vs) |-> IF n = 0 THEN e
                                              ELSE Write(f[n - 1], Plus(a, n - 1), vs[n])]
           F == CHOOSE f : Eq(f)
           Op == [x \in (1..m) \X A |-> Write(x[2], Plus(a, x[1] - 1), vs[x[1]])]
<1>1. Len(vs) = m
  OBVIOUS
<1>2. ASSUME NEW k \in 1..m, NEW f \in A PROVE Write(f, Plus(a, k - 1), vs[k]) \in A
  <2>1. Plus(a, k - 1) \in Addr
    <3>1. a \in Int /\ k - 1 \in Int
      BY DEF Addr
    <3> QED
      BY <3>1, PlusType
  <2> QED
    BY <2>1, WriteEdits
<1>3. Op \in [(1..m) \X A -> A]
  BY <1>2
<1>4. e \in A
  BY SameIsEdited
<1>5. PICK f \in [0..m -> A] : Runs(f, m, e, Op)
  <2> HIDE DEF Op, A
  <2> QED
    BY <1>3, <1>4, RunExists
<1>6. Eq(f)
  <2>1. ASSUME NEW k \in 1..m PROVE f[k] = Write(f[k - 1], Plus(a, k - 1), vs[k])
    <3> HIDE DEF A
    <3>1. f[k - 1] \in A
      BY <1>5
    <3>2. f[k] = Op[<<k, f[k - 1]>>]
      <4> HIDE DEF Op
      <4> QED
        BY <1>5 DEF Runs
    <3> QED
      BY <3>1, <3>2
  <2>2. f[0] = e
    BY <1>5 DEF Runs
  <2> HIDE DEF A
  <2> QED
    BY <1>1, <1>5, <2>1, <2>2
<1>7. Eq(F)
  BY <1>6
<1> HIDE DEF F
<1>8. F[0] = e /\ \A k \in 1..m : F[k] = Write(F[k - 1], Plus(a, k - 1), vs[k])
  BY <1>1, <1>7
<1>9. \A k \in 0..m : F[k] \in A
  <2> HIDE DEF A
  <2> QED
    BY <1>2, <1>4, <1>8, RunStays
<1>10. Writes(e, a, vs) = F[m]
  BY <1>1 DEF Writes, F
<1> QED
  BY <1>9, <1>10

(* What is left of a table: entries of it. *)
Parts(t) == {s \in Seq(Bp) : \A i \in 1..Len(s) : \E j \in 1..Len(t) : s[i] = t[j]}

(* A breakpoint removed takes no other with it. *)
LEMMA WithoutIsPart == ASSUME NEW t \in Seq(Bp), NEW ids PROVE Without(t, ids) \in Parts(t)
<1>0. PICK m \in Nat : m = Len(t)
  OBVIOUS
<1> DEFINE A == Parts(t)
           Step(s, k) == IF t[k].id \in ids THEN s ELSE Append(s, t[k])
           Eq(f) == f = [n \in 0..Len(t) |-> IF n = 0 THEN <<>>
                                             ELSE IF t[n].id \in ids THEN f[n - 1]
                                             ELSE Append(f[n - 1], t[n])]
           F == CHOOSE f : Eq(f)
           Op == [x \in (1..m) \X A |-> Step(x[2], x[1])]
<1>2. ASSUME NEW k \in 1..m, NEW s \in A PROVE Step(s, k) \in A
  <2>1. CASE t[k].id \in ids
    BY <2>1
  <2>2. CASE t[k].id \notin ids
    <3>1. s \in Seq(Bp) /\ t[k] \in Bp
      BY <1>0 DEF Parts
    <3>2. /\ Append(s, t[k]) \in Seq(Bp) /\ Len(Append(s, t[k])) = Len(s) + 1
          /\ Append(s, t[k])[Len(s) + 1] = t[k]
          /\ \A i \in 1..Len(s) : Append(s, t[k])[i] = s[i]
      BY <3>1
    <3>3. \A i \in 1..(Len(s) + 1) : \E j \in 1..Len(t) : Append(s, t[k])[i] = t[j]
      <4> TAKE i \in 1..(Len(s) + 1)
      <4>1. CASE i = Len(s) + 1
        BY <4>1, <3>2, <1>0
      <4>2. CASE i # Len(s) + 1
        <5>1. i \in 1..Len(s)
          BY <4>2, <3>1
        <5> QED
          BY <5>1, <3>2 DEF Parts
      <4> QED
        BY <4>1, <4>2
    <3>4. Append(s, t[k]) \in A
      BY <3>2, <3>3 DEF Parts
    <3> QED
      BY <2>2, <3>4
  <2> QED
    BY <2>1, <2>2
<1> HIDE DEF Step
<1>3. Op \in [(1..m) \X A -> A]
  BY <1>2
<1>4. <<>> \in A
  BY DEF Parts
<1>5. PICK f \in [0..m -> A] : Runs(f, m, <<>>, Op)
  <2> HIDE DEF Op, A
  <2> QED
    BY <1>3, <1>4, RunExists
<1>6. Eq(f)
  <2>1. ASSUME NEW k \in 1..m PROVE f[k] = Step(f[k - 1], k)
    <3> HIDE DEF A
    <3>1. f[k - 1] \in A
      BY <1>5
    <3>2. f[k] = Op[<<k, f[k - 1]>>]
      <4> HIDE DEF Op
      <4> QED
        BY <1>5 DEF Runs
    <3> QED
      BY <3>1, <3>2
  <2>2. f[0] = <<>>
    BY <1>5 DEF Runs
  <2> HIDE DEF A
  <2>3. \A k \in 0..m : k = 0 \/ k \in 1..m
    OBVIOUS
  <2>4. f = [k \in 0..m |-> IF k = 0 THEN <<>> ELSE Step(f[k - 1], k)]
    BY <1>5, <2>1, <2>2, <2>3
  <2> QED
    BY <1>0, <2>4 DEF Step
<1>7. Eq(F)
  BY <1>6
<1> HIDE DEF F
<1>8. F[0] = <<>> /\ \A k \in 1..m : F[k] = Step(F[k - 1], k)
  <2>1. F = [k \in 0..m |-> IF k = 0 THEN <<>> ELSE Step(F[k - 1], k)]
    BY <1>0, <1>7 DEF Step
  <2> QED
    BY <2>1
<1>9. \A k \in 0..m : F[k] \in A
  <2> HIDE DEF A
  <2> QED
    BY <1>2, <1>4, <1>8, RunStays
<1>10. Without(t, ids) = F[m]
  BY <1>0 DEF Without, F
<1> QED
  BY <1>9, <1>10

(* A table of the entries there were. *)
LEMMA TableOfParts ==
  ASSUME NEW e \in Engines, NEW t \in Seq(Bp),
         \A i \in DOMAIN t : \E j \in DOMAIN e.bp : t[i].id = e.bp[j].id /\ t[i].start = e.bp[j].start
  PROVE  [e EXCEPT !.bp = t] \in Engines /\ Later(e, [e EXCEPT !.bp = t])
<1> DEFINE f == [e EXCEPT !.bp = t]
<1>1. e \in EngineType /\ IdsAreOnce(e) /\ RunsWhat(e)
  BY DEF Engines
<1>2. f \in EngineType /\ f.bp = t /\ f.next_id = e.next_id
  BY <1>1 DEF EngineType
<1>3. RunsWhat(f)
  BY <1>1 DEF EngineType, RunsWhat
<1> HIDE DEF f
<1>4. IdsAreOnce(f)
  <2>1. ASSUME NEW i \in DOMAIN t PROVE t[i].id < f.next_id
    BY <1>1, <1>2 DEF IdsAreOnce
  <2>2. ASSUME NEW i \in DOMAIN t, NEW k \in DOMAIN t, t[i].id = t[k].id PROVE t[i].start = t[k].start
    BY <1>1, <2>2 DEF IdsAreOnce
  <2> QED
    BY <1>2, <2>1, <2>2 DEF IdsAreOnce
<1>5. Later(e, f)
  <2>1. e.next_id \in Nat
    BY <1>1 DEF EngineType
  <2>2. ASSUME NEW j \in DOMAIN f.bp
        PROVE  \E i \in DOMAIN e.bp : e.bp[i].id = f.bp[j].id /\ e.bp[i].start = f.bp[j].start
    <3>1. PICK i \in DOMAIN e.bp : t[j].id = e.bp[i].id /\ t[j].start = e.bp[i].start
      BY <1>2
    <3> QED
      BY <1>2, <3>1
  <2> QED
    BY <1>2, <2>1, <2>2 DEF Later
<1> QED
  BY <1>2, <1>3, <1>4, <1>5 DEF Engines, f

(* The edits of the table leave every id its place. *)
LEMMA BpRemoveKeeps ==
  ASSUME NEW e \in Engines, NEW ids
  PROVE  BpRemove(e, ids) \in Engines /\ Later(e, BpRemove(e, ids))
<1>1. e.bp \in Seq(Bp)
  BY DEF Engines, EngineType
<1>2. Without(e.bp, ids) \in Parts(e.bp)
  BY <1>1, WithoutIsPart
<1>3. PICK t : t = Without(e.bp, ids)
  OBVIOUS
<1>4. t \in Seq(Bp) /\ \A i \in 1..Len(t) : \E j \in 1..Len(e.bp) : t[i] = e.bp[j]
  BY <1>2, <1>3 DEF Parts
<1>5. \A i \in DOMAIN t : \E j \in DOMAIN e.bp : t[i].id = e.bp[j].id /\ t[i].start = e.bp[j].start
  BY <1>1, <1>4
<1>6. BpRemove(e, ids) = [e EXCEPT !.bp = t]
  BY <1>3 DEF BpRemove
<1> QED
  BY <1>4, <1>5, <1>6, TableOfParts

LEMMA BpEnableKeeps ==
  ASSUME NEW e \in Engines, NEW ids, NEW on \in BOOLEAN
  PROVE  BpEnable(e, ids, on) \in Engines /\ Later(e, BpEnable(e, ids, on))
<1>1. e.bp \in Seq(Bp)
  BY DEF Engines, EngineType
<1> DEFINE t == [i \in DOMAIN e.bp |-> IF e.bp[i].id \in ids THEN [e.bp[i] EXCEPT !.enabled = on]
                                       ELSE e.bp[i]]
<1>2. PICK n \in Nat : n = Len(e.bp) /\ DOMAIN e.bp = 1..n
  BY <1>1
<1>3. \A i \in 1..n : t[i] \in Bp /\ t[i].id = e.bp[i].id /\ t[i].start = e.bp[i].start
  <2> TAKE i \in 1..n
  <2>1. e.bp[i] \in Bp
    BY <1>1, <1>2
  <2>2. t[i] = IF e.bp[i].id \in ids THEN [e.bp[i] EXCEPT !.enabled = on] ELSE e.bp[i]
    BY <1>2
  <2> HIDE DEF t
  <2> QED
    BY <2>1, <2>2 DEF Bp
<1>4. t \in Seq(Bp) /\ DOMAIN t = DOMAIN e.bp
  <2>1. t \in [1..n -> Bp]
    BY <1>2, <1>3
  <2> QED
    BY <1>2, <2>1
<1>5. BpEnable(e, ids, on) = [e EXCEPT !.bp = t]
  BY DEF BpEnable
<1> HIDE DEF t
<1>6. \A i \in DOMAIN t : \E j \in DOMAIN e.bp : t[i].id = e.bp[j].id /\ t[i].start = e.bp[j].start
  BY <1>2, <1>3, <1>4
<1> QED
  BY <1>4, <1>5, <1>6, TableOfParts

LEMMA BpClearKeeps ==
  ASSUME NEW e \in Engines PROVE BpClear(e) \in Engines /\ Later(e, BpClear(e))
<1>1. <<>> \in Seq(Bp) /\ DOMAIN <<>> = {}
  OBVIOUS
<1> QED
  BY <1>1, TableOfParts DEF BpClear

(* The new breakpoint has an id that none has had. *)
LEMMA BpAddKeeps ==
  ASSUME NEW e \in Engines, NEW a \in Addr
  PROVE  BpAdd(e, a) \in Engines /\ Later(e, BpAdd(e, a))
<1> DEFINE b == [id |-> e.next_id, start |-> a, enabled |-> TRUE]
           t == Append(e.bp, b)
           f == [e EXCEPT !.bp = t, !.next_id = e.next_id + 1]
<1>1. e \in EngineType /\ IdsAreOnce(e) /\ RunsWhat(e)
  BY DEF Engines
<1>2. e.bp \in Seq(Bp) /\ e.next_id \in Nat \ {0} /\ b \in Bp
  BY <1>1 DEF EngineType, Bp
<1>3. /\ t \in Seq(Bp) /\ DOMAIN t = 1..(Len(e.bp) + 1) /\ Len(e.bp) \in Nat
      /\ DOMAIN e.bp = 1..Len(e.bp)
      /\ t[Len(e.bp) + 1] = b /\ \A i \in 1..Len(e.bp) : t[i] = e.bp[i]
  <2> HIDE DEF b
  <2> QED
    BY <1>2
<1>4. \A i \in DOMAIN e.bp : e.bp[i].id < e.next_id /\ e.bp[i] \in Bp
  BY <1>1, <1>2 DEF IdsAreOnce
<1>5. f \in EngineType /\ f.bp = t /\ f.next_id = e.next_id + 1 /\ RunsWhat(f)
  <2> HIDE DEF b
  <2>1. t \in Seq(Bp)
    BY <1>3
  <2> HIDE DEF t
  <2>2. e.next_id + 1 \in Nat \ {0}
    BY <1>2
  <2>3. f \in EngineType /\ f.bp = t /\ f.next_id = e.next_id + 1
    BY <1>1, <2>1, <2>2 DEF EngineType
  <2>4. f.stopped = e.stopped /\ f.behind = e.behind /\ f.fetched = e.fetched /\ f.mem = e.mem /\ f.pc = e.pc
    BY <1>1 DEF EngineType
  <2> HIDE DEF f
  <2> QED
    BY <1>1, <2>3, <2>4 DEF RunsWhat
<1>6. b.id = e.next_id /\ b.start = a
  OBVIOUS
<1> HIDE DEF f, t, b
<1>7. \A i \in DOMAIN t : \/ i \in DOMAIN e.bp /\ t[i] = e.bp[i]
                          \/ i = Len(e.bp) + 1 /\ t[i] = b
  <2>1. PICK n \in Nat : n = Len(e.bp)
    BY <1>3
  <2> TAKE i \in DOMAIN t
  <2>2. i \in 1..(n + 1) /\ DOMAIN e.bp = 1..n
    BY <1>3, <2>1
  <2>3. CASE i = n + 1
    BY <1>3, <2>1, <2>3
  <2>4. CASE i # n + 1
    <3>1. i \in 1..n
      BY <2>2, <2>4
    <3>2. t[i] = e.bp[i]
      BY <1>3, <2>1, <3>1
    <3> QED
      BY <2>2, <3>1, <3>2
  <2> QED
    BY <2>3, <2>4
<1>8. IdsAreOnce(f)
  <2>1. ASSUME NEW i \in DOMAIN t PROVE t[i].id < f.next_id
    <3>1. CASE i \in DOMAIN e.bp /\ t[i] = e.bp[i]
      <4>1. e.bp[i].id < e.next_id /\ e.bp[i].id \in Nat
        BY <1>4, <3>1 DEF Bp
      <4> QED
        BY <1>2, <1>5, <3>1, <4>1
    <3>2. CASE t[i] = b
      BY <1>2, <1>5, <1>6, <3>2
    <3> QED
      BY <1>7, <3>1, <3>2
  <2>2. ASSUME NEW i \in DOMAIN t, NEW k \in DOMAIN t, t[i].id = t[k].id
        PROVE  t[i].start = t[k].start
    <3>1. \A x \in DOMAIN e.bp : e.bp[x].id # b.id
      BY <1>2, <1>4, <1>6 DEF Bp
    <3>2. CASE i \in DOMAIN e.bp /\ t[i] = e.bp[i] /\ k \in DOMAIN e.bp /\ t[k] = e.bp[k]
      BY <1>1, <2>2, <3>2 DEF IdsAreOnce
    <3> QED
      BY <1>7, <2>2, <3>1, <3>2
  <2> QED
    BY <1>5, <2>1, <2>2 DEF IdsAreOnce
<1>9. Later(e, f)
  <2>1. ASSUME NEW j \in DOMAIN t
        PROVE  \/ t[j].id >= e.next_id
               \/ \E i \in DOMAIN e.bp : e.bp[i].id = t[j].id /\ e.bp[i].start = t[j].start
    <3>1. CASE j \in DOMAIN e.bp /\ t[j] = e.bp[j]
      BY <3>1
    <3>2. CASE t[j] = b
      BY <1>2, <1>6, <3>2
    <3> QED
      BY <1>7, <3>1, <3>2
  <2> QED
    BY <1>2, <1>5, <2>1 DEF Later
<1>10. Later(e, e)
  BY <1>2 DEF Later
<1>11. f \in Engines
  BY <1>5, <1>8 DEF Engines
<1> QED
  BY <1>9, <1>10, <1>11 DEF BpAdd, f, t, b

LEMMA BpToggleKeeps ==
  ASSUME NEW e \in Engines, NEW a \in Addr
  PROVE  BpToggle(e, a) \in Engines /\ Later(e, BpToggle(e, a))
BY BpAddKeeps, BpRemoveKeeps DEF BpToggle

(* Labels, by hand and from a file. *)
LEMMA LabelsEdit ==
  ASSUME NEW e \in Engines, NEW a \in Names, NEW named \in BOOLEAN
  PROVE  SetLabel(e, a, named) \in Edited(e)
<1>1. e \in EngineType /\ IdsAreOnce(e) /\ RunsWhat(e)
  BY DEF Engines
<1>2. ASSUME NEW us \in SUBSET Names PROVE [e EXCEPT !.user = us] \in Edited(e)
  BY <1>1 DEF Edited, Engines, EngineType, IdsAreOnce, RunsWhat
<1>4. e.user \cup {a} \in SUBSET Names /\ e.user \ {a} \in SUBSET Names
  BY <1>1 DEF EngineType
<1> QED
  BY <1>2, <1>4 DEF SetLabel

LEMMA LabelFileEdits ==
  ASSUME NEW e \in Engines, NEW as \in SUBSET Names
  PROVE  LoadSymbols(e, as) \in Edited(e)
BY DEF Edited, Engines, EngineType, IdsAreOnce, RunsWhat, LoadSymbols

(* The machine, as it goes. *)
LEMMA MovedOnEdits == ASSUME NEW e \in Engines, NEW f \in MovedOn(e) PROVE f \in Edited(e)
<1>1. e \in EngineType
  BY DEF Engines
<1>2. PICK a \in Addr, c \in Byte, s \in BOOLEAN : f = MovedTo(e, a, c, s)
  BY DEF MovedOn
<1> DEFINE g == [e EXCEPT !.pc = a, !.carry = c, !.stopped = s, !.mem = Drawn(e.mem, c)]
<1>3. Drawn(e.mem, c) \in [Addr -> Byte]
  BY <1>1 DEF EngineType, Drawn
<1>4. c \in Int
  BY DEF Byte
<1>5. g \in EngineType /\ g.bp = e.bp /\ g.next_id = e.next_id
  BY <1>1, <1>3, <1>4 DEF EngineType
<1>6. f = RefreshFetch(g)
  BY <1>2, <1>1 DEF MovedTo, EngineType
<1> HIDE DEF g
<1> QED
  BY <1>5, <1>6, RefreshEdits

LEMMA SteppedEdits == ASSUME AddrBounds, NEW e \in Engines PROVE Stepped(e) \in Edited(e)
<1>1. e \in EngineType
  BY DEF Engines
<1>2. Plus(e.pc, e.fetched + 1) \in Addr
  <2>1. e.pc \in Int /\ e.fetched + 1 \in Int
    BY <1>1 DEF EngineType, Addr, Byte
  <2> QED
    BY <2>1, PlusType
<1> DEFINE g == [e EXCEPT !.pc = Plus(e.pc, e.fetched + 1)]
<1>3. g \in EngineType /\ g.bp = e.bp /\ g.next_id = e.next_id
  BY <1>1, <1>2 DEF EngineType
<1> HIDE DEF g
<1> QED
  BY <1>3, RefreshEdits DEF g, Stepped

(* What the console leaves. *)
LEMMA CommandsKeep ==
  ASSUME AddrBounds, engine \in Engines, NEW f \in Commands
  PROVE  f \in Engines /\ Later(engine, f)
<1>1. ASSUME NEW g \in Edited(engine) PROVE g \in Engines /\ Later(engine, g)
  BY EditedIsLater
<1>2. CASE f \in ReadCommands(engine)
  BY <1>1, <1>2, SameIsEdited DEF ReadCommands
<1>3. CASE f \in BreakCommands(engine)
  <2>1. Places \subseteq Addr
    BY DEF AddrBounds, Addr
  <2>2. CASE \E a \in Places : f = BpAdd(engine, a)
    BY <2>1, <2>2, BpAddKeeps
  <2>3. CASE \E v \in Addr, hash \in BOOLEAN : f = BpRemove(engine, BpIds(engine, v, hash))
    BY <2>3, BpRemoveKeeps
  <2>4. CASE \E v \in Addr, hash \in BOOLEAN, on \in BOOLEAN :
               f = BpEnable(engine, BpIds(engine, v, hash), on)
    BY <2>4, BpEnableKeeps
  <2>5. CASE f = BpClear(engine)
    BY <2>5, BpClearKeeps
  <2> QED
    BY <1>3, <2>2, <2>3, <2>4, <2>5 DEF BreakCommands
<1>4. CASE f \in SetCommands(engine)
  <2>1. \A v \in Addr : CpuSet(engine, "pc", v) \in Edited(engine)
    BY CpuSetEdits DEF Addr, Regs
  <2>2. \A v \in Byte : CpuSet(engine, "carry", v) \in Edited(engine)
    BY CpuSetEdits DEF Byte, Regs
  <2> QED
    BY <1>1, <1>4, <2>1, <2>2 DEF SetCommands
<1>5. CASE f \in PokeCommands(engine)
  <2>1. CASE \E a \in Addr, vs \in UNION {[1..n -> Byte] : n \in 0..2} : f = Writes(engine, a, vs)
    <3>1. PICK a \in Addr, vs \in UNION {[1..n -> Byte] : n \in 0..2} : f = Writes(engine, a, vs)
      BY <2>1
    <3>2. PICK n \in 0..2 : vs \in [1..n -> Byte]
      BY <3>1
    <3>3. n \in Nat
      OBVIOUS
    <3> QED
      BY <1>1, <3>1, <3>2, <3>3, WritesEdits
  <2>2. CASE \E a \in Screen, v \in Byte : f = VramWrite(engine, a, v)
    <3>1. Screen \subseteq Addr
      BY DEF AddrBounds, Addr
    <3> QED
      BY <1>1, <2>2, <3>1, VramWriteEdits
  <2> QED
    BY <1>5, <2>1, <2>2 DEF PokeCommands
<1>6. CASE f \in LabelCommands(engine)
  <2>1. \A a \in Names, named \in BOOLEAN : SetLabel(engine, a, named) \in Edited(engine)
    BY LabelsEdit
  <2>2. \A as \in SUBSET Names : LoadSymbols(engine, as) \in Edited(engine)
    BY LabelFileEdits
  <2> QED
    BY <1>1, <1>6, <2>1, <2>2 DEF LabelCommands
<1> QED
  BY <1>2, <1>3, <1>4, <1>5, <1>6 DEF Commands

-----------------------------------------------------------------------------
(* Addresses wrap. *)
Wrap == MaxAddr + 1

(* Of a number below twice the modulus. *)
LEMMA Wraps ==
  ASSUME NEW m \in Nat \ {0}, NEW y \in Int
  PROVE  /\ 0 <= y /\ y < m => y % m = y
         /\ m <= y /\ y < 2 * m => y % m = y - m
         /\ y = 2 * m => y % m = 0
<1>1. ASSUME 0 <= y, y < m PROVE y % m = y
  BY <1>1
<1>2. ASSUME m <= y, y < 2 * m PROVE y % m = y - m
  BY <1>2
<1>3. ASSUME y = 2 * m PROVE y % m = 0
  BY <1>3
<1> QED
  BY <1>1, <1>2, <1>3

(* From an address before a, l on. *)
LEMMA PlusOn ==
  ASSUME AddrBounds, NEW a \in Addr, NEW t \in -MaxAddr..-1, NEW l \in 1..2
  PROVE  Plus(Plus(a, Wrap + t), l) = Plus(a, Wrap + (t + l))
<1>1. Wrap \in Nat \ {0} /\ Wrap >= 2 /\ a \in 0..(Wrap - 1) /\ t \in (1 - Wrap)..-1 /\ MaxAddr + 1 = Wrap
  BY DEF Wrap, Addr, AddrBounds
<1> DEFINE y == a + (Wrap + t)
<1>2. y \in 1..(2 * Wrap - 2) /\ y + l = a + (Wrap + (t + l))
  BY <1>1
<1>3. Plus(a, Wrap + t) = y % Wrap /\ Plus(a, Wrap + (t + l)) = (y + l) % Wrap
  BY <1>1, <1>2 DEF Plus
<1> HIDE DEF y
<1>4. CASE y < Wrap
  <2>1. y % Wrap = y
    BY <1>1, <1>2, <1>4, Wraps
  <2> QED
    BY <1>1, <1>3, <2>1 DEF Plus
<1>5. CASE y >= Wrap
  <2>1. y % Wrap = y - Wrap
    <3>1. Wrap <= y /\ y < 2 * Wrap /\ y \in Int
      BY <1>1, <1>2, <1>5
    <3> QED
      BY <1>1, <3>1, Wraps
  <2>2. Plus(Plus(a, Wrap + t), l) = (y - Wrap + l) % Wrap
    BY <1>1, <1>3, <2>1 DEF Plus
  <2>3. CASE y + l < 2 * Wrap
    <3>1. (y + l) % Wrap = (y + l) - Wrap
      <4>1. Wrap <= y + l /\ y + l \in Int
        BY <1>1, <1>2, <1>5
      <4>2. PICK z \in Int : z = y + l
        BY <4>1
      <4>3. Wrap <= z /\ z < 2 * Wrap
        BY <2>3, <4>1, <4>2
      <4>4. z % Wrap = z - Wrap
        BY <1>1, <4>3, Wraps
      <4>5. z - Wrap = (y + l) - Wrap
        BY <4>2
      <4> QED
        BY <4>2, <4>4, <4>5, Zenon
    <3>2. (y - Wrap + l) % Wrap = y - Wrap + l
      <4>1. 0 <= y - Wrap + l /\ y - Wrap + l < Wrap /\ y - Wrap + l \in Int
        BY <1>1, <1>2, <1>5, <2>3
      <4> QED
        BY <1>1, <4>1, Wraps
    <3>3. y - Wrap + l = (y + l) - Wrap
      BY <1>1, <1>2
    <3> QED
      BY <1>3, <2>2, <3>1, <3>2, <3>3
  <2>4. CASE y + l = 2 * Wrap
    <3>1. (y + l) % Wrap = 0
      BY <1>1, <1>2, <2>4, Wraps
    <3>2. y - Wrap + l = Wrap
      BY <1>1, <1>2, <2>4
    <3>3. Wrap % Wrap = 0
      BY <1>1, Wraps
    <3> QED
      BY <1>3, <2>2, <3>1, <3>2, <3>3
  <2> QED
    BY <1>1, <1>2, <2>3, <2>4
<1> QED
  BY <1>1, <1>2, <1>4, <1>5

(* Once around is nothing. *)
LEMMA PlusNone == ASSUME AddrBounds, NEW a \in Addr PROVE Plus(a, Wrap + 0) = a
<1>1. Wrap \in Nat \ {0} /\ a \in 0..(Wrap - 1) /\ MaxAddr + 1 = Wrap
  BY DEF Wrap, Addr, AddrBounds
<1>2. (a + Wrap) % Wrap = a
  BY <1>1, Wraps
<1> QED
  BY <1>1, <1>2 DEF Plus

(* An instruction has one byte or two. *)
LEMMA LengthType == ASSUME NEW e \in Engines, NEW a \in Addr PROVE Length(e, a) \in 1..2
<1>1. e.mem[a] \in Byte
  BY DEF Engines, EngineType
<1> QED
  BY <1>1 DEF Length, Byte

-----------------------------------------------------------------------------
(* The addresses of an instruction and of those after it. *)
OnFrom(e, at, n) ==
  \A i \in 1..n : at[i] = Plus(at[i - 1], Length(e, at[i - 1]))

LEMMA OnType ==
  ASSUME AddrBounds, NEW e \in Engines, NEW a \in Addr
  PROVE  Plus(a, Length(e, a)) \in Addr
<1>1. a \in Int /\ Length(e, a) \in Int
  BY LengthType DEF Addr
<1> QED
  BY <1>1, PlusType

(* The addresses of n instructions, from one at a. *)
LEMMA OnExists ==
  ASSUME AddrBounds, NEW e \in Engines, NEW a \in Addr, NEW n \in Nat
  PROVE  \E f \in [0..n -> Addr] : f[0] = a /\ OnFrom(e, f, n)
<1> DEFINE Op == [x \in (1..n) \X Addr |-> Plus(x[2], Length(e, x[2]))]
<1>1. Op \in [(1..n) \X Addr -> Addr]
  BY OnType
<1>2. PICK f \in [0..n -> Addr] : Runs(f, n, a, Op)
  <2> HIDE DEF Op
  <2> QED
    BY <1>1, RunExists
<1>3. ASSUME NEW k \in 1..n PROVE f[k] = Plus(f[k - 1], Length(e, f[k - 1]))
  <2>1. f[k - 1] \in Addr
    BY <1>2
  <2>2. f[k] = Op[<<k, f[k - 1]>>]
    <3> HIDE DEF Op
    <3> QED
      BY <1>2 DEF Runs
  <2> QED
    BY <2>1, <2>2
<1>4. f[0] = a
  BY <1>2 DEF Runs
<1> QED
  BY <1>3, <1>4 DEF OnFrom

(* A disassembly has a line for each of them. *)
LEMMA DisassembleRun ==
  ASSUME AddrBounds, NEW e \in Engines, NEW top \in Addr, NEW size \in Nat \ {0}
  PROVE  \E at \in [1..size -> Addr] :
           /\ at[1] = top
           /\ \A i \in 1..(size - 1) : at[i + 1] = Plus(at[i], Length(e, at[i]))
           /\ Disassemble(e, top, size) = [i \in 1..size |-> FillLine(e, at[i])]
<1> DEFINE Eq(f) == f = [i \in 1..size |-> IF i = 1 THEN top
                                           ELSE Plus(f[i - 1], Length(e, f[i - 1]))]
           at == CHOOSE f : Eq(f)
<1>1. PICK f \in [0..size -> Addr] : f[0] = top /\ OnFrom(e, f, size)
  BY OnExists
<1> DEFINE g == [i \in 1..size |-> f[i - 1]]
<1>2. Eq(g)
  <2>1. ASSUME NEW i \in 1..size, i # 1 PROVE g[i] = Plus(g[i - 1], Length(e, g[i - 1]))
    <3>1. i - 1 \in 1..size /\ i - 1 - 1 \in 0..size
      BY <2>1
    <3>2. g[i] = f[i - 1] /\ g[i - 1] = f[i - 1 - 1]
      BY <2>1, <3>1
    <3> QED
      BY <1>1, <3>1, <3>2 DEF OnFrom
  <2>2. g[1] = top
    BY <1>1
  <2>3. g = [i \in 1..size |-> g[i]]
    OBVIOUS
  <2> HIDE DEF g
  <2> QED
    BY <2>1, <2>2, <2>3
<1>3. Eq(at)
  BY <1>2
<1>4. Disassemble(e, top, size) = [i \in 1..size |-> FillLine(e, at[i])]
  BY DEF Disassemble
<1> HIDE DEF at
<1>5. at[1] = top
  BY <1>3
<1>6. ASSUME NEW i \in 1..(size - 1) PROVE at[i + 1] = Plus(at[i], Length(e, at[i]))
  <2>1. i + 1 \in 1..size /\ i + 1 # 1 /\ i + 1 - 1 = i
    OBVIOUS
  <2> QED
    BY <1>3, <2>1
<1>7. at \in [1..size -> Addr]
  <2> DEFINE F == [k \in 0..(size - 1) |-> at[k + 1]]
  <2>1. F[0] \in Addr
    BY <1>5
  <2>2. ASSUME NEW k \in 1..(size - 1), F[k - 1] \in Addr PROVE F[k] \in Addr
    <3>1. F[k - 1] = at[k] /\ F[k] = at[k + 1]
      BY <2>2
    <3> HIDE DEF F
    <3> QED
      BY <1>6, <2>2, <3>1, OnType
  <2>3. \A k \in 0..(size - 1) : F[k] \in Addr
    <3> HIDE DEF F
    <3> QED
      BY <2>1, <2>2, RunStays
  <2>4. ASSUME NEW i \in 1..size PROVE at[i] \in Addr
    <3>1. i - 1 \in 0..(size - 1) /\ F[i - 1] = at[i]
      OBVIOUS
    <3> QED
      BY <2>3, <3>1
  <2> HIDE DEF F
  <2> QED
    BY <1>3, <2>4
<1> QED
  BY <1>4, <1>5, <1>6, <1>7

(* So many rows on. *)
LEMMA OnAddress ==
  ASSUME AddrBounds, NEW e \in Engines, NEW a \in Addr, NEW size \in Nat
  PROVE  RowAddress(e, a, size) \in Addr /\ (size = 0 => RowAddress(e, a, size) = a)
<1> DEFINE Eq(f) == f = [n \in 0..size |-> IF n = 0 THEN a
                                           ELSE Plus(f[n - 1], Length(e, f[n - 1]))]
           on == CHOOSE f : Eq(f)
<1>1. PICK f \in [0..size -> Addr] : f[0] = a /\ OnFrom(e, f, size)
  BY OnExists
<1>2. Eq(f)
  BY <1>1 DEF OnFrom
<1>3. Eq(on)
  BY <1>2
<1>4. RowAddress(e, a, size) = on[size]
  BY DEF RowAddress
<1> HIDE DEF on
<1>5. on[0] = a /\ \A k \in 1..size : on[k] = Plus(on[k - 1], Length(e, on[k - 1]))
  BY <1>3
<1>6. \A k \in 0..size : on[k] \in Addr
  <2>1. \A k \in 1..size : on[k - 1] \in Addr => on[k] \in Addr
    BY <1>5, OnType
  <2> QED
    BY <1>5, <2>1, RunStays
<1> QED
  BY <1>4, <1>5, <1>6

-----------------------------------------------------------------------------
(* The instructions before an address: to[n] is how far the n-th from back   *)
(* bytes before it starts, at 0 or 1 for the rest.                           *)
Leads(e, a, back, to) ==
  /\ to \in [0..back -> -back..1] /\ to[0] = -back
  /\ \A n \in 1..back :
       to[n] = IF to[n - 1] >= 0 THEN to[n - 1]
               ELSE to[n - 1] + Length(e, Plus(a, Wrap + to[n - 1]))

(* Starts is the starts of such a run, if it lands on a. *)
LEMMA StartsRun ==
  ASSUME AddrBounds, NEW e \in Engines, NEW a \in Addr, NEW back \in 1..MaxAddr
  PROVE  \E to : /\ Leads(e, a, back, to)
                 /\ Starts(e, a, back) = IF to[back] = 0 THEN {-to[n] : n \in 0..back} \ {0}
                                         ELSE {}
<1> DEFINE A == -back..1
           Step(t) == IF t >= 0 THEN t ELSE t + Length(e, Plus(a, Wrap + t))
           Eq(f) == f = [n \in 0..back |->
                           IF n = 0 THEN -back
                           ELSE IF f[n - 1] >= 0 THEN f[n - 1]
                           ELSE f[n - 1] + Length(e, Plus(a, MaxAddr + 1 + f[n - 1]))]
           to == CHOOSE f : Eq(f)
           Op == [x \in (1..back) \X A |-> Step(x[2])]
<1>1. back \in Nat /\ MaxAddr \in Nat /\ Wrap \in Nat /\ a \in Int
  BY DEF AddrBounds, Addr, Wrap
<1>2. ASSUME NEW t \in A PROVE Step(t) \in A
  <2>1. t \in Int /\ Wrap + t \in Int
    BY <1>1
  <2>2. Length(e, Plus(a, Wrap + t)) \in 1..2
    BY <1>1, <2>1, PlusType, LengthType
  <2> QED
    BY <1>1, <2>1, <2>2
<1>3. Op \in [(1..back) \X A -> A]
  <2> HIDE DEF Step, A
  <2> QED
    BY <1>2
<1>4. -back \in A
  BY <1>1
<1>5. PICK f \in [0..back -> A] : Runs(f, back, -back, Op)
  <2> HIDE DEF Op, A
  <2> QED
    BY <1>1, <1>3, <1>4, RunExists
<1>6. f = [n \in 0..back |-> IF n = 0 THEN -back ELSE Step(f[n - 1])]
  <2>1. ASSUME NEW k \in 1..back PROVE f[k] = Step(f[k - 1])
    <3> HIDE DEF A, Step
    <3>1. f[k - 1] \in A
      BY <1>5
    <3>2. f[k] = Op[<<k, f[k - 1]>>]
      <4> HIDE DEF Op
      <4> QED
        BY <1>5 DEF Runs
    <3> QED
      BY <3>1, <3>2
  <2>2. f[0] = -back
    BY <1>5 DEF Runs
  <2>3. \A k \in 0..back : k = 0 \/ k \in 1..back
    BY <1>1
  <2> HIDE DEF A, Step
  <2> QED
    BY <1>5, <2>1, <2>2, <2>3
<1>7. Eq(f)
  BY <1>6 DEF Wrap
<1>8. Eq(to)
  BY <1>7
<1>9. Starts(e, a, back) = IF to[back] = 0 THEN {-to[n] : n \in 0..back} \ {0} ELSE {}
  BY DEF Starts
<1> HIDE DEF to
<1>10. to = [n \in 0..back |-> IF n = 0 THEN -back ELSE Step(to[n - 1])]
  BY <1>8 DEF Wrap
<1>11. to[0] = -back /\ \A k \in 1..back : to[k] = Step(to[k - 1])
  <2> HIDE DEF Step
  <2> QED
    BY <1>1, <1>10
<1>12. \A k \in 0..back : to[k] \in A
  <2> HIDE DEF A, Step
  <2>1. \A k \in 1..back : to[k - 1] \in A => to[k] \in A
    BY <1>2, <1>11
  <2> QED
    BY <1>1, <1>4, <1>11, <2>1, RunStays
<1>13. to \in [0..back -> A]
  <2> HIDE DEF A, Step
  <2> QED
    BY <1>10, <1>12
<1>14. Leads(e, a, back, to)
  BY <1>11, <1>13 DEF Leads
<1> QED
  BY <1>9, <1>14

(* The starts follow one another. *)
LEMMA LeadsOn ==
  ASSUME AddrBounds, NEW e \in Engines, NEW a \in Addr, NEW back \in 1..MaxAddr, NEW to,
         Leads(e, a, back, to)
  PROVE  /\ \A n \in 1..back : to[n - 1] < 0 => /\ to[n - 1] < to[n]
                                                /\ to[n - 1] \in -MaxAddr..-1
         /\ \A n, m \in 0..back : n <= m => to[n] <= to[m]
<1>1. back \in Nat /\ MaxAddr \in Nat /\ Wrap \in Nat /\ a \in Int
  BY DEF AddrBounds, Addr, Wrap
<1>2. \A n \in 0..back : to[n] \in -back..1 /\ to[n] \in Int
  BY DEF Leads
<1>3. ASSUME NEW n \in 1..back, to[n - 1] < 0 PROVE to[n - 1] < to[n] /\ to[n - 1] \in -MaxAddr..-1
  <2>1. to[n - 1] \in Int /\ to[n - 1] \in -back..1 /\ Wrap + to[n - 1] \in Int
    BY <1>1, <1>2
  <2>2. Length(e, Plus(a, Wrap + to[n - 1])) \in 1..2
    BY <1>1, <2>1, PlusType, LengthType
  <2>3. to[n] = to[n - 1] + Length(e, Plus(a, Wrap + to[n - 1]))
    BY <1>3, <2>1 DEF Leads
  <2> QED
    BY <1>1, <1>3, <2>1, <2>2, <2>3
<1>4. ASSUME NEW n \in 1..back PROVE to[n - 1] <= to[n]
  <2>1. n \in 0..back /\ n - 1 \in 0..back
    OBVIOUS
  <2>2. to[n - 1] \in Int /\ to[n] \in Int
    BY <1>2, <2>1
  <2>3. CASE to[n - 1] < 0
    BY <1>3, <2>2, <2>3
  <2>4. CASE to[n - 1] >= 0
    <3>1. to[n] = to[n - 1]
      BY <2>4 DEF Leads
    <3> QED
      BY <2>2, <3>1
  <2> QED
    BY <2>2, <2>3, <2>4
<1>5. ASSUME NEW n \in 0..back PROVE \A k \in 0..(back - n) : to[n] <= to[n + k]
  <2> DEFINE S == {k \in 0..(back - n) : to[n] <= to[n + k]}
  <2>1. 0 \in S
    BY <1>2
  <2>2. ASSUME NEW k \in 1..(back - n), k - 1 \in S PROVE k \in S
    <3>1. n + k \in 1..back /\ n + k \in 0..back /\ n + (k - 1) = n + k - 1 /\ n + k - 1 \in 0..back
      BY <1>1
    <3>2. to[n] \in Int /\ to[n + k - 1] \in Int /\ to[n + k] \in Int
      BY <1>2, <3>1
    <3>3. to[n + k - 1] <= to[n + k]
      BY <1>4, <3>1
    <3>4. to[n] <= to[n + k - 1]
      BY <2>2, <3>1
    <3>5. to[n] <= to[n + k]
      BY <3>2, <3>3, <3>4
    <3>6. k \in 0..(back - n)
      OBVIOUS
    <3> QED
      BY <3>5, <3>6
  <2>3. 0..(back - n) \subseteq S
    <3>1. back - n \in Nat
      BY <1>1
    <3> HIDE DEF S
    <3> QED
      BY <2>1, <2>2, <3>1, Inductive
  <2> QED
    BY <2>3
<1>6. ASSUME NEW n \in 0..back, NEW m \in 0..back, n <= m PROVE to[n] <= to[m]
  <2>1. m - n \in 0..(back - n) /\ n + (m - n) = m
    BY <1>1, <1>6
  <2> QED
    BY <1>5, <2>1
<1> QED
  BY <1>3, <1>6

LEMMA StartsType ==
  ASSUME AddrBounds, NEW e \in Engines, NEW a \in Addr, NEW back \in 1..MaxAddr
  PROVE  Starts(e, a, back) \in SUBSET (1..MaxAddr) /\ IsFiniteSet(Starts(e, a, back))
<1>1. PICK to : /\ Leads(e, a, back, to)
                /\ Starts(e, a, back) = IF to[back] = 0 THEN {-to[n] : n \in 0..back} \ {0}
                                        ELSE {}
  BY StartsRun
<1>2. MaxAddr \in Nat
  BY DEF AddrBounds
<1>3. ASSUME to[back] = 0, NEW n \in 0..back, -to[n] # 0 PROVE -to[n] \in 1..MaxAddr
  <2>1. n <= back /\ back \in 0..back
    BY <1>2
  <2>2. to[n] <= to[back]
    BY <1>1, <2>1, LeadsOn
  <2>3. to[n] \in -back..1
    BY <1>1 DEF Leads
  <2> QED
    BY <1>2, <1>3, <2>2, <2>3
<1>4. Starts(e, a, back) \in SUBSET (1..MaxAddr)
  BY <1>1, <1>3
<1>5. IsFiniteSet(1..MaxAddr)
  BY <1>2, FS_Interval
<1> QED
  BY <1>4, <1>5, FS_Subset

(* Of a finite set of numbers, one has k of them at or below it. *)
Below(S, x) == {s \in S : s <= x}
LEMMA KthExists ==
  ASSUME NEW b \in Nat, NEW S \in SUBSET (1..b), NEW k \in Nat \ {0}, Cardinality(S) >= k
  PROVE  \E d \in S : Cardinality(Below(S, d)) = k
<1>0. \A s \in S : s \in Nat /\ 1 <= s /\ s <= b
  OBVIOUS
<1>1. IsFiniteSet(S)
  <2>1. IsFiniteSet(1..b)
    BY FS_Interval
  <2> QED
    BY <2>1, FS_Subset
<1>2. ASSUME NEW x PROVE IsFiniteSet(Below(S, x)) /\ Cardinality(Below(S, x)) \in Nat
  <2>1. Below(S, x) \in SUBSET S
    BY DEF Below
  <2> QED
    BY <1>1, <2>1, FS_Subset, FS_CardinalityType
<1> DEFINE T == {x \in Nat : Cardinality(Below(S, x)) >= k}
<1>3. b \in T
  <2>1. Below(S, b) = S
    BY <1>0 DEF Below
  <2> QED
    BY <2>1
<1>4. PICK d \in T : \A y \in T : d <= y
  <2>1. T \in SUBSET Nat /\ T # {}
    BY <1>3
  <2> HIDE DEF T
  <2> QED
    BY <2>1, LeastNumber
<1>5. d # 0
  <2> SUFFICES ASSUME d = 0 PROVE FALSE
    OBVIOUS
  <2>1. Below(S, 0) = {}
    <3>1. \A s \in S : ~(s <= 0)
      BY <1>0
    <3> QED
      BY <3>1, Zenon DEF Below
  <2> QED
    BY <1>4, <2>1, FS_EmptySet
<1>6. d - 1 \in Nat /\ d - 1 \notin T
  BY <1>4, <1>5
<1>7. ~(Cardinality(Below(S, d - 1)) >= k)
  BY <1>6
<1>8. d \in S
  <2> SUFFICES ASSUME d \notin S PROVE FALSE
    OBVIOUS
  <2>1. Below(S, d) = Below(S, d - 1)
    <3>1. \A s \in S : s <= d <=> s <= d - 1
      BY <1>0, <1>4
    <3> QED
      BY <3>1 DEF Below
  <2> QED
    BY <1>4, <1>7, <2>1
<1>9. Below(S, d) = Below(S, d - 1) \cup {d} /\ d \notin Below(S, d - 1)
  <2>1. \A s \in S : s <= d <=> s <= d - 1 \/ s = d
    BY <1>0, <1>4
  <2>2. ~(d <= d - 1)
    BY <1>4
  <2> QED
    BY <1>8, <2>1, <2>2 DEF Below
<1>10. Cardinality(Below(S, d)) = Cardinality(Below(S, d - 1)) + 1
  BY <1>2, <1>9, FS_AddElement
<1>11. Cardinality(Below(S, d)) = k
  <2>1. Cardinality(Below(S, d)) >= k
    BY <1>4
  <2>2. Cardinality(Below(S, d - 1)) \in Nat
    BY <1>2
  <2> QED
    BY <1>7, <1>10, <2>1, <2>2
<1> QED
  BY <1>8, <1>11

(* The longest of the runs that are as long as asked for. *)
LEMMA LongestExists ==
  ASSUME NEW n \in Nat, NEW T \in SUBSET (1..n), T # {}
  PROVE  \E b \in T : \A c \in T : c <= b
<1> DEFINE U == {n - x : x \in T}
<1>1. U \in SUBSET Nat /\ U # {}
  <2>1. \A x \in T : n - x \in Nat
    OBVIOUS
  <2>2. PICK x \in T : n - x \in U
    OBVIOUS
  <2> QED
    BY <2>1, <2>2
<1>2. PICK u \in U : \A y \in U : u <= y
  <2> HIDE DEF U
  <2> QED
    BY <1>1, LeastNumber
<1>3. PICK x \in T : u = n - x
  BY <1>2
<1>4. \A c \in T : c <= x
  BY <1>2, <1>3
<1> QED
  BY <1>4

(* Where so many rows back is. *)
LEMMA RowsBackIs ==
  ASSUME AddrBounds, NEW e \in Engines, NEW a \in Addr, NEW size \in Nat \ {0}
  PROVE  \/ /\ ~\E back \in 1..MaxAddr : Cardinality(Starts(e, a, back)) >= size
            /\ RowsBack(e, a, size) = Plus(a, MaxAddr + 1 - size)
         \/ \E back \in 1..MaxAddr : \E d \in Starts(e, a, back) :
              /\ Cardinality(Below(Starts(e, a, back), d)) = size
              /\ RowsBack(e, a, size) = Plus(a, MaxAddr + 1 - d)
<1> DEFINE long == {back \in 1..MaxAddr : Cardinality(Starts(e, a, back)) >= size}
<1>1. MaxAddr \in Nat
  BY DEF AddrBounds
<1>2. CASE long = {}
  BY <1>2 DEF RowsBack
<1>3. CASE long # {}
  <2> DEFINE b == CHOOSE b \in long : \A c \in long : c <= b
             run == Starts(e, a, b)
             d == CHOOSE d \in run : Cardinality({s \in run : s <= d}) = size
  <2>1. b \in long
    <3>1. long \in SUBSET (1..MaxAddr)
      OBVIOUS
    <3>2. \E x \in long : \A c \in long : c <= x
      <4> HIDE DEF long
      <4> QED
        BY <1>1, <1>3, <3>1, LongestExists
    <3> QED
      BY <3>2
  <2>2. RowsBack(e, a, size) = Plus(a, MaxAddr + 1 - d)
    BY <1>3 DEF RowsBack
  <2> HIDE DEF b
  <2>3. b \in 1..MaxAddr /\ Cardinality(run) >= size
    BY <2>1
  <2>4. run \in SUBSET (1..MaxAddr)
    BY <2>3, StartsType
  <2>5. \E x \in run : Cardinality(Below(run, x)) = size
    BY <1>1, <2>3, <2>4, KthExists
  <2>6. d \in run /\ Cardinality(Below(run, d)) = size
    BY <2>5 DEF Below
  <2> HIDE DEF d
  <2> QED
    BY <2>2, <2>3, <2>6
<1> QED
  BY <1>2, <1>3

LEMMA RowAddressType ==
  ASSUME AddrBounds, NEW e \in Engines, NEW a \in Addr, NEW size \in Int
  PROVE  RowAddress(e, a, size) \in Addr
<1>1. CASE size >= 0
  BY <1>1, OnAddress
<1>2. CASE size < 0
  <2>1. RowAddress(e, a, size) = RowsBack(e, a, -size) /\ -size \in Nat \ {0}
    BY <1>2 DEF RowAddress
  <2>2. MaxAddr \in Nat /\ a \in Int
    BY DEF AddrBounds, Addr
  <2>3. \E d \in Int : RowsBack(e, a, -size) = Plus(a, MaxAddr + 1 - d)
    <3>1. \A back \in 1..MaxAddr : Starts(e, a, back) \subseteq Int
      BY <2>2, StartsType
    <3> QED
      BY <2>1, <3>1, RowsBackIs
  <2>4. \A d \in Int : MaxAddr + 1 - d \in Int
    BY <2>2
  <2> QED
    BY <2>1, <2>2, <2>3, <2>4, PlusType
<1> QED
  BY <1>1, <1>2

Follows(e, at) == \A i \in 1..(WindowRows - 1) : at[i + 1] = Plus(at[i], Length(e, at[i]))

(* A window that starts k starts of a run before a comes to a in k rows.     *)
LEMMA RunComesToIt ==
  ASSUME AddrBounds, PagesBounds, NEW e \in Engines, NEW a \in Addr,
         NEW k \in Nat \ {0}, k <= WindowRows - 1,
         NEW back \in 1..MaxAddr, NEW d \in Starts(e, a, back),
         Cardinality(Below(Starts(e, a, back), d)) = k,
         NEW at \in [1..WindowRows -> Addr], at[1] = Plus(a, Wrap - d), Follows(e, at)
  PROVE  \E i \in 1..WindowRows : at[i] = a
<1> SUFFICES ASSUME ~\E i \in 1..WindowRows : at[i] = a PROVE FALSE
  OBVIOUS
<1> DEFINE run == Starts(e, a, back)
<1>1. /\ back \in Nat /\ MaxAddr \in Nat /\ Wrap \in Nat /\ WindowRows \in Nat /\ back >= 1
  BY DEF AddrBounds, Wrap, PagesBounds
<1>2. PICK to : /\ Leads(e, a, back, to)
                /\ run = IF to[back] = 0 THEN {-to[n] : n \in 0..back} \ {0} ELSE {}
  BY StartsRun
<1>3. \A n \in 0..back : to[n] \in Int /\ to[n] \in -back..1
  BY <1>2 DEF Leads
<1>4. /\ \A n \in 1..back : to[n - 1] < 0 => to[n - 1] < to[n] /\ to[n - 1] \in -MaxAddr..-1
      /\ \A n, m \in 0..back : n <= m => to[n] <= to[m]
  BY <1>2, LeadsOn
<1>5. to[back] = 0
  BY <1>2
<1>6. \A n \in 0..back : to[n] <= 0
  <2>1. \A n \in 0..back : n <= back /\ back \in 0..back
    BY <1>1
  <2> QED
    BY <1>4, <1>5, <2>1
<1>7. PICK n0 \in 0..back : d = -to[n0] /\ d # 0
  BY <1>2, <1>5
<1>8. n0 \in Nat /\ to[n0] < 0 /\ Wrap - d = Wrap + to[n0]
  BY <1>1, <1>3, <1>6, <1>7
(* Row m + 1 shows start n0 + m, and it is not a yet. *)
<1> DEFINE NotYet(m) == /\ n0 + m \in 0..back /\ to[n0 + m] < 0
                       /\ at[m + 1] = Plus(a, Wrap + to[n0 + m])
           S == {m \in 0..k : NotYet(m)}
<1>9. 0 \in S
  <2>1. n0 + 0 = n0 /\ 0 + 1 = 1 /\ 0 \in 0..k
    BY <1>8
  <2> QED
    BY <1>7, <1>8, <2>1
<1>10. ASSUME NEW m \in 1..k, m - 1 \in S PROVE m \in S
  <2> DEFINE p == n0 + (m - 1)
  <2>1. p \in 0..back /\ to[p] < 0 /\ at[m] = Plus(a, Wrap + to[p])
    <3>1. m - 1 + 1 = m
      OBVIOUS
    <3> QED
      BY <1>10, <3>1
  <2>2. p # back
    BY <1>5, <2>1
  <2>3. p + 1 \in 1..back /\ p + 1 - 1 = p /\ p + 1 = n0 + m /\ p + 1 \in 0..back
    BY <1>1, <1>8, <2>1, <2>2
  <2> HIDE DEF p
  <2>4. to[p] \in -MaxAddr..-1 /\ to[p] < to[p + 1]
    BY <1>4, <2>1, <2>3
  <2>5. m \in 1..(WindowRows - 1) /\ m + 1 \in 1..WindowRows /\ m \in 1..WindowRows
    BY <1>1
  <2>6. at[m + 1] = Plus(at[m], Length(e, at[m]))
    BY <2>5 DEF Follows
  <2>7. at[m] \in Addr /\ Length(e, at[m]) \in 1..2
    BY <2>5, LengthType
  <2>8. to[p + 1] = to[p] + Length(e, at[m])
    <3>1. ~(to[p] >= 0)
      BY <1>3, <2>1
    <3> QED
      BY <1>2, <2>1, <2>3, <3>1 DEF Leads
  <2>9. at[m + 1] = Plus(a, Wrap + to[p + 1])
    BY <2>1, <2>4, <2>6, <2>7, <2>8, PlusOn
  <2>10. to[p + 1] # 0
    <3> SUFFICES ASSUME to[p + 1] = 0 PROVE FALSE
      OBVIOUS
    <3>1. at[m + 1] = a
      BY <2>9, PlusNone
    <3> QED
      BY <2>5, <3>1
  <2>11. to[p + 1] < 0
    BY <1>3, <1>6, <2>3, <2>10
  <2>12. NotYet(m)
    BY <2>3, <2>9, <2>11
  <2>13. m \in 0..k
    OBVIOUS
  <2> QED
    BY <2>12, <2>13, Zenon
<1>11. 0..k \subseteq S
  <2> HIDE DEF S
  <2> QED
    BY <1>9, <1>10, Inductive
(* They are all below d: more than there are. *)
<1>12. \A m \in 0..k : n0 + m \in 0..back /\ to[n0 + m] < 0
  BY <1>11
<1> HIDE DEF S
<1> DEFINE f == [m \in 0..k |-> -to[n0 + m]]
<1>13. ASSUME NEW m \in 0..k PROVE f[m] \in Below(run, d)
  <2>1. n0 + m \in 0..back /\ to[n0 + m] < 0 /\ n0 <= n0 + m /\ to[n0 + m] \in Int
    BY <1>3, <1>8, <1>12
  <2>2. to[n0] <= to[n0 + m]
    BY <1>4, <2>1
  <2>3. -to[n0 + m] # 0 /\ -to[n0 + m] <= d
    BY <1>3, <1>7, <2>1, <2>2
  <2>4. -to[n0 + m] \in run
    BY <1>2, <1>5, <2>1, <2>3
  <2> HIDE DEF run
  <2> QED
    BY <2>3, <2>4 DEF Below
<1>14. IsFiniteSet(Below(run, d)) /\ IsFiniteSet(0..k) /\ Cardinality(0..k) = k + 1
  <2>1. IsFiniteSet(run)
    BY StartsType
  <2>2. Below(run, d) \in SUBSET run
    BY DEF Below
  <2>3. IsFiniteSet(0..k) /\ Cardinality(0..k) = k + 1
    BY FS_Interval
  <2> QED
    BY <2>1, <2>2, <2>3, FS_Subset
<1>15. PICK x, y \in 0..k : x # y /\ f[x] = f[y]
  <2>1. f \in [0..k -> Below(run, d)]
    BY <1>13
  <2>2. Cardinality(Below(run, d)) < Cardinality(0..k)
    BY <1>14
  <2> HIDE DEF f, run
  <2> QED
    BY <1>14, <2>1, <2>2, FS_PigeonHole
<1>16. ASSUME NEW i \in 0..k, NEW j \in 0..k, i < j PROVE to[n0 + i] < to[n0 + j]
  <2>1. /\ n0 + i \in 0..back /\ n0 + j \in 0..back /\ n0 + i + 1 <= n0 + j /\ n0 + i + 1 \in 1..back
        /\ n0 + i + 1 - 1 = n0 + i /\ n0 + i + 1 \in 0..back
    BY <1>1, <1>8, <1>12, <1>16
  <2>2. to[n0 + i] < to[n0 + i + 1]
    BY <1>4, <1>12, <2>1
  <2>3. to[n0 + i + 1] <= to[n0 + j]
    BY <1>4, <2>1
  <2>4. to[n0 + i] \in Int /\ to[n0 + i + 1] \in Int /\ to[n0 + j] \in Int
    BY <1>3, <2>1
  <2> QED
    BY <2>2, <2>3, <2>4
<1>17. to[n0 + x] = to[n0 + y]
  <2>1. to[n0 + x] \in Int /\ to[n0 + y] \in Int
    BY <1>3, <1>12
  <2> QED
    BY <1>15, <2>1
<1>18. x < y \/ y < x
  BY <1>15
<1>19. to[n0 + x] \in Int
  BY <1>3, <1>12
<1> HIDE DEF f
<1>20. to[n0 + x] < to[n0 + y] \/ to[n0 + y] < to[n0 + x]
  BY <1>16, <1>18
<1> QED
  BY <1>17, <1>19, <1>20

(* The PC is among the rows of a page that follows it, when a run leads to it. *)
LEMMA PcIsListed ==
  ASSUME AddrBounds, PagesBounds, NEW e \in Engines,
         \E back \in 1..MaxAddr : Cardinality(Starts(e, e.pc, back)) >= Above,
         NEW at \in [1..WindowRows -> Addr], at[1] = RowAddress(e, e.pc, -Above), Follows(e, at)
  PROVE  \E i \in 1..WindowRows : at[i] = e.pc
<1>1. e.pc \in Addr
  BY DEF Engines, EngineType
<1>2. WindowRows \in Nat \ {0} /\ Above \in Nat /\ Above <= WindowRows - 1 /\ MaxAddr \in Nat
  BY DEF PagesBounds, AddrBounds
<1>3. CASE Above <= 0
  <2>1. -Above = 0
    BY <1>2, <1>3
  <2>2. RowAddress(e, e.pc, 0) = e.pc
    BY <1>1, OnAddress
  <2>3. 1 \in 1..WindowRows
    BY <1>2
  <2> QED
    BY <2>1, <2>2, <2>3
<1>4. CASE Above > 0
  <2>1. RowAddress(e, e.pc, -Above) = RowsBack(e, e.pc, Above)
    <3>1. -Above < 0 /\ -(-Above) = Above
      BY <1>2, <1>4
    <3> QED
      BY <3>1 DEF RowAddress
  <2>2. PICK back \in 1..MaxAddr : \E d \in Starts(e, e.pc, back) :
          /\ Cardinality(Below(Starts(e, e.pc, back), d)) = Above
          /\ RowsBack(e, e.pc, Above) = Plus(e.pc, MaxAddr + 1 - d)
    BY <1>1, <1>2, <1>4, RowsBackIs
  <2>3. PICK d \in Starts(e, e.pc, back) :
          /\ Cardinality(Below(Starts(e, e.pc, back), d)) = Above
          /\ RowsBack(e, e.pc, Above) = Plus(e.pc, MaxAddr + 1 - d)
    BY <2>2
  <2>4. at[1] = Plus(e.pc, Wrap - d)
    <3>1. d \in Int
      BY <1>1, StartsType
    <3>2. MaxAddr + 1 - d = Wrap - d
      BY <1>2, <3>1 DEF Wrap
    <3> QED
      BY <2>1, <2>3, <3>2
  <2>5. Above \in Nat \ {0}
    BY <1>2, <1>4
  <2> QED
    BY <1>1, <1>2, <2>3, <2>4, <2>5, RunComesToIt
<1> QED
  BY <1>2, <1>3, <1>4

-----------------------------------------------------------------------------
(* The window. *)

LineType == [address : Addr \cup {NoAddr}, insn : Byte, is_pc : BOOLEAN, label : BOOLEAN,
             bp : SUBSET BOOLEAN]
RowType == [id : Nat \ {0}, start : Addr, enabled : BOOLEAN, label : BOOLEAN]
Entries == {x \in [Regs -> Int] : x["pc"] \in Addr}
View ==
  [page : Tabs \cup {"none"}, seen : BOOLEAN, entry : Entries, put : [Regs -> Int],
   stale : SUBSET Regs, focus : Regs \cup {"none"}, flag : Int, base : Addr, cell : Byte,
   follow : BOOLEAN, top : Addr, selected : Addr \cup {NoAddr}, text : Seq(LineType),
   line_addr : Seq(Addr \cup {NoAddr}), picture : {<<>>} \cup [Screen -> Byte],
   list : Seq(RowType), bps : Seq(Bp), sel : Nat]

(* A line's address is the one behind it. *)
LinesMatch(w) ==
  /\ DOMAIN w.line_addr = DOMAIN w.text
  /\ \A i \in DOMAIN w.text : w.line_addr[i] = w.text[i].address
(* A row is of the breakpoint it was filled from. *)
RowsMatch(w) ==
  /\ DOMAIN w.list = DOMAIN w.bps
  /\ \A i \in DOMAIN w.bps : /\ w.list[i].id = w.bps[i].id
                             /\ w.list[i].start = w.bps[i].start
                             /\ w.list[i].enabled = w.bps[i].enabled
(* The row selected is of the breakpoint picked. *)
SelMatches(f, w, p) == w.sel # 0 => f = "win" /\ w.sel \in DOMAIN w.bps /\ w.bps[w.sel].id = p

Views(f, p) == {w \in View : LinesMatch(w) /\ RowsMatch(w) /\ SelMatches(f, w, p)}

(* What the list knows of a breakpoint that is still there is so. *)
IdsKnown(w, e) ==
  \A i \in DOMAIN w.bps :
    /\ w.bps[i].id < e.next_id
    /\ \A j \in DOMAIN e.bp : e.bp[j].id = w.bps[i].id => e.bp[j].start = w.bps[i].start

(* PageIsTrue, by page. *)
CpuShows(w, e) ==
  /\ \A r \in Regs \ w.stale : w.entry[r] = e[r]
  /\ w.flag = e.carry /\ w.cell = e.mem[w.base]
LinesShow(w, e) ==
  \A i \in DOMAIN w.text : w.text[i].address # NoAddr => w.text[i] = FillLine(e, w.text[i].address)
Led(f, e) ==
  /\ \E back \in 1..MaxAddr : Cardinality(Starts(e, e.pc, back)) >= Above
  /\ f = "gtk" => RowAddress(e, e.pc, -Above) <= e.pc
PcShows(w) == \E i \in DOMAIN w.text : w.text[i].is_pc
TableOf(f, e) == IF f = "mac" THEN SubSeq(e.bp, 1, Lower(MacRows, Len(e.bp))) ELSE e.bp
Shows(f, w, e) ==
  /\ w.page = "cpu" => CpuShows(w, e)
  /\ w.page = "disasm" => LinesShow(w, e) /\ (w.follow /\ Led(f, e) => PcShows(w))
  /\ w.page = "video" => w.picture = Snapshot(e)
  /\ w.page = "breaks" => w.bps = TableOf(f, e)

(* The parts of the window a page leaves alone. *)
SameLines(v, w) == v.text = w.text /\ v.line_addr = w.line_addr
SameList(v, w) == v.list = w.list /\ v.bps = w.bps /\ v.sel = w.sel

(* A page that leaves the list alone leaves what it knows alone. *)
LEMMA SameListKnows ==
  ASSUME NEW v, NEW w, NEW e, SameList(v, w), IdsKnown(w, e) PROVE IdsKnown(v, e)
BY DEF SameList, IdsKnown

LEMMA SameViews ==
  ASSUME NEW f, NEW p, NEW w \in Views(f, p), NEW v \in View, SameLines(v, w), SameList(v, w)
  PROVE  v \in Views(f, p)
BY DEF Views, LinesMatch, RowsMatch, SelMatches, SameLines, SameList

-----------------------------------------------------------------------------
(* The registers and the memory. *)
LEMMA CpuPageShows ==
  ASSUME NEW w \in View, NEW e \in Engines, NEW kept \in SUBSET Regs
  PROVE  LET v == CpuPage(w, e, kept)
         IN  /\ v \in View /\ SameLines(v, w) /\ SameList(v, w) /\ CpuShows(v, e)
             /\ v.page = w.page /\ v.seen = w.seen /\ v.focus = w.focus
<1> DEFINE es == [r \in Regs |-> IF r \in kept THEN w.entry[r] ELSE e[r]]
           v == CpuPage(w, e, kept)
<1>1. /\ e.pc \in Addr /\ e.carry \in Int /\ e.mem \in [Addr -> Byte]
      /\ e["pc"] \in Addr /\ e["carry"] \in Int
  BY DEF Engines, EngineType
<1>2. w.entry \in [Regs -> Int] /\ w.entry["pc"] \in Addr /\ w.base \in Addr
  BY DEF View, Entries
<1>3. \A x \in Addr : x \in Int
  BY DEF Addr
<1>4. \A r \in Regs : es[r] \in Int
  <2>1. \A r \in Regs : e[r] \in Int
    BY <1>1, <1>3 DEF Regs
  <2> QED
    BY <1>2, <2>1
<1>5. es["pc"] \in Addr
  BY <1>1, <1>2 DEF Regs
<1>6. es \in Entries /\ e.mem[w.base] \in Byte
  BY <1>1, <1>2, <1>4, <1>5 DEF Entries
<1>7. v = [w EXCEPT !.entry = es, !.stale = kept, !.flag = e.carry, !.cell = e.mem[w.base]]
  BY DEF CpuPage
<1>8. \A r \in Regs \ kept : es[r] = e[r]
  OBVIOUS
<1> HIDE DEF es, v
<1>9. /\ v \in View /\ v.entry = es /\ v.stale = kept /\ v.flag = e.carry
      /\ v.cell = e.mem[w.base] /\ v.base = w.base
  BY <1>1, <1>6, <1>7 DEF View
<1>10. /\ SameLines(v, w) /\ SameList(v, w) /\ v.page = w.page /\ v.seen = w.seen
       /\ v.focus = w.focus
  BY <1>7 DEF View, SameLines, SameList
<1>11. CpuShows(v, e)
  BY <1>8, <1>9 DEF CpuShows
<1> QED
  BY <1>9, <1>10, <1>11 DEF v

(* ... on GNOME, with what was put. *)
LEMMA GtkCpuPageShows ==
  ASSUME NEW w \in View, NEW e \in Engines
  PROVE  LET v == GtkCpuPage(w, e)
         IN  /\ v \in View /\ SameLines(v, w) /\ SameList(v, w) /\ CpuShows(v, e)
             /\ v.page = w.page /\ v.seen = w.seen /\ v.focus = w.focus
<1> DEFINE u == CpuPage(w, e, GtkTyped(w))
           ps == [r \in Regs |-> IF r \in GtkTyped(w) THEN u.put[r] ELSE e[r]]
           v == GtkCpuPage(w, e)
<1>1. GtkTyped(w) \in SUBSET Regs
  BY DEF GtkTyped, HasFocus
<1>2. /\ u \in View /\ SameLines(u, w) /\ SameList(u, w) /\ CpuShows(u, e)
      /\ u.page = w.page /\ u.seen = w.seen /\ u.focus = w.focus
  BY <1>1, CpuPageShows
<1> HIDE DEF u
<1>3. ps \in [Regs -> Int]
  <2>1. e["pc"] \in Int /\ e["carry"] \in Int
    BY DEF Engines, EngineType, Addr
  <2>2. \A r \in Regs : e[r] \in Int
    BY <2>1 DEF Regs
  <2>3. u.put \in [Regs -> Int]
    BY <1>2 DEF View
  <2> QED
    BY <2>2, <2>3
<1>4. v = [u EXCEPT !.put = ps]
  BY DEF GtkCpuPage, u
<1> HIDE DEF ps, v
<1>5. v \in View
  BY <1>2, <1>3, <1>4 DEF View
<1>6. /\ SameLines(v, u) /\ SameList(v, u) /\ v.page = u.page /\ v.seen = u.seen
      /\ v.focus = u.focus /\ v.entry = u.entry /\ v.stale = u.stale /\ v.flag = u.flag
      /\ v.cell = u.cell /\ v.base = u.base
  BY <1>2, <1>4 DEF View, SameLines, SameList
<1>7. CpuShows(v, e)
  BY <1>2, <1>6 DEF CpuShows
<1>8. SameLines(v, w) /\ SameList(v, w)
  BY <1>2, <1>6 DEF SameLines, SameList
<1> QED
  BY <1>2, <1>5, <1>6, <1>7, <1>8 DEF v

-----------------------------------------------------------------------------
(* The screen. *)
LEMMA VideoPageShows ==
  ASSUME AddrBounds, NEW w \in View, NEW e \in Engines
  PROVE  LET v == VideoPage(w, e)
         IN  /\ v \in View /\ SameLines(v, w) /\ SameList(v, w) /\ v.picture = Snapshot(e)
             /\ v.page = w.page /\ v.seen = w.seen
<1>1. Snapshot(e) \in [Screen -> Byte]
  BY DEF AddrBounds, Snapshot, Engines, EngineType, Addr
<1> QED
  BY <1>1 DEF VideoPage, View, SameLines, SameList

-----------------------------------------------------------------------------
(* The disassembly. *)
LEMMA FillLineIs ==
  ASSUME NEW e \in Engines, NEW a \in Addr
  PROVE  /\ FillLine(e, a) \in LineType /\ FillLine(e, a).address = a
         /\ FillLine(e, a).is_pc = (a = e.pc)
<1>1. e.mem[a] \in Byte /\ e.bp \in Seq(Bp)
  BY DEF Engines, EngineType
<1>2. {e.bp[i].enabled : i \in BpAt(e, a)} \in SUBSET BOOLEAN
  <2>1. \A i \in BpAt(e, a) : e.bp[i] \in Bp
    BY <1>1 DEF BpAt
  <2> QED
    BY <2>1 DEF Bp
<1>3. Labelled(e, a) \in BOOLEAN
  BY DEF Labelled
<1> QED
  BY <1>1, <1>2, <1>3 DEF FillLine, LineType

(* What a sequence of sequences becomes has all of each. *)
LEMMA FlattenIs ==
  ASSUME NEW X, NEW n \in Nat \ {0}, NEW s \in [1..n -> Seq(X)]
  PROVE  /\ FlattenSeq(s) \in Seq(X)
         /\ \A i \in 1..n : \A j \in 1..Len(s[i]) :
              \E k \in 1..Len(FlattenSeq(s)) : FlattenSeq(s)[k] = s[i][j]
<1> DEFINE A == Seq(X)
           Eq(f) == f = [i \in 1..Len(s) |-> IF i = 1 THEN s[i] ELSE f[i - 1] \o s[i]]
           flat == CHOOSE f : Eq(f)
           Op == [x \in (1..(n - 1)) \X A |-> x[2] \o s[x[1] + 1]]
<1>0. Len(s) = n /\ n # 0
  OBVIOUS
<1>1. s[1] \in A
  OBVIOUS
<1>2. ASSUME NEW k \in 1..(n - 1), NEW t \in A PROVE t \o s[k + 1] \in A
  <2>1. s[k + 1] \in Seq(X)
    OBVIOUS
  <2> QED
    BY <2>1
<1>3. Op \in [(1..(n - 1)) \X A -> A]
  BY <1>2
<1>4. PICK f \in [0..(n - 1) -> A] : Runs(f, n - 1, s[1], Op)
  <2>1. n - 1 \in Nat
    OBVIOUS
  <2> HIDE DEF Op, A
  <2> QED
    BY <1>1, <1>3, <2>1, RunExists
<1> DEFINE g == [i \in 1..n |-> f[i - 1]]
<1>5. Eq(g)
  <2>1. ASSUME NEW i \in 1..n, i # 1 PROVE g[i] = g[i - 1] \o s[i]
    <3>1. i - 1 \in 1..(n - 1) /\ i - 1 \in 1..n /\ i - 1 - 1 \in 0..(n - 1) /\ i - 1 + 1 = i
      BY <2>1
    <3>2. g[i] = f[i - 1] /\ g[i - 1] = f[i - 1 - 1]
      BY <3>1
    <3>3. f[i - 1 - 1] \in A
      BY <1>4, <3>1
    <3>4. f[i - 1] = Op[<<i - 1, f[i - 1 - 1]>>]
      <4> HIDE DEF Op
      <4> QED
        BY <1>4, <3>1 DEF Runs
    <3>5. f[i - 1] = f[i - 1 - 1] \o s[i]
      <4> HIDE DEF A
      <4> QED
        BY <3>1, <3>3, <3>4
    <3> HIDE DEF g
    <3> QED
      BY <3>2, <3>5
  <2>2. g[1] = s[1]
    BY <1>4 DEF Runs
  <2>3. g = [i \in 1..n |-> g[i]]
    OBVIOUS
  <2> HIDE DEF g
  <2> QED
    BY <1>0, <2>1, <2>2, <2>3
<1>6. Eq(flat)
  BY <1>5
<1>7. FlattenSeq(s) = flat[n]
  BY <1>0 DEF FlattenSeq
<1> HIDE DEF flat
<1>8. flat[1] = s[1] /\ \A i \in 1..(n - 1) : flat[i + 1] = flat[i] \o s[i + 1]
  <2>1. flat = [i \in 1..n |-> IF i = 1 THEN s[i] ELSE flat[i - 1] \o s[i]]
    BY <1>0, <1>6
  <2>2. ASSUME NEW i \in 1..(n - 1) PROVE flat[i + 1] = flat[i] \o s[i + 1]
    <3>1. i + 1 \in 1..n /\ i + 1 # 1 /\ (i + 1) - 1 = i
      OBVIOUS
    <3> QED
      BY <2>1, <3>1
  <2>3. 1 \in 1..n
    OBVIOUS
  <2> QED
    BY <2>1, <2>2, <2>3
<1> DEFINE F == [k \in 0..(n - 1) |-> flat[k + 1]]
<1>9. \A k \in 0..(n - 1) : F[k] \in A
  <2>1. F[0] \in A
    BY <1>1, <1>8
  <2>2. ASSUME NEW k \in 1..(n - 1), F[k - 1] \in A PROVE F[k] \in A
    <3>1. k - 1 \in 0..(n - 1) /\ k - 1 + 1 = k
      OBVIOUS
    <3>2. F[k - 1] = flat[k] /\ F[k] = flat[k + 1]
      BY <3>1
    <3>3. flat[k + 1] = flat[k] \o s[k + 1]
      BY <1>8
    <3> HIDE DEF F, A
    <3> QED
      BY <1>2, <2>2, <3>2, <3>3
  <2>3. n - 1 \in Nat
    OBVIOUS
  <2> HIDE DEF F, A
  <2> QED
    BY <2>1, <2>2, <2>3, RunStays
<1>10. ASSUME NEW i \in 1..n PROVE flat[i] \in Seq(X)
  <2>1. i - 1 \in 0..(n - 1) /\ F[i - 1] = flat[i]
    OBVIOUS
  <2> HIDE DEF F
  <2> QED
    BY <1>9, <2>1
<1>11. ASSUME NEW i \in 1..n, NEW j \in 1..Len(s[i])
       PROVE  \E k \in 1..Len(flat[n]) : flat[n][k] = s[i][j]
  <2> DEFINE Has(t) == \E k \in 1..Len(t) : t[k] = s[i][j]
             S == {m \in 0..(n - i) : Has(flat[i + m])}
  <2>1. s[i] \in Seq(X) /\ Len(s[i]) \in Nat
    OBVIOUS
  <2>2. 0 \in S
    <3>1. CASE i = 1
      <4>1. flat[i + 0] = s[i] /\ 0 \in 0..(n - i)
        BY <1>8, <3>1
      <4>2. Has(flat[i + 0])
        BY <4>1
      <4> QED
        BY <4>1, <4>2
    <3>2. CASE i # 1
      <4>0. i - 1 \in 1..(n - 1) /\ i - 1 \in 1..n /\ (i - 1) + 1 = i /\ 0 \in 0..(n - i) /\ i + 0 = i
        BY <3>2
      <4>1. flat[i + 0] = flat[i - 1] \o s[i]
        BY <1>8, <4>0
      <4>2. flat[i - 1] \in Seq(X) /\ Len(flat[i - 1]) \in Nat
        BY <1>10, <4>0
      <4>3. /\ Len(flat[i - 1]) + j \in 1..Len(flat[i - 1] \o s[i])
            /\ (flat[i - 1] \o s[i])[Len(flat[i - 1]) + j] = s[i][j]
        BY <2>1, <4>2
      <4>4. Has(flat[i + 0])
        BY <4>1, <4>3
      <4> QED
        BY <4>0, <4>4
    <3> QED
      BY <3>1, <3>2
  <2>3. ASSUME NEW m \in 1..(n - i), m - 1 \in S PROVE m \in S
    <3> DEFINE p == i + (m - 1)
    <3>1. p \in 1..(n - 1) /\ p \in 1..n /\ p + 1 = i + m /\ p + 1 \in 1..n /\ m \in 0..(n - i)
      OBVIOUS
    <3>7. Has(flat[p])
      BY <2>3
    <3> HIDE DEF p
    <3>2. flat[i + m] = flat[p] \o s[p + 1]
      BY <1>8, <3>1
    <3>3. flat[p] \in Seq(X) /\ s[p + 1] \in Seq(X)
      BY <1>10, <3>1
    <3>4. PICK k \in 1..Len(flat[p]) : flat[p][k] = s[i][j]
      BY <3>7
    <3>5. /\ k \in 1..Len(flat[p] \o s[p + 1])
          /\ (flat[p] \o s[p + 1])[k] = flat[p][k]
      <4>1. \A u, v \in Seq(X) : \A q \in 1..Len(u) : /\ q \in 1..Len(u \o v)
                                                   /\ (u \o v)[q] = u[q]
        OBVIOUS
      <4> QED
        BY <3>3, <4>1
    <3>6. Has(flat[i + m])
      BY <3>2, <3>4, <3>5
    <3> QED
      BY <3>1, <3>6, Zenon
  <2>4. n - i \in Nat /\ i + (n - i) = n
    OBVIOUS
  <2>5. 0..(n - i) \subseteq S
    <3> HIDE DEF S
    <3> QED
      BY <2>2, <2>3, <2>4, Inductive
  <2>6. n - i \in S
    <3>1. n - i \in 0..(n - i)
      OBVIOUS
    <3> HIDE DEF S
    <3> QED
      BY <2>5, <3>1
  <2> QED
    BY <2>4, <2>6
<1> QED
  BY <1>7, <1>10, <1>11

(* What a page of disassembly has to be. *)
LinesAre(v, w, e) ==
  /\ v \in View /\ LinesMatch(v) /\ LinesShow(v, e) /\ SameList(v, w)
  /\ v.page = w.page /\ v.seen = w.seen /\ v.follow = w.follow
LedTop(e, top) ==
  /\ \E back \in 1..MaxAddr : Cardinality(Starts(e, e.pc, back)) >= Above
  /\ top = RowAddress(e, e.pc, -Above)

(* A page of lines, from its top; the rows above the PC among them. *)
LEMMA ListingShows ==
  ASSUME AddrBounds, PagesBounds, NEW w \in View, NEW e \in Engines
  PROVE  LET v == Listing(w, e) IN LinesAre(v, w, e) /\ (LedTop(e, w.top) => PcShows(v))
<1> DEFINE lines == Disassemble(e, w.top, WindowRows)
           v == Listing(w, e)
<1>1. w.top \in Addr /\ WindowRows \in Nat \ {0}
  BY DEF View, PagesBounds
<1>2. PICK at \in [1..WindowRows -> Addr] :
        /\ at[1] = w.top
        /\ \A i \in 1..(WindowRows - 1) : at[i + 1] = Plus(at[i], Length(e, at[i]))
        /\ lines = [i \in 1..WindowRows |-> FillLine(e, at[i])]
  BY <1>1, DisassembleRun
<1>3. \A i \in 1..WindowRows :
        /\ FillLine(e, at[i]) \in LineType /\ FillLine(e, at[i]).address = at[i]
        /\ FillLine(e, at[i]).is_pc = (at[i] = e.pc) /\ at[i] \in Addr
  BY <1>2, FillLineIs
<1> HIDE DEF lines
<1>4. lines \in [1..WindowRows -> LineType]
  BY <1>2, <1>3
<1>5. lines \in Seq(LineType) /\ DOMAIN lines = 1..WindowRows
  BY <1>1, <1>4
<1> DEFINE addrs == [i \in DOMAIN lines |-> lines[i].address]
<1>6. addrs \in Seq(Addr \cup {NoAddr}) /\ DOMAIN addrs = DOMAIN lines
  <2>1. addrs \in [1..WindowRows -> Addr \cup {NoAddr}]
    BY <1>2, <1>3, <1>5
  <2> HIDE DEF addrs
  <2> QED
    BY <1>1, <1>5, <2>1
<1>7. v = [w EXCEPT !.text = lines, !.line_addr = addrs]
  BY DEF Listing, lines
<1>8. \A i \in DOMAIN lines : addrs[i] = lines[i].address
  OBVIOUS
<1> HIDE DEF addrs, v
<1>9. v \in View /\ v.text = lines /\ v.line_addr = addrs
  BY <1>5, <1>6, <1>7 DEF View
<1>10. SameList(v, w) /\ v.page = w.page /\ v.seen = w.seen /\ v.follow = w.follow
  BY <1>7 DEF View, SameList
<1>11. LinesMatch(v)
  BY <1>6, <1>8, <1>9 DEF LinesMatch
<1>12. LinesShow(v, e)
  BY <1>2, <1>3, <1>5, <1>9 DEF LinesShow
<1>13. ASSUME LedTop(e, w.top) PROVE PcShows(v)
  <2>1. Follows(e, at) /\ at[1] = RowAddress(e, e.pc, -Above)
    BY <1>2, <1>13 DEF Follows, LedTop
  <2>2. PICK i \in 1..WindowRows : at[i] = e.pc
    BY <1>13, <2>1, PcIsListed DEF LedTop
  <2>3. lines[i] = FillLine(e, at[i]) /\ i \in DOMAIN v.text
    BY <1>2, <1>5, <1>9
  <2>4. lines[i].is_pc
    BY <1>3, <2>2, <2>3
  <2> QED
    BY <1>9, <2>3, <2>4 DEF PcShows
<1> QED
  BY <1>9, <1>10, <1>11, <1>12, <1>13 DEF LinesAre, v

(* The top that follows the PC. *)
LEMMA FollowIs ==
  ASSUME AddrBounds, PagesBounds, NEW w \in View, NEW e \in Engines
  PROVE  LET u == Follow(w, e)
         IN  /\ u \in View /\ SameList(u, w) /\ u.page = w.page /\ u.seen = w.seen
             /\ u.follow = w.follow /\ (w.follow => u.top = RowAddress(e, e.pc, -Above))
<1>1. RowAddress(e, e.pc, -Above) \in Addr
  BY RowAddressType DEF PagesBounds, Engines, EngineType
<1> QED
  BY <1>1 DEF Follow, View, SameList

(* ... and the page from there. *)
LEMMA DisasmShows ==
  ASSUME AddrBounds, PagesBounds, NEW w \in View, NEW e \in Engines
  PROVE  LET v == Listing(Follow(w, e), e)
         IN  LinesAre(v, w, e) /\ (v.follow /\ Led("kde", e) => PcShows(v))
<1> DEFINE u == Follow(w, e)
           v == Listing(u, e)
<1>1. /\ u \in View /\ SameList(u, w) /\ u.page = w.page /\ u.seen = w.seen
      /\ u.follow = w.follow /\ (w.follow => u.top = RowAddress(e, e.pc, -Above))
  BY FollowIs
<1> HIDE DEF u
<1>2. LinesAre(v, u, e) /\ (LedTop(e, u.top) => PcShows(v))
  BY <1>1, ListingShows
<1> HIDE DEF v
<1>3. LinesAre(v, w, e)
  BY <1>1, <1>2 DEF LinesAre, SameList
<1>4. v.follow /\ Led("kde", e) => PcShows(v)
  BY <1>1, <1>2 DEF LinesAre, Led, LedTop
<1> QED
  BY <1>3, <1>4 DEF u, v

(* ... on GNOME, where it does not wrap. *)
LEMMA GtkFollowIs ==
  ASSUME AddrBounds, PagesBounds, NEW w \in View, NEW e \in Engines
  PROVE  LET u == GtkFollow(w, e)
         IN  /\ u \in View /\ SameList(u, w) /\ u.page = w.page /\ u.seen = w.seen
             /\ u.follow = w.follow
             /\ w.follow /\ RowAddress(e, e.pc, -Above) <= e.pc =>
                  u.top = RowAddress(e, e.pc, -Above)
<1> DEFINE top == RowAddress(e, e.pc, -Above)
<1>1. top \in Addr /\ e.pc \in Addr
  BY RowAddressType DEF PagesBounds, Engines, EngineType
<1>2. 0 \in Addr /\ top \in Int /\ e.pc \in Int
  BY <1>1 DEF AddrBounds, Addr
<1>3. GtkFollow(w, e) = IF w.follow THEN [w EXCEPT !.top = IF top > e.pc THEN 0 ELSE top] ELSE w
  BY DEF GtkFollow
<1> HIDE DEF top
<1>4. CASE ~w.follow
  BY <1>3, <1>4 DEF SameList
<1>5. CASE w.follow
  <2> DEFINE to == IF top > e.pc THEN 0 ELSE top
  <2>1. to \in Addr /\ (top <= e.pc => to = top)
    BY <1>1, <1>2
  <2>2. GtkFollow(w, e) = [w EXCEPT !.top = to]
    BY <1>3, <1>5
  <2> HIDE DEF to
  <2> QED
    BY <2>1, <2>2 DEF View, SameList, top
<1> QED
  BY <1>4, <1>5

(* GNOME's lines. *)
LEMMA GtkDisasmShows ==
  ASSUME AddrBounds, PagesBounds, NEW w \in View, NEW e \in Engines
  PROVE  LET v == GtkDisasmPage(w, e)
         IN  LinesAre(v, w, e) /\ (v.follow /\ Led("gtk", e) => PcShows(v))
<1> DEFINE u == GtkFollow(w, e)
           lines == Disassemble(e, u.top, WindowRows)
           s == [i \in DOMAIN lines |-> GtkLines(lines[i])]
           text == FlattenSeq(s)
           addrs == [i \in DOMAIN text |-> text[i].address]
           v == GtkDisasmPage(w, e)
           X == {l \in LineType : l.address # NoAddr => l = FillLine(e, l.address)}
<1>1. /\ u \in View /\ SameList(u, w) /\ u.page = w.page /\ u.seen = w.seen
      /\ u.follow = w.follow
      /\ w.follow /\ RowAddress(e, e.pc, -Above) <= e.pc =>
           u.top = RowAddress(e, e.pc, -Above)
  BY GtkFollowIs
<1>2. v = [u EXCEPT !.text = text, !.line_addr = addrs]
  BY DEF GtkDisasmPage
<1> HIDE DEF u, v
<1>3. u.top \in Addr /\ WindowRows \in Nat \ {0}
  BY <1>1 DEF View, PagesBounds
<1>4. PICK at \in [1..WindowRows -> Addr] :
        /\ at[1] = u.top
        /\ \A i \in 1..(WindowRows - 1) : at[i + 1] = Plus(at[i], Length(e, at[i]))
        /\ lines = [i \in 1..WindowRows |-> FillLine(e, at[i])]
  BY <1>3, DisassembleRun
<1> HIDE DEF lines
<1>5. ASSUME NEW i \in 1..WindowRows
      PROVE  /\ lines[i] \in LineType /\ lines[i] = FillLine(e, lines[i].address)
             /\ lines[i].is_pc = (at[i] = e.pc)
  <2>1. lines[i] = FillLine(e, at[i]) /\ at[i] \in Addr
    BY <1>4
  <2> QED
    BY <2>1, FillLineIs
<1>6. DOMAIN lines = 1..WindowRows
  BY <1>4
<1>7. ASSUME NEW l \in X
      PROVE  /\ GtkLines(l) \in Seq(X)
             /\ Len(GtkLines(l)) \in 1..2 /\ GtkLines(l)[Len(GtkLines(l))] = l
  <2>1. LabelLine(l) \in LineType /\ LabelLine(l).address = NoAddr
    BY DEF LabelLine, LineType
  <2>2. LabelLine(l) \in X
    BY <2>1
  <2> HIDE DEF X
  <2> QED
    BY <2>2 DEF GtkLines
<1>8. ASSUME NEW i \in 1..WindowRows
      PROVE  lines[i] \in X
  BY <1>5
<1>9. s \in [1..WindowRows -> Seq(X)]
  <2> HIDE DEF X
  <2> QED
    BY <1>6, <1>7, <1>8
<1>10. /\ text \in Seq(X)
       /\ \A i \in 1..WindowRows : \A j \in 1..Len(s[i]) : \E k \in 1..Len(text) : text[k] = s[i][j]
  <2> HIDE DEF s, X
  <2> QED
    BY <1>3, <1>9, FlattenIs
<1>11. \A i \in 1..WindowRows : \E k \in 1..Len(text) : text[k] = lines[i]
  <2> TAKE i \in 1..WindowRows
  <2>1. s[i] = GtkLines(lines[i])
    BY <1>6
  <2>2. Len(s[i]) \in 1..Len(s[i]) /\ s[i][Len(s[i])] = lines[i]
    <3> HIDE DEF X, s
    <3>1. PICK l \in X : l = lines[i]
      BY <1>8
    <3>2. PICK n \in 1..2 : n = Len(GtkLines(l)) /\ GtkLines(l)[n] = l
      BY <1>7
    <3>3. n \in 1..n
      OBVIOUS
    <3>4. Len(s[i]) = n /\ s[i][n] = lines[i]
      BY <2>1, <3>1, <3>2
    <3> QED
      BY <3>3, <3>4
  <2> HIDE DEF s, text
  <2> QED
    BY <1>10, <2>2
<1> HIDE DEF text
<1>12. text \in Seq(LineType) /\ DOMAIN text = 1..Len(text) /\ Len(text) \in Nat
  <2>1. Seq(X) \subseteq Seq(LineType)
    OBVIOUS
  <2> HIDE DEF X
  <2> QED
    BY <1>10, <2>1
<1>13. \A i \in DOMAIN text : text[i] \in X
  <2> HIDE DEF X
  <2> QED
    BY <1>10
<1>14. addrs \in Seq(Addr \cup {NoAddr}) /\ DOMAIN addrs = DOMAIN text
  <2>1. \A i \in 1..Len(text) : text[i].address \in Addr \cup {NoAddr}
    BY <1>12, <1>13 DEF LineType
  <2>2. addrs \in [1..Len(text) -> Addr \cup {NoAddr}]
    BY <1>12, <2>1
  <2> HIDE DEF addrs
  <2> QED
    BY <1>12, <2>2
<1>15. \A i \in DOMAIN text : addrs[i] = text[i].address
  OBVIOUS
<1> HIDE DEF addrs
<1>16. v \in View /\ v.text = text /\ v.line_addr = addrs
  BY <1>1, <1>2, <1>12, <1>14 DEF View
<1>17. SameList(v, w) /\ v.page = w.page /\ v.seen = w.seen /\ v.follow = w.follow
  BY <1>1, <1>2 DEF View, SameList
<1>18. LinesMatch(v)
  BY <1>14, <1>15, <1>16 DEF LinesMatch
<1>19. LinesShow(v, e)
  BY <1>13, <1>16 DEF LinesShow
<1>20. ASSUME v.follow, Led("gtk", e) PROVE PcShows(v)
  <2>1. u.top = RowAddress(e, e.pc, -Above)
    BY <1>1, <1>17, <1>20 DEF Led
  <2>2. Follows(e, at) /\ at[1] = RowAddress(e, e.pc, -Above)
    BY <1>4, <2>1 DEF Follows
  <2>3. PICK i \in 1..WindowRows : at[i] = e.pc
    BY <1>20, <2>2, PcIsListed DEF Led
  <2>4. PICK k \in 1..Len(text) : text[k] = lines[i]
    BY <1>11
  <2> QED
    BY <1>5, <1>12, <1>16, <2>3, <2>4 DEF PcShows
<1> QED
  BY <1>16, <1>17, <1>18, <1>19, <1>20 DEF LinesAre, v

-----------------------------------------------------------------------------
(* The list of breakpoints. *)
FrontEnds == {"gtk", "kde", "win", "mac"}

(* What is listed of the table is its entries. *)
LEMMA TableIs ==
  ASSUME PagesBounds, NEW f, NEW e \in Engines
  PROVE  /\ TableOf(f, e) \in Seq(Bp)
         /\ \A i \in DOMAIN TableOf(f, e) : \E j \in DOMAIN e.bp : TableOf(f, e)[i] = e.bp[j]
<1>1. e.bp \in Seq(Bp)
  BY DEF Engines, EngineType
<1>2. PICK n \in Nat : n = Len(e.bp) /\ DOMAIN e.bp = 1..n
  BY <1>1
<1>3. PICK k \in 0..n : k = Lower(MacRows, Len(e.bp))
  BY <1>2 DEF Lower, PagesBounds
<1> DEFINE t == SubSeq(e.bp, 1, k)
<1>4. t \in Seq(Bp) /\ DOMAIN t = 1..k /\ \A i \in 1..k : t[i] = e.bp[i]
  <2>1. \A i \in 1..k : e.bp[i] \in Bp
    BY <1>1, <1>2, <1>3
  <2>2. k - 1 + 1 = k /\ (k < 1 => k = 0) /\ k \in Int /\ 1 \in Int
    BY <1>3
  <2>3. t \in Seq(Bp) /\ Len(t) = (IF 1 <= k THEN k - 1 + 1 ELSE 0)
    BY <2>1, <2>2, SubSeqProperties
  <2>4. Len(t) = k
    BY <1>3, <2>3
  <2>5. \A i \in 1..k : t[i] = e.bp[i]
    <3>1. \A i \in 1..(k - 1 + 1) : t[i] = e.bp[1 + i - 1]
      BY <2>1, <2>2, SubSeqProperties
    <3>2. \A i \in 1..k : i \in 1..(k - 1 + 1) /\ 1 + i - 1 = i
      OBVIOUS
    <3> QED
      BY <3>1, <3>2
  <2> HIDE DEF t
  <2> QED
    BY <2>3, <2>4, <2>5
<1>5. f = "mac" => TableOf(f, e) = t
  BY <1>3 DEF TableOf
<1> HIDE DEF t
<1>6. CASE f = "mac"
  BY <1>2, <1>4, <1>5, <1>6
<1>7. CASE f # "mac"
  BY <1>1, <1>7 DEF TableOf
<1> QED
  BY <1>6, <1>7

(* ... and is known of them. *)
LEMMA TableIsKnown ==
  ASSUME PagesBounds, NEW f, NEW e \in Engines, NEW v, v.bps = TableOf(f, e)
  PROVE  IdsKnown(v, e)
<1>1. IdsAreOnce(e)
  BY DEF Engines
<1>2. \A i \in DOMAIN v.bps : \E j \in DOMAIN e.bp : v.bps[i] = e.bp[j]
  BY TableIs
<1> SUFFICES ASSUME NEW i \in DOMAIN v.bps
             PROVE  /\ v.bps[i].id < e.next_id
                    /\ \A j \in DOMAIN e.bp : e.bp[j].id = v.bps[i].id => e.bp[j].start = v.bps[i].start
  BY DEF IdsKnown
<1>3. PICK k \in DOMAIN e.bp : v.bps[i] = e.bp[k]
  BY <1>2
<1> QED
  BY <1>1, <1>3 DEF IdsAreOnce

(* The list is filled again, if the table has changed. *)
LEMMA BpListIs ==
  ASSUME NEW w \in View, RowsMatch(w), NEW e \in Engines, NEW t \in Seq(Bp)
  PROVE  LET v == BpList(w, e, t)
         IN  /\ v \in View /\ RowsMatch(v) /\ SameLines(v, w)
             /\ v.bps = t /\ v.sel = w.sel /\ v.page = w.page /\ v.seen = w.seen
<1> DEFINE filled == Rows(e, t)
           v == BpList(w, e, t)
<1>1. CASE w.bps = t
  BY <1>1 DEF BpList, SameLines
<1>2. CASE w.bps # t
  <2>1. ASSUME NEW i \in DOMAIN t
        PROVE  /\ filled[i] \in RowType /\ filled[i].id = t[i].id /\ filled[i].start = t[i].start
               /\ filled[i].enabled = t[i].enabled
    <3>1. t[i] \in Bp
      OBVIOUS
    <3>2. (fe = "mac" /\ Labelled(e, t[i].start)) \in BOOLEAN
      OBVIOUS
    <3>3. Row(e, t[i]) \in RowType
      BY <3>1, <3>2 DEF Row, RowType, Bp
    <3>4. filled[i] = Row(e, t[i])
      BY DEF Rows
    <3> HIDE DEF filled
    <3> QED
      BY <3>3, <3>4 DEF Row
  <2>2. DOMAIN filled = DOMAIN t
    BY DEF Rows
  <2>3. PICK n \in Nat : DOMAIN t = 1..n
    OBVIOUS
  <2>4. filled \in [1..n -> RowType]
    <3>1. filled = [i \in DOMAIN t |-> filled[i]]
      BY DEF Rows
    <3> HIDE DEF filled
    <3> QED
      BY <2>1, <2>3, <3>1
  <2> HIDE DEF filled
  <2>5. filled \in Seq(RowType)
    BY <2>4
  <2>6. v = [w EXCEPT !.bps = t, !.list = filled]
    BY <1>2 DEF BpList, filled
  <2> HIDE DEF v
  <2>7. v \in View /\ v.bps = t /\ v.list = filled
    BY <2>5, <2>6 DEF View
  <2>8. SameLines(v, w) /\ v.sel = w.sel /\ v.page = w.page /\ v.seen = w.seen
    BY <2>6 DEF View, SameLines
  <2>9. RowsMatch(v)
    BY <2>1, <2>2, <2>7 DEF RowsMatch
  <2> QED
    BY <2>7, <2>8, <2>9 DEF v
<1> QED
  BY <1>1, <1>2

(* The selection follows its breakpoint. *)
LEMMA WinBpListIs ==
  ASSUME NEW p, NEW w \in Views("win", p), NEW e \in Engines
  PROVE  LET v == WinBpList(w, e)
         IN  /\ v \in View /\ RowsMatch(v) /\ SameLines(v, w) /\ v.bps = e.bp
             /\ SelMatches("win", v, p) /\ v.page = w.page /\ v.seen = w.seen
<1> DEFINE v == WinBpList(w, e)
           u == BpList(w, e, e.bp)
           id == IF w.sel = 0 THEN 0 ELSE w.bps[w.sel].id
           n == RowOf(e.bp, id)
<1>1. w \in View /\ RowsMatch(w) /\ SelMatches("win", w, p)
  BY DEF Views
<1>2. e.bp \in Seq(Bp)
  BY DEF Engines, EngineType
<1>3. CASE w.bps = e.bp
  BY <1>1, <1>3 DEF WinBpList, SameLines
<1>4. CASE w.bps # e.bp
  <2>1. /\ u \in View /\ RowsMatch(u) /\ SameLines(u, w)
        /\ u.bps = e.bp /\ u.page = w.page /\ u.seen = w.seen
    BY <1>1, <1>2, BpListIs
  <2>2. v = [u EXCEPT !.sel = n]
    BY <1>4 DEF WinBpList
  <2> HIDE DEF v, u
  <2>3. n = 0 \/ (n \in DOMAIN e.bp /\ e.bp[n].id = id)
    BY DEF RowOf
  <2>4. n # 0 => id = p
    <3>1. \A i \in DOMAIN e.bp : e.bp[i].id # 0
      <4>1. \A i \in DOMAIN e.bp : e.bp[i] \in Bp
        BY <1>2
      <4> QED
        BY <4>1 DEF Bp
    <3>2. n # 0 => w.sel # 0
      BY <2>3, <3>1
    <3> QED
      BY <1>1, <3>2 DEF SelMatches
  <2> HIDE DEF id
  <2>5. n \in Nat
    <3>1. \A i \in DOMAIN e.bp : i \in Nat
      BY <1>2
    <3> QED
      BY <2>3, <3>1
  <2> HIDE DEF n
  <2>6. v \in View /\ v.sel = n /\ v.bps = u.bps /\ v.list = u.list
    BY <2>1, <2>2, <2>5 DEF View
  <2>7. SameLines(v, u) /\ v.page = u.page /\ v.seen = u.seen
    BY <2>1, <2>2 DEF View, SameLines
  <2>8. RowsMatch(v) /\ SelMatches("win", v, p)
    BY <2>1, <2>3, <2>4, <2>6 DEF RowsMatch, SelMatches
  <2> QED
    BY <2>1, <2>6, <2>7, <2>8 DEF v, SameLines
<1> QED
  BY <1>3, <1>4

-----------------------------------------------------------------------------
(* The tab that shows. *)
PageIs(f, p, w, e, v) ==
  /\ v \in Views(f, p) /\ IdsKnown(v, e) /\ v.page = w.page /\ v.seen = w.seen
  /\ Shows(f, v, e)

(* Each tab, refreshed. *)
LEMMA CpuIs ==
  ASSUME NEW f, NEW p, NEW w \in Views(f, p), NEW e \in Engines, IdsKnown(w, e), NEW v,
         w.page = "cpu",
         v \in View, SameLines(v, w), SameList(v, w), CpuShows(v, e),
         v.page = w.page, v.seen = w.seen
  PROVE  PageIs(f, p, w, e, v)
<1>1. v \in Views(f, p) /\ IdsKnown(v, e)
  BY SameViews, SameListKnows
<1> QED
  BY <1>1 DEF PageIs, Shows

LEMMA DisasmIs ==
  ASSUME NEW f, NEW p, NEW w \in Views(f, p), NEW e \in Engines, IdsKnown(w, e), NEW v,
         w.page = "disasm", LinesAre(v, w, e), v.follow /\ Led(f, e) => PcShows(v)
  PROVE  PageIs(f, p, w, e, v)
<1>1. v \in View /\ LinesMatch(v) /\ SameList(v, w) /\ LinesShow(v, e)
      /\ v.page = w.page /\ v.seen = w.seen
  BY DEF LinesAre
<1>2. v \in Views(f, p)
  BY <1>1 DEF Views, RowsMatch, SelMatches, SameList
<1>3. IdsKnown(v, e)
  BY <1>1, SameListKnows
<1> QED
  BY <1>1, <1>2, <1>3 DEF PageIs, Shows

LEMMA VideoIs ==
  ASSUME AddrBounds, NEW f, NEW p, NEW w \in Views(f, p), NEW e \in Engines, IdsKnown(w, e),
         w.page = "video"
  PROVE  PageIs(f, p, w, e, VideoPage(w, e))
<1>1. w \in View
  BY DEF Views
<1> DEFINE v == VideoPage(w, e)
<1>2. /\ v \in View /\ SameLines(v, w) /\ SameList(v, w) /\ v.picture = Snapshot(e)
      /\ v.page = w.page /\ v.seen = w.seen
  BY <1>1, VideoPageShows
<1> HIDE DEF v
<1>3. v \in Views(f, p) /\ IdsKnown(v, e)
  BY <1>2, SameViews, SameListKnows
<1>4. PageIs(f, p, w, e, v)
  BY <1>2, <1>3 DEF PageIs, Shows
<1> QED
  BY <1>4 DEF v

LEMMA BreaksIs ==
  ASSUME PagesBounds, NEW f, NEW p, NEW w \in Views(f, p), NEW e \in Engines,
         w.page = "breaks", NEW v,
         v \in View, RowsMatch(v), SameLines(v, w), v.bps = TableOf(f, e),
         SelMatches(f, v, p), v.page = w.page, v.seen = w.seen
  PROVE  PageIs(f, p, w, e, v)
<1>1. LinesMatch(v)
  BY DEF Views, LinesMatch, SameLines
<1>2. v \in Views(f, p)
  BY <1>1 DEF Views
<1>3. IdsKnown(v, e)
  BY TableIsKnown
<1> QED
  BY <1>2, <1>3 DEF PageIs, Shows

LEMMA ListIs ==
  ASSUME PagesBounds, NEW f, f # "win", NEW p, NEW w \in Views(f, p), NEW e \in Engines,
         w.page = "breaks"
  PROVE  PageIs(f, p, w, e, BpList(w, e, TableOf(f, e)))
<1> DEFINE v == BpList(w, e, TableOf(f, e))
<1>1. w \in View /\ RowsMatch(w) /\ SelMatches(f, w, p)
  BY DEF Views
<1>2. /\ v \in View /\ RowsMatch(v) /\ SameLines(v, w)
      /\ v.bps = TableOf(f, e) /\ v.sel = w.sel /\ v.page = w.page /\ v.seen = w.seen
  BY <1>1, TableIs, BpListIs
<1> HIDE DEF v
<1>3. SelMatches(f, v, p)
  BY <1>1, <1>2 DEF SelMatches
<1>4. PageIs(f, p, w, e, v)
  BY <1>2, <1>3, BreaksIs
<1> QED
  BY <1>4 DEF v

LEMMA NoneIs ==
  ASSUME NEW f, NEW p, NEW w \in Views(f, p), NEW e, IdsKnown(w, e), w.page = "none"
  PROVE  PageIs(f, p, w, e, w)
BY DEF PageIs, Shows

(* The tab that shows, refreshed, shows the engine. *)
LEMMA PageKeeps ==
  ASSUME AddrBounds, PagesBounds, fe \in FrontEnds,
         NEW p, NEW w \in Views(fe, p), NEW e \in Engines, IdsKnown(w, e)
  PROVE  PageIs(fe, p, w, e, Page(w, e))
<1>1. w \in View
  BY DEF Views
<1>2. HasFocus(w) \in SUBSET Regs
  BY DEF HasFocus
<1>3. CASE w.page = "cpu"
  <2>1. fe = "gtk" => PageIs(fe, p, w, e, GtkCpuPage(w, e))
    BY <1>1, <1>3, GtkCpuPageShows, CpuIs
  <2>2. PageIs(fe, p, w, e, CpuPage(w, e, HasFocus(w)))
    BY <1>1, <1>2, <1>3, CpuPageShows, CpuIs
  <2> QED
    BY <1>3, <2>1, <2>2
    DEF Page, GtkPage, KdePage, WinPage, MacPage, KdeCpuPage, WinCpuPage, MacCpuPage, FrontEnds
<1>4. CASE w.page = "disasm"
  <2>1. fe = "gtk" => PageIs(fe, p, w, e, GtkDisasmPage(w, e))
    BY <1>1, <1>4, GtkDisasmShows, DisasmIs
  <2>2. fe # "gtk" => PageIs(fe, p, w, e, Listing(Follow(w, e), e))
    <3>1. fe # "gtk" /\ Led(fe, e) => Led("kde", e)
      BY DEF Led
    <3> QED
      BY <1>1, <1>4, <3>1, DisasmShows, DisasmIs
  <2> QED
    BY <1>4, <2>1, <2>2
    DEF Page, GtkPage, KdePage, WinPage, MacPage, KdeDisasmPage, WinDisasmPage, MacDisasmPage,
        FrontEnds
<1>5. CASE w.page = "video"
  <2>1. PageIs(fe, p, w, e, VideoPage(w, e))
    BY <1>5, VideoIs
  <2> QED
    BY <1>5, <2>1
    DEF Page, GtkPage, KdePage, WinPage, MacPage, GtkVideoPage, KdeVideoPage, WinVideoPage,
        MacVideoPage, FrontEnds
<1>6. CASE w.page = "breaks"
  <2>1. fe # "win" => PageIs(fe, p, w, e, BpList(w, e, TableOf(fe, e)))
    BY <1>6, ListIs
  <2>2. fe = "win" => PageIs(fe, p, w, e, WinBpList(w, e))
    <3> SUFFICES ASSUME fe = "win" PROVE PageIs(fe, p, w, e, WinBpList(w, e))
      OBVIOUS
    <3>1. TableOf(fe, e) = e.bp
      BY DEF TableOf
    <3> QED
      BY <1>6, <3>1, WinBpListIs, BreaksIs
  <2> QED
    BY <1>6, <2>1, <2>2
    DEF Page, GtkPage, KdePage, WinPage, MacPage, GtkBpList, KdeBpList, MacBpList, TableOf,
        FrontEnds
<1>7. CASE w.page = "none"
  <2>1. PageIs(fe, p, w, e, w)
    BY <1>7, NoneIs
  <2> QED
    BY <1>7, <2>1 DEF Page, GtkPage, KdePage, WinPage, MacPage, FrontEnds
<1> QED
  BY <1>1, <1>3, <1>4, <1>5, <1>6, <1>7 DEF View, Tabs

-----------------------------------------------------------------------------
(* The invariant. *)

Good(f, p, v, e) ==
  /\ v \in Views(f, p) /\ IdsKnown(v, e)
  /\ e.stopped /\ v.seen => Shows(f, v, e)

PagesInv ==
  /\ fe \in FrontEnds /\ engine \in Engines /\ wrong = FALSE
  /\ Good(fe, picked, view, engine)

(* ... of a step's end, the front end being what it was. *)
Moves == engine' \in Engines /\ Later(engine, engine')
Kept == engine' \in Engines /\ wrong' = FALSE /\ Good(fe, picked', view', engine')

(* The step refreshes the page, of a window that is now v. *)
Refreshed(v) == view' = Page(v, engine') \/ \E s \in BOOLEAN : view' = [Page(v, engine') EXCEPT !.seen = s]

(* What the list knows, it still knows when the engine has changed. *)
LEMMA LaterKnows ==
  ASSUME NEW w \in View, NEW e \in Engines, NEW f \in Engines, Later(e, f), IdsKnown(w, e)
  PROVE  IdsKnown(w, f)
<1>1. e.next_id \in Nat /\ f.next_id \in Nat /\ e.next_id <= f.next_id
  BY DEF Engines, EngineType, Later
<1>2. /\ \A j \in DOMAIN e.bp : e.bp[j].id \in Nat
      /\ \A j \in DOMAIN f.bp : f.bp[j].id \in Nat
  <2>1. e.bp \in Seq(Bp) /\ f.bp \in Seq(Bp)
    BY DEF Engines, EngineType
  <2>2. /\ \A j \in DOMAIN e.bp : e.bp[j] \in Bp
        /\ \A j \in DOMAIN f.bp : f.bp[j] \in Bp
    BY <2>1
  <2> QED
    BY <2>2 DEF Bp
<1> SUFFICES ASSUME NEW i \in DOMAIN w.bps
             PROVE  /\ w.bps[i].id < f.next_id
                    /\ \A j \in DOMAIN f.bp : f.bp[j].id = w.bps[i].id => f.bp[j].start = w.bps[i].start
  BY DEF IdsKnown
<1>3. /\ w.bps[i].id < e.next_id
      /\ \A j \in DOMAIN e.bp : e.bp[j].id = w.bps[i].id => e.bp[j].start = w.bps[i].start
  BY DEF IdsKnown
<1>4. ASSUME NEW j \in DOMAIN f.bp, f.bp[j].id = w.bps[i].id PROVE f.bp[j].start = w.bps[i].start
  <2>1. f.bp[j].id < e.next_id
    BY <1>3, <1>4
  <2>2. ~(f.bp[j].id >= e.next_id)
    BY <1>1, <1>2, <2>1
  <2>3. PICK k \in DOMAIN e.bp : e.bp[k].id = f.bp[j].id /\ e.bp[k].start = f.bp[j].start
    BY <2>2 DEF Later
  <2> QED
    BY <1>3, <1>4, <2>3
<1>5. w.bps[i].id < f.next_id
  <2>1. w.bps \in Seq(Bp)
    BY DEF View
  <2>2. w.bps[i] \in Bp
    BY <2>1
  <2>3. w.bps[i].id \in Nat
    BY <2>2 DEF Bp
  <2> QED
    BY <1>1, <1>3, <2>3
<1> QED
  BY <1>4, <1>5

(* A page that shows the engine may be said to be seen. *)
LEMMA SeenIsGood ==
  ASSUME NEW f, NEW p, NEW w, NEW e, NEW v, PageIs(f, p, w, e, v), NEW s \in BOOLEAN
  PROVE  Good(f, p, v, e) /\ Good(f, p, [v EXCEPT !.seen = s], e)
<1>1. v \in Views(f, p) /\ v \in View /\ IdsKnown(v, e) /\ Shows(f, v, e)
  BY DEF PageIs, Views
<1> DEFINE u == [v EXCEPT !.seen = s]
<1>2. /\ u \in View /\ SameLines(u, v) /\ SameList(u, v)
      /\ u.entry = v.entry /\ u.stale = v.stale /\ u.flag = v.flag /\ u.cell = v.cell
      /\ u.base = v.base /\ u.page = v.page /\ u.follow = v.follow /\ u.picture = v.picture
  BY <1>1 DEF View, SameLines, SameList
<1> HIDE DEF u
<1>3. u \in Views(f, p) /\ IdsKnown(u, e)
  BY <1>1, <1>2, SameViews, SameListKnows
<1>4. Shows(f, u, e)
  BY <1>1, <1>2 DEF Shows, CpuShows, LinesShow, PcShows, SameLines, SameList
<1>5. Good(f, p, u, e) /\ Good(f, p, v, e)
  BY <1>1, <1>3, <1>4 DEF Good
<1> QED
  BY <1>5 DEF u

(* A refresh leaves a good page. *)
LEMMA RefreshedIsGood ==
  ASSUME AddrBounds, PagesBounds, fe \in FrontEnds, engine' \in Engines, NEW p,
         NEW v \in Views(fe, p), IdsKnown(v, engine'), Refreshed(v)
  PROVE  Good(fe, p, view', engine')
<1>1. PageIs(fe, p, v, engine', Page(v, engine'))
  BY PageKeeps
<1>2. PICK n : n = Page(v, engine')
  OBVIOUS
<1>3. \A s \in BOOLEAN : Good(fe, p, n, engine') /\ Good(fe, p, [n EXCEPT !.seen = s], engine')
  BY <1>1, <1>2, SeenIsGood
<1> QED
  BY <1>2, <1>3 DEF Refreshed

(* A page refreshed of a window that differs from the one before neither in its lines nor *)
(* in its list.                                                                           *)
LEMMA SoIsGood ==
  ASSUME AddrBounds, PagesBounds, PagesInv, Moves, UNCHANGED picked, wrong' = FALSE,
         NEW v \in View, SameLines(v, view), SameList(v, view), Refreshed(v)
  PROVE  Kept
<1>1. /\ fe \in FrontEnds /\ engine \in Engines /\ engine' \in Engines /\ Later(engine, engine')
      /\ view \in Views(fe, picked) /\ IdsKnown(view, engine)
  BY DEF PagesInv, Good, Moves
<1>2. v \in Views(fe, picked)
  BY <1>1, SameViews
<1>3. IdsKnown(view, engine')
  BY <1>1, LaterKnows DEF Views
<1>4. IdsKnown(v, engine')
  BY <1>3, SameListKnows
<1> QED
  BY <1>1, <1>2, <1>4, RefreshedIsGood DEF Kept

(* ... of the window as it was. *)
LEMMA ViewIsGood ==
  ASSUME AddrBounds, PagesBounds, PagesInv, Moves, UNCHANGED picked, wrong' = FALSE, Refreshed(view)
  PROVE  Kept
<1>1. view \in View
  BY DEF PagesInv, Good, Views
<1>2. SameLines(view, view) /\ SameList(view, view)
  BY DEF SameLines, SameList
<1> QED
  BY <1>1, <1>2, SoIsGood

(* A window that has not yet been shown what the engine has become. *)
LEMMA UnseenIsGood ==
  ASSUME PagesInv, Moves, UNCHANGED picked, wrong' = FALSE,
         NEW v \in View, SameLines(v, view), SameList(v, view), view' = v, ~v.seen \/ ~engine'.stopped
  PROVE  Kept
<1>1. /\ engine \in Engines /\ engine' \in Engines /\ Later(engine, engine')
      /\ view \in Views(fe, picked) /\ IdsKnown(view, engine)
  BY DEF PagesInv, Good, Moves
<1>2. v \in Views(fe, picked)
  BY <1>1, SameViews
<1>3. IdsKnown(view, engine')
  BY <1>1, LaterKnows DEF Views
<1>4. IdsKnown(v, engine')
  BY <1>3, SameListKnows
<1> QED
  BY <1>1, <1>2, <1>4 DEF Kept, Good

(* A page refreshed by itself. *)
LEMMA PartlyIs ==
  ASSUME NEW v, view' = Partly(Page(v, engine'))
  PROVE  Refreshed(v)
<1> DEFINE s == Page(v, engine').seen /\ engine' = engine
<1>1. view' = [Page(v, engine') EXCEPT !.seen = s] /\ s \in BOOLEAN
  BY DEF Partly
<1> QED
  BY <1>1 DEF Refreshed

(* Each front end's pages are the window's pages. *)
LEMMA PagesAre ==
  ASSUME NEW w \in View, NEW e
  PROVE  /\ fe = "gtk" => Page(w, e) = GtkPage(w, e)
         /\ fe = "kde" => Page(w, e) = KdePage(w, e)
         /\ fe = "win" => Page(w, e) = WinPage(w, e)
         /\ fe = "mac" => Page(w, e) = MacPage(w, e)
         /\ w.page = "cpu" => /\ GtkPage(w, e) = GtkCpuPage(w, e)
                              /\ KdePage(w, e) = KdeCpuPage(w, e)
                              /\ WinPage(w, e) = WinCpuPage(w, e)
                              /\ MacPage(w, e) = MacCpuPage(w, e)
         /\ w.page = "disasm" => /\ GtkPage(w, e) = GtkDisasmPage(w, e)
                                 /\ KdePage(w, e) = KdeDisasmPage(w, e)
                                 /\ WinPage(w, e) = WinDisasmPage(w, e)
                                 /\ MacPage(w, e) = MacDisasmPage(w, e)
<1>1. /\ fe = "gtk" => Page(w, e) = GtkPage(w, e)
      /\ fe = "kde" => Page(w, e) = KdePage(w, e)
      /\ fe = "win" => Page(w, e) = WinPage(w, e)
      /\ fe = "mac" => Page(w, e) = MacPage(w, e)
  BY DEF Page
<1>2. w.page = "cpu" => /\ GtkPage(w, e) = GtkCpuPage(w, e)
                        /\ KdePage(w, e) = KdeCpuPage(w, e)
                        /\ WinPage(w, e) = WinCpuPage(w, e)
                        /\ MacPage(w, e) = MacCpuPage(w, e)
  BY DEF GtkPage, KdePage, WinPage, MacPage
<1>3. w.page = "disasm" => /\ GtkPage(w, e) = GtkDisasmPage(w, e)
                           /\ KdePage(w, e) = KdeDisasmPage(w, e)
                           /\ WinPage(w, e) = WinDisasmPage(w, e)
                           /\ MacPage(w, e) = MacDisasmPage(w, e)
  BY DEF GtkPage, KdePage, WinPage, MacPage
<1> QED
  BY <1>1, <1>2, <1>3

(* What a handler leaves when it has refreshed its tab and its status. *)
Synced ==
  \/ fe = "gtk" /\ view' = GtkSynced
  \/ fe = "kde" /\ view' = KdeSynced
  \/ fe = "win" /\ view' = WinSynced
  \/ fe = "mac" /\ view' = MacSynced

LEMMA SyncedIsGood ==
  ASSUME AddrBounds, PagesBounds, PagesInv, Moves, UNCHANGED picked, wrong' = FALSE, Synced
  PROVE  Kept
<1>1. view \in View
  BY DEF PagesInv, Good, Views
<1>2. view' = [Page(view, engine') EXCEPT !.seen = TRUE]
  BY <1>1, PagesAre DEF Synced, GtkSynced, KdeSynced, WinSynced, MacSynced
<1> QED
  BY <1>2, ViewIsGood DEF Refreshed

(* ... or nothing was done. *)
LEMMA IdleIsGood ==
  ASSUME PagesInv, UNCHANGED <<engine, picked, view, wrong>> PROVE Kept
BY DEF PagesInv, Kept

(* The two ways the engine moves on but for its breakpoints. *)
LEMMA EngineStays == ASSUME PagesInv, engine' = engine PROVE Moves
<1>1. engine \in Engines
  BY DEF PagesInv
<1> QED
  BY <1>1, SameIsEdited, EditedIsLater DEF Moves

LEMMA EngineEdited == ASSUME PagesInv, engine' \in Edited(engine) PROVE Moves
<1>1. engine \in Engines
  BY DEF PagesInv
<1> QED
  BY <1>1, EditedIsLater DEF Moves

-----------------------------------------------------------------------------
(* The tabs, the tick, the machine. *)

(* What the invariant says, in parts. *)
LEMMA ViewHas ==
  ASSUME PagesInv
  PROVE  /\ fe \in FrontEnds /\ engine \in Engines /\ wrong = FALSE
         /\ view \in View /\ view \in Views(fe, picked) /\ IdsKnown(view, engine)
         /\ SameLines(view, view) /\ SameList(view, view)
BY DEF PagesInv, Good, Views, SameLines, SameList

(* A tab is selected, or a row opened: the lines that showed are gone. *)
RowOpened(w, a) ==
  [Hidden(w) EXCEPT !.page = "disasm", !.follow = FALSE, !.top = a, !.selected = a]

LEMMA NoLinesIs ==
  ASSUME NEW f, NEW p, NEW w \in Views(f, p), NEW e, IdsKnown(w, e),
         NEW v \in View, v.text = <<>>, v.line_addr = <<>>, SameList(v, w)
  PROVE  v \in Views(f, p) /\ IdsKnown(v, e)
<1>1. LinesMatch(v)
  BY DEF LinesMatch
<1>2. RowsMatch(v) /\ SelMatches(f, v, p)
  BY DEF Views, SameList, RowsMatch, SelMatches
<1> QED
  BY <1>1, <1>2, SameListKnows DEF Views

LEMMA HiddenType ==
  ASSUME AddrBounds, NEW w \in View
  PROVE  LET n == Hidden(w)
         IN  n \in View /\ n.text = <<>> /\ n.line_addr = <<>> /\ SameList(n, w)
<1> DEFINE n == Hidden(w)
           zs == [r \in Regs |-> 0]
<1>1. zs \in Entries /\ zs \in [Regs -> Int] /\ 0 \in Byte /\ <<>> \in Seq(LineType)
      /\ <<>> \in Seq(Addr \cup {NoAddr})
  <2>1. 0 \in Addr
    BY DEF Addr, AddrBounds
  <2> QED
    BY <2>1 DEF Entries, Regs, Byte
<1>2. n = [w EXCEPT !.text = <<>>, !.line_addr = <<>>, !.picture = <<>>, !.cell = 0, !.entry = zs,
                    !.put = zs, !.stale = {}, !.focus = "none", !.flag = 0]
  BY DEF Hidden
<1> HIDE DEF n, zs
<1>3. n \in View /\ n.text = <<>> /\ n.line_addr = <<>> /\ SameList(n, w)
  <2>1. /\ {} \in SUBSET Regs /\ "none" \in Regs \cup {"none"} /\ 0 \in Int
        /\ <<>> \in {<<>>} \cup [Screen -> Byte]
    OBVIOUS
  <2> QED
    BY <1>1, <1>2, <2>1 DEF View, SameList
<1> QED
  BY <1>3 DEF n

LEMMA HiddenIs ==
  ASSUME AddrBounds, NEW f, NEW p, NEW w \in Views(f, p), NEW tab \in Tabs, NEW e, IdsKnown(w, e)
  PROVE  LET h == [Hidden(w) EXCEPT !.page = tab] IN h \in Views(f, p) /\ IdsKnown(h, e)
<1> DEFINE n == Hidden(w)
           h == [n EXCEPT !.page = tab]
<1>1. n \in View /\ n.text = <<>> /\ n.line_addr = <<>> /\ SameList(n, w)
  BY HiddenType DEF Views
<1> HIDE DEF n
<1>2. h \in View /\ h.text = <<>> /\ h.line_addr = <<>> /\ SameList(h, w)
  BY <1>1 DEF View, SameList
<1> HIDE DEF h
<1>3. h \in Views(f, p) /\ IdsKnown(h, e)
  BY <1>2, NoLinesIs
<1> QED
  BY <1>3 DEF h, n

LEMMA OpenedIs ==
  ASSUME AddrBounds, NEW f, NEW p, NEW w \in Views(f, p), NEW a \in Addr, NEW e, IdsKnown(w, e)
  PROVE  RowOpened(w, a) \in Views(f, p) /\ IdsKnown(RowOpened(w, a), e) /\ RowOpened(w, a).page = "disasm"
<1> DEFINE n == Hidden(w)
           o == [n EXCEPT !.page = "disasm", !.follow = FALSE, !.top = a, !.selected = a]
<1>1. n \in View /\ n.text = <<>> /\ n.line_addr = <<>> /\ SameList(n, w)
  BY HiddenType DEF Views
<1> HIDE DEF n
<1>2. /\ o \in View /\ o.text = <<>> /\ o.line_addr = <<>> /\ SameList(o, w)
      /\ o.page = "disasm"
  BY <1>1 DEF View, SameList, Tabs
<1> HIDE DEF o
<1>3. o \in Views(f, p) /\ IdsKnown(o, e)
  BY <1>2, NoLinesIs
<1> QED
  BY <1>2, <1>3 DEF RowOpened, n, o

(* What every front end has. *)
LEMMA RestKeeps ==
  ASSUME AddrBounds, PagesBounds, PagesInv, Rest
  PROVE  Kept
<1> USE ViewHas
<1>1. CASE Tick
  <2>1. Moves
    BY <1>1, EngineStays DEF Tick
  <2> QED
    BY <1>1, <2>1, ViewIsGood DEF Tick, Refreshed
<1>2. CASE LiveTick
  <2>1. Moves
    BY <1>2, EngineStays DEF LiveTick
  <2> QED
    BY <1>2, <2>1, ViewIsGood DEF LiveTick, Refreshed
<1>3. CASE MachineRuns
  <2>1. PICK e \in MovedOn(engine) : engine' = e /\ view' = [view EXCEPT !.seen = @ /\ ~e.stopped]
    BY <1>3 DEF MachineRuns
  <2>2. Moves
    BY <2>1, MovedOnEdits, EngineEdited
  <2>3. view' \in View /\ SameLines(view', view) /\ SameList(view', view)
    BY <2>1 DEF View, SameLines, SameList
  <2>4. engine'.stopped \in BOOLEAN
    BY <2>2 DEF Moves, Engines, EngineType
  <2>5. ~view'.seen \/ ~engine'.stopped
    BY <2>1, <2>4 DEF View
  <2> QED
    BY <1>3, <2>2, <2>3, <2>5, UnseenIsGood DEF MachineRuns
<1>4. CASE RunButtons
  <2>1. engine' \in Edited(engine)
    BY <1>4, MovedOnEdits, SteppedEdits, SameIsEdited DEF RunButtons, RunCmd, StopCmd
  <2>2. Moves
    BY <2>1, EngineEdited
  <2> QED
    BY <1>4, <2>2, ViewIsGood DEF RunButtons, Refreshed
<1>5. CASE Focus
  <2>1. PICK r \in Regs \cup {"none"} : view' = [view EXCEPT !.focus = r]
    BY <1>5 DEF Focus
  <2>2. /\ view' \in View /\ SameLines(view', view) /\ SameList(view', view) /\ view'.seen = view.seen
        /\ view'.page = view.page /\ view.page = "cpu" /\ view'.entry = view.entry
        /\ view'.stale = view.stale /\ view'.flag = view.flag /\ view'.cell = view.cell
        /\ view'.base = view.base
    BY <1>5, <2>1 DEF Focus, View, SameLines, SameList
  <2>3. view' \in Views(fe, picked) /\ IdsKnown(view', engine)
    BY <2>2, SameViews, SameListKnows
  <2>4. engine.stopped /\ view'.seen => Shows(fe, view', engine)
    BY <2>2 DEF PagesInv, Good, Shows, CpuShows
  <2> QED
    BY <1>5, <2>3, <2>4 DEF Focus, Kept, Good
<1>6. CASE Type
  <2>1. view.focus \in Regs /\ view.page = "cpu"
    BY <1>6 DEF Type, View
  <2>2. PICK v \in IF view.focus = "pc" THEN Addr ELSE Byte :
          view' = [view EXCEPT !.entry[view.focus] = v, !.stale = @ \cup {view.focus}]
    BY <1>6 DEF Type
  <2>3. view.entry \in [Regs -> Int] /\ view.entry["pc"] \in Addr
    BY DEF View, Entries
  <2>4. v \in Int
    BY <2>2 DEF Addr, Byte
  <2> DEFINE es == [view.entry EXCEPT ![view.focus] = v]
  <2>5. es \in Entries
    <3>1. es \in [Regs -> Int]
      BY <2>1, <2>3, <2>4
    <3>2. es["pc"] \in Addr
      BY <2>1, <2>2, <2>3 DEF Regs
    <3> QED
      BY <3>1, <3>2 DEF Entries
  <2>6. \A r \in Regs \ (view.stale \cup {view.focus}) : es[r] = view.entry[r]
    BY <2>3
  <2>7. view.stale \cup {view.focus} \in SUBSET Regs
    BY <2>1 DEF View
  <2>8. view' = [view EXCEPT !.entry = es, !.stale = view.stale \cup {view.focus}]
    BY <2>2 DEF View
  <2> HIDE DEF es
  <2>9. /\ view' \in View /\ SameLines(view', view) /\ SameList(view', view) /\ view'.seen = view.seen
        /\ view'.page = view.page /\ view'.entry = es /\ view'.flag = view.flag
        /\ view'.cell = view.cell /\ view'.base = view.base
        /\ view'.stale = view.stale \cup {view.focus}
    BY <2>5, <2>7, <2>8 DEF View, SameLines, SameList
  <2>10. view' \in Views(fe, picked) /\ IdsKnown(view', engine)
    BY <2>9, SameViews, SameListKnows
  <2>11. engine.stopped /\ view'.seen => Shows(fe, view', engine)
    <3> SUFFICES ASSUME engine.stopped, view'.seen PROVE Shows(fe, view', engine)
      OBVIOUS
    <3>1. CpuShows(view, engine)
      BY <2>1, <2>9 DEF PagesInv, Good, Shows
    <3>2. CpuShows(view', engine)
      BY <2>6, <2>9, <3>1 DEF CpuShows
    <3> QED
      BY <2>1, <2>9, <3>2 DEF Shows
  <2> QED
    BY <1>6, <2>10, <2>11 DEF Type, Kept, Good
<1>7. CASE FollowToggled
  <2> DEFINE v == [view EXCEPT !.follow = ~@]
  <2>1. v \in View /\ SameLines(v, view) /\ SameList(v, view)
    BY DEF View, SameLines, SameList
  <2>2. view' = Page(v, engine') /\ engine' = engine /\ UNCHANGED picked /\ wrong' = FALSE
    BY <1>7 DEF FollowToggled, DisasmHas
  <2> HIDE DEF v
  <2>3. Moves
    BY <2>2, EngineStays
  <2> QED
    BY <2>1, <2>2, <2>3, SoIsGood DEF Refreshed
<1>8. ASSUME NEW tab \in Tabs, SelectTab(tab) PROVE Kept
  <2> DEFINE h == [Hidden(view) EXCEPT !.page = tab]
  <2>1. h \in Views(fe, picked) /\ IdsKnown(h, engine)
    BY HiddenIs
  <2>2. view' = Page(h, engine') /\ engine' = engine /\ UNCHANGED picked /\ wrong' = FALSE
    BY <1>8 DEF SelectTab
  <2> HIDE DEF h
  <2>3. engine' \in Engines /\ IdsKnown(h, engine')
    BY <2>1, <2>2
  <2> QED
    BY <2>1, <2>2, <2>3, RefreshedIsGood DEF Kept, Refreshed
<1> QED
  BY <1>1, <1>2, <1>3, <1>4, <1>5, <1>6, <1>7, <1>8 DEF Rest

-----------------------------------------------------------------------------
(* The registers and the memory. *)

(* A label's name is an address, and a register's number stays one that it can hold. *)
LEMMA NumberIs ==
  ASSUME AddrBounds, NEW e \in Engines, NEW number
  PROVE  /\ number \in Int => LabelFirst(e, number) \in Int
         /\ number \in Addr => LabelFirst(e, number) \in Addr
         /\ DigitsFirst(e, number) = number
<1>1. LabelAddress(e, number) \in SUBSET Addr
  BY DEF LabelAddress, AddrBounds, Addr
<1>2. LabelFirst(e, number) = number \/ LabelFirst(e, number) \in Addr
  BY <1>1 DEF LabelFirst
<1> QED
  BY <1>2 DEF DigitsFirst, Addr

(* The entry that is entered. *)
LEMMA UnfocusedIs ==
  ASSUME PagesInv
  PROVE  /\ Unfocused \in View /\ SameLines(Unfocused, view) /\ SameList(Unfocused, view)
         /\ Unfocused.page = view.page
BY ViewHas DEF Unfocused, View, SameLines, SameList

LEMMA EnteredIs ==
  ASSUME PagesInv, EntryHas
  PROVE  /\ view.focus \in Regs /\ Entered \in Int /\ (view.focus = "pc" => Entered \in Addr)
         /\ view.page = "cpu" /\ Unfocused.page = "cpu" /\ UNCHANGED picked
<1>1. view.entry \in [Regs -> Int] /\ view.entry["pc"] \in Addr
  BY ViewHas DEF View, Entries
<1>2. view.focus \in Regs
  BY ViewHas DEF View, EntryHas
<1> QED
  BY <1>1, <1>2, UnfocusedIs DEF Entered, EntryHas

(* A number entered is one that the register can hold. *)
LEMMA EnterMoves ==
  ASSUME AddrBounds, PagesInv, EntryHas,
         NEW number, number \in {LabelFirst(engine, Entered), DigitsFirst(engine, Entered)},
         engine' = Enter(number)
  PROVE  Moves
<1>1. number \in Int /\ (view.focus = "pc" => number \in Addr)
  BY ViewHas, EnteredIs, NumberIs
<1>2. Enter(number) \in Edited(engine)
  BY <1>1, ViewHas, EnteredIs, CpuSetEdits DEF Enter
<1> QED
  BY <1>2, EngineEdited

(* The register becomes the digits its entry holds. *)
LEMMA EntersDigits ==
  ASSUME PagesInv, EntryHas, engine' = Enter(DigitsFirst(engine, Entered)), Misread
  PROVE  wrong' = FALSE
<1>1. engine.stopped => engine'[view.focus] = Entered
  BY ViewHas, EnteredIs, CpuSetSets DEF Enter, DigitsFirst
<1> QED
  BY <1>1, ViewHas DEF Misread

(* An entry, entered. *)
LEMMA RegistersKeep ==
  ASSUME AddrBounds, PagesBounds, PagesInv,
         GtkRegActivate \/ KdeSetReg \/ WinReg \/ MacApplyRegister
  PROVE  Kept
<1> USE ViewHas
<1> DEFINE u == Unfocused
<1>0. u \in View /\ SameLines(u, view) /\ SameList(u, view)
  BY UnfocusedIs
<1>1. CASE GtkRegActivate
  <2>1. /\ fe = "gtk" /\ EntryHas /\ engine' = Enter(DigitsFirst(engine, Entered)) /\ Misread
        /\ view' = [GtkCpuPage(u, engine') EXCEPT !.seen = TRUE, !.focus = view.focus]
    BY <1>1 DEF GtkRegActivate, GtkParseNum
  <2>2. Moves /\ wrong' = FALSE /\ UNCHANGED picked /\ u.page = "cpu"
    BY <2>1, EnterMoves, EntersDigits, EnteredIs
  <2>3. GtkCpuPage(u, engine') = Page(u, engine')
    BY <1>0, <2>1, <2>2, PagesAre
  <2> HIDE DEF u
  <2>4. PICK n : n = Page(u, engine')
    OBVIOUS
  <2>5. engine' \in Engines /\ IdsKnown(view, engine')
    BY <2>2, LaterKnows DEF Moves
  <2>6. u \in Views(fe, picked) /\ IdsKnown(u, engine')
    BY <1>0, <2>5, SameViews, SameListKnows
  <2>7. PageIs(fe, picked, u, engine', n)
    BY <2>4, <2>5, <2>6, PageKeeps
  <2>8. n \in Views(fe, picked) /\ n \in View /\ IdsKnown(n, engine') /\ n.page = "cpu"
        /\ CpuShows(n, engine')
    BY <2>2, <2>7 DEF PageIs, Views, Shows
  <2>9. view' = [n EXCEPT !.seen = TRUE, !.focus = view.focus]
    BY <2>1, <2>3, <2>4
  <2>10. /\ view' \in View /\ SameLines(view', n) /\ SameList(view', n) /\ view'.page = n.page
         /\ view'.entry = n.entry /\ view'.stale = n.stale /\ view'.flag = n.flag
         /\ view'.cell = n.cell /\ view'.base = n.base
    BY <2>8, <2>9 DEF View, SameLines, SameList
  <2>11. view' \in Views(fe, picked) /\ IdsKnown(view', engine')
    BY <2>8, <2>10, SameViews, SameListKnows
  <2>12. Shows(fe, view', engine')
    BY <2>8, <2>10 DEF Shows, CpuShows
  <2> QED
    BY <2>2, <2>5, <2>11, <2>12 DEF Kept, Good
<1>2. CASE KdeSetReg
  <2>1. /\ fe = "kde" /\ EntryHas /\ engine' = Enter(LabelFirst(engine, Entered)) /\ wrong' = FALSE
        /\ view' = [KdeCpuPage(u, engine') EXCEPT !.seen = TRUE]
    BY <1>2 DEF KdeSetReg, KdeNumberOf
  <2>2. Moves /\ UNCHANGED picked /\ u.page = "cpu"
    BY <2>1, EnterMoves, EnteredIs
  <2>3. KdeCpuPage(u, engine') = Page(u, engine')
    BY <1>0, <2>1, <2>2, PagesAre
  <2> HIDE DEF u
  <2> QED
    BY <1>0, <2>1, <2>2, <2>3, SoIsGood DEF Refreshed
<1>3. CASE WinReg
  <2>1. /\ fe = "win" /\ EntryHas /\ engine' = Enter(DigitsFirst(engine, Entered)) /\ Misread
        /\ view' = [WinCpuPage(u, engine') EXCEPT !.seen = TRUE]
    BY <1>3 DEF WinReg, WinParseHexish
  <2>2. Moves /\ wrong' = FALSE /\ UNCHANGED picked /\ u.page = "cpu"
    BY <2>1, EnterMoves, EntersDigits, EnteredIs
  <2>3. WinCpuPage(u, engine') = Page(u, engine')
    BY <1>0, <2>1, <2>2, PagesAre
  <2> HIDE DEF u
  <2> QED
    BY <1>0, <2>1, <2>2, <2>3, SoIsGood DEF Refreshed
<1>4. CASE MacApplyRegister
  <2>1. /\ fe = "mac" /\ EntryHas /\ engine' = Enter(LabelFirst(engine, Entered)) /\ wrong' = FALSE
        /\ view' = Partly(MacCpuPage(u, engine'))
    BY <1>4 DEF MacApplyRegister, MacEvaluate
  <2>2. Moves /\ UNCHANGED picked /\ u.page = "cpu"
    BY <2>1, EnterMoves, EnteredIs
  <2>3. MacCpuPage(u, engine') = Page(u, engine')
    BY <1>0, <2>1, <2>2, PagesAre
  <2> HIDE DEF u
  <2>4. Refreshed(u)
    BY <2>1, <2>3, PartlyIs
  <2> QED
    BY <1>0, <2>1, <2>2, <2>4, SoIsGood
<1> QED
  BY <1>1, <1>2, <1>3, <1>4

-----------------------------------------------------------------------------
(* The flag. *)
LEMMA FlagKeeps ==
  ASSUME AddrBounds, PagesBounds, PagesInv,
         GtkFlagToggled \/ KdeSetFlag \/ WinCheck \/ MacFlagClicked
  PROVE  Kept
<1> USE ViewHas
<1>1. /\ engine' = Flag /\ view.page = "cpu" /\ wrong' = FALSE /\ UNCHANGED picked
  BY DEF GtkFlagToggled, KdeSetFlag, WinCheck, MacFlagClicked, FlagHas
<1>2. Moves
  <2>1. 1 - view.flag \in Int /\ "carry" \in Regs
    BY DEF View, Regs
  <2> QED
    BY <1>1, <2>1, CpuSetEdits, EngineEdited DEF Flag
<1>3. /\ fe = "gtk" => GtkCpuPage(view, engine') = Page(view, engine')
      /\ fe = "win" => WinCpuPage(view, engine') = Page(view, engine')
      /\ fe = "mac" => MacCpuPage(view, engine') = Page(view, engine')
  BY <1>1, PagesAre
<1>4. CASE Synced
  BY <1>1, <1>2, <1>4, SyncedIsGood
<1>5. CASE view' = Partly(Page(view, engine'))
  BY <1>1, <1>2, <1>5, PartlyIs, ViewIsGood
<1> QED
  BY <1>3, <1>4, <1>5 DEF GtkFlagToggled, KdeSetFlag, WinCheck, MacFlagClicked, Synced

(* The tick is left to refresh the page. *)
LEMMA UnseenIs ==
  ASSUME NEW w \in View
  PROVE  /\ Unseen(w) \in View /\ SameLines(Unseen(w), w) /\ SameList(Unseen(w), w)
         /\ ~Unseen(w).seen
BY DEF Unseen, View, SameLines, SameList

(* The memory shown is of another address, and read. *)
LEMMA MemReadIs ==
  ASSUME NEW w \in View, NEW e \in Engines, NEW a \in Addr
  PROVE  LET v == MemRead([w EXCEPT !.base = a], e)
         IN  /\ v \in View /\ SameLines(v, w) /\ SameList(v, w) /\ v.page = w.page /\ v.seen = w.seen
             /\ v.entry = w.entry /\ v.stale = w.stale /\ v.flag = w.flag
             /\ v.base = a /\ v.cell = e.mem[a]
<1>1. e.mem[a] \in Byte
  BY DEF Engines, EngineType
<1>2. MemRead([w EXCEPT !.base = a], e) = [w EXCEPT !.base = a, !.cell = e.mem[a]]
  BY DEF MemRead, View
<1> QED
  BY <1>1, <1>2 DEF View, SameLines, SameList

LEMMA PokesMove ==
  ASSUME AddrBounds, PagesInv, NEW a \in Addr, NEW vs \in Pokes, engine' = Writes(engine, a, vs)
  PROVE  Moves
<1>1. PICK n \in 1..2 : vs \in [1..n -> Byte]
  BY DEF Pokes
<1>2. Writes(engine, a, vs) \in Edited(engine)
  BY <1>1, ViewHas, WritesEdits
<1> QED
  BY <1>2, EngineEdited

(* The memory, edited. *)
LEMMA WritesKeep ==
  ASSUME AddrBounds, PagesBounds, PagesInv,
         GtkMemWrite \/ KdeMemWrite \/ WinMemWrite \/ MacWriteMem
  PROVE  Kept
<1> USE ViewHas
<1>0. /\ UNCHANGED picked /\ wrong' = FALSE
  BY DEF GtkMemWrite, KdeMemWrite, WinMemWrite, MacWriteMem, MemHas
<1>1. CASE GtkMemWrite
  <2>1. Moves
    BY <1>1, PokesMove DEF GtkMemWrite
  <2> QED
    BY <1>0, <1>1, <2>1, SyncedIsGood DEF GtkMemWrite, Synced
<1>2. CASE KdeMemWrite
  <2>1. PICK a \in Addr, v \in Byte : engine' = Write(engine, a, v)
    BY <1>2 DEF KdeMemWrite
  <2>2. Moves
    BY <2>1, SameIsEdited, WriteEdits, EngineEdited
  <2> QED
    BY <1>0, <1>2, <2>2, SyncedIsGood DEF KdeMemWrite, Synced
<1>3. ASSUME Moves, view' = Unseen(view) PROVE Kept
  <2>1. /\ Unseen(view) \in View /\ SameLines(Unseen(view), view) /\ SameList(Unseen(view), view)
        /\ ~Unseen(view).seen
    BY UnseenIs
  <2> QED
    BY <1>0, <1>3, <2>1, UnseenIsGood
<1>4. CASE WinMemWrite
  <2>1. PICK a \in Addr, vs \in Pokes, all \in BOOLEAN :
          /\ engine' = Writes(engine, a, vs)
          /\ view' = IF all THEN WinSynced ELSE Unseen(view)
    BY <1>4 DEF WinMemWrite
  <2>2. Moves
    BY <2>1, PokesMove
  <2>3. view' = WinSynced => Kept
    BY <1>0, <1>4, <2>2, SyncedIsGood DEF WinMemWrite, Synced
  <2> QED
    BY <1>3, <2>1, <2>2, <2>3
<1>5. CASE MacWriteMem
  <2>1. PICK a \in Addr, vs \in Pokes, all \in BOOLEAN :
          /\ engine' = Writes(engine, a, vs)
          /\ view' = IF all THEN Unseen(MemRead([view EXCEPT !.base = a], engine')) ELSE Unseen(view)
    BY <1>5 DEF MacWriteMem
  <2>2. Moves
    BY <2>1, PokesMove
  <2>3. PICK m : m = MemRead([view EXCEPT !.base = a], engine')
    OBVIOUS
  <2>4. m \in View /\ SameLines(m, view) /\ SameList(m, view)
    BY <2>2, <2>3, MemReadIs DEF Moves
  <2>5. /\ Unseen(m) \in View /\ SameLines(Unseen(m), m) /\ SameList(Unseen(m), m)
        /\ ~Unseen(m).seen
    BY <2>4, UnseenIs
  <2>6. SameLines(Unseen(m), view) /\ SameList(Unseen(m), view)
    BY <2>4, <2>5 DEF SameLines, SameList
  <2>7. view' = Unseen(m) => Kept
    BY <1>0, <2>2, <2>5, <2>6, UnseenIsGood
  <2> QED
    BY <1>3, <2>1, <2>2, <2>3, <2>7
<1> QED
  BY <1>1, <1>2, <1>4, <1>5

(* The memory, moved. *)
LEMMA GoToKeeps ==
  ASSUME AddrBounds, PagesBounds, PagesInv,
         GtkMemGoto \/ KdeMemGoto \/ WinMemGoto \/ MacGotoMem
  PROVE  Kept
<1> USE ViewHas
<1>1. PICK n \in Addr : GoTo(LabelFirst(engine, n))
  BY DEF GtkMemGoto, KdeMemGoto, WinMemGoto, MacGotoMem, GtkParseAddr, KdeNumberOf, WinResolveAddr,
         MacEvaluate
<1>2. PICK a \in Addr : a = LabelFirst(engine, n)
  BY NumberIs
<1>3. /\ engine' = engine /\ picked' = picked /\ wrong' = FALSE /\ view.page = "cpu"
      /\ view' = MemRead([view EXCEPT !.base = a], engine)
  BY <1>1, <1>2 DEF GoTo, MemHas
<1>4. /\ view' \in View /\ SameLines(view', view) /\ SameList(view', view) /\ view'.page = view.page
      /\ view'.entry = view.entry /\ view'.stale = view.stale /\ view'.flag = view.flag
      /\ view'.base = a /\ view'.cell = engine.mem[a] /\ view'.seen = view.seen
  BY <1>3, MemReadIs
<1>5. view' \in Views(fe, picked) /\ IdsKnown(view', engine)
  BY <1>4, SameViews, SameListKnows
<1>6. engine.stopped /\ view'.seen => Shows(fe, view', engine)
  BY <1>3, <1>4 DEF PagesInv, Good, Shows, CpuShows
<1> QED
  BY <1>3, <1>5, <1>6 DEF Kept, Good

-----------------------------------------------------------------------------
(* The disassembly. *)

(* A line is selected, and the lines move. *)
LEMMA SelectingIs ==
  ASSUME PagesInv, NEW a \in Addr
  PROVE  LET v == Selecting(a)
         IN  /\ v \in View /\ SameLines(v, view) /\ SameList(v, view) /\ v.page = view.page
             /\ v.seen = view.seen /\ v.entry = view.entry /\ v.stale = view.stale
             /\ v.flag = view.flag /\ v.cell = view.cell /\ v.base = view.base
             /\ v.follow = view.follow /\ v.picture = view.picture
BY ViewHas DEF Selecting, View, SameLines, SameList

LEMMA MovedIs ==
  ASSUME PagesInv, NEW top \in Addr, NEW a \in Addr \cup {NoAddr}
  PROVE  LET v == Moved(top, a)
         IN  v \in View /\ SameLines(v, view) /\ SameList(v, view) /\ v.page = view.page
BY ViewHas DEF Moved, View, SameLines, SameList

LEMMA ToggleMoves ==
  ASSUME PagesInv, NEW a \in Addr, NEW toggled, Toggled(a, toggled)
  PROVE  Moves
<1>1. CASE engine' = engine
  BY <1>1, EngineStays
<1>2. CASE engine' = BpToggle(engine, a)
  BY <1>2, ViewHas, BpToggleKeeps DEF Moves
<1> QED
  BY <1>1, <1>2 DEF Toggled

(* The line clicked is the one the address is of. *)
LEMMA ClickedIs ==
  ASSUME PagesInv, NEW i, Clicked(i)
  PROVE  /\ view.line_addr[i] \in Addr /\ view.page = "disasm" /\ UNCHANGED picked
         /\ wrong' = FALSE
<1>1. LinesMatch(view) /\ view.line_addr \in Seq(Addr \cup {NoAddr})
  BY ViewHas DEF Views, View
<1>2. i \in DOMAIN view.line_addr /\ view.line_addr[i] # NoAddr
  BY DEF Clicked
<1>3. view.line_addr[i] \in Addr
  BY <1>1, <1>2
<1> QED
  BY <1>1, <1>2, <1>3, ViewHas DEF Clicked, LinesMatch

(* A click on a line. *)
LEMMA ClicksKeep ==
  ASSUME AddrBounds, PagesBounds, PagesInv, NEW i, NEW second \in BOOLEAN, NEW gutter \in BOOLEAN,
         \/ GtkDisasmClick(i, second, gutter) \/ KdeDisasmClick(i, second, gutter)
         \/ WinDisasmClick(i, second, gutter) \/ MacDisasmClick(i, second, gutter)
  PROVE  Kept
<1> USE ViewHas
<1>1. Clicked(i) /\ Toggled(view.line_addr[i], Toggles(second, gutter))
  BY DEF GtkDisasmClick, KdeDisasmClick, WinDisasmClick, MacDisasmClick
<1>2. PICK a : a = view.line_addr[i]
  OBVIOUS
<1>3. a \in Addr /\ view.page = "disasm" /\ UNCHANGED picked /\ wrong' = FALSE
  BY <1>1, <1>2, ClickedIs
<1>4. Moves
  BY <1>1, <1>2, <1>3, ToggleMoves
<1>5. PICK v : v = Selecting(a)
  OBVIOUS
<1>6. /\ v \in View /\ SameLines(v, view) /\ SameList(v, view) /\ v.page = view.page
      /\ v.seen = view.seen /\ v.entry = view.entry /\ v.stale = view.stale
      /\ v.flag = view.flag /\ v.cell = view.cell /\ v.base = view.base
      /\ v.follow = view.follow /\ v.picture = view.picture
  BY <1>3, <1>5, SelectingIs
<1>7. /\ fe = "gtk" => GtkDisasmPage(v, engine') = Page(v, engine')
      /\ fe = "kde" => KdeDisasmPage(v, engine') = Page(v, engine')
      /\ fe = "win" => WinDisasmPage(v, engine') = Page(v, engine')
      /\ fe = "mac" => MacDisasmPage(v, engine') = Page(v, engine')
  BY <1>3, <1>6, PagesAre
<1>8. CASE Refreshed(v)
  BY <1>3, <1>4, <1>6, <1>8, SoIsGood
<1>9. CASE GtkDisasmClick(i, second, gutter)
  <2>1. view' = Partly(Page(v, engine'))
    BY <1>2, <1>5, <1>7, <1>9 DEF GtkDisasmClick
  <2> QED
    BY <1>8, <2>1, PartlyIs
<1>10. CASE KdeDisasmClick(i, second, gutter)
  <2> DEFINE s == Page(v, engine').seen \/ Toggles(second, gutter)
  <2>1. view' = [Page(v, engine') EXCEPT !.seen = s]
    BY <1>2, <1>5, <1>7, <1>10 DEF KdeDisasmClick
  <2>2. s \in BOOLEAN
    OBVIOUS
  <2> QED
    BY <1>8, <2>1, <2>2 DEF Refreshed
<1>11. CASE WinDisasmClick(i, second, gutter)
  <2>1. CASE Toggles(second, gutter)
    <3>1. view' = [Page(v, engine') EXCEPT !.seen = TRUE]
      BY <1>2, <1>5, <1>7, <1>11, <2>1 DEF WinDisasmClick
    <3> QED
      BY <1>8, <3>1 DEF Refreshed
  <2>2. CASE ~Toggles(second, gutter)
    <3>1. view' = v /\ engine' = engine
      BY <1>1, <1>2, <1>5, <1>11, <2>2 DEF WinDisasmClick, Toggled
    <3>2. v \in Views(fe, picked) /\ IdsKnown(v, engine)
      BY <1>6, SameViews, SameListKnows
    <3>3. engine.stopped /\ v.seen => Shows(fe, v, engine)
      BY <1>6
      DEF PagesInv, Good, Shows, CpuShows, LinesShow, PcShows, SameLines, SameList
    <3> QED
      BY <1>3, <3>1, <3>2, <3>3 DEF Kept, Good
  <2> QED
    BY <2>1, <2>2
<1>12. CASE MacDisasmClick(i, second, gutter)
  <2>1. view' = Partly(Page(v, engine'))
    BY <1>2, <1>5, <1>7, <1>12 DEF MacDisasmClick
  <2> QED
    BY <1>8, <2>1, PartlyIs
<1> QED
  BY <1>9, <1>10, <1>11, <1>12

(* F9. *)
LEMMA SelectedKeeps ==
  ASSUME AddrBounds, PagesBounds, PagesInv,
         GtkToggleSelected \/ KdeToggleSelected \/ WinToggleSelected \/ MacToggleSelected
  PROVE  Kept
<1> USE ViewHas
<1>1. /\ view.selected # NoAddr /\ UNCHANGED picked /\ wrong' = FALSE
      /\ Toggled(view.selected, TRUE)
  BY DEF GtkToggleSelected, KdeToggleSelected, WinToggleSelected, MacToggleSelected, SelectedHas
<1>2. view.selected \in Addr
  BY <1>1 DEF View
<1>3. Moves
  BY <1>1, <1>2, ToggleMoves
<1>4. CASE Synced
  BY <1>1, <1>3, <1>4, SyncedIsGood
<1>5. CASE MacToggleSelected
  <2>1. fe = "mac"
    BY <1>5 DEF MacToggleSelected
  <2>2. CASE view' = Partly(MacPage(view, engine'))
    <3>1. view' = Partly(Page(view, engine'))
      BY <2>1, <2>2, PagesAre
    <3> QED
      BY <1>1, <1>3, <3>1, PartlyIs, ViewIsGood
  <2>3. CASE view' = Partly(view)
    <3>1. view' = [view EXCEPT !.seen = view.seen /\ engine' = engine]
      BY <2>3 DEF Partly, View
    <3>2. CASE engine' = engine
      <4>1. (view.seen /\ engine' = engine) = view.seen
        BY <3>2 DEF View
      <4>2. view' = view
        BY <3>1, <4>1 DEF View
      <4> QED
        BY <1>1, <3>2, <4>2 DEF PagesInv, Kept
    <3>3. CASE engine' # engine
      <4>1. view' = [view EXCEPT !.seen = FALSE]
        BY <3>1, <3>3
      <4>2. view' \in View /\ SameLines(view', view) /\ SameList(view', view) /\ ~view'.seen
        BY <4>1 DEF View, SameLines, SameList
      <4> QED
        BY <1>1, <1>3, <4>2, UnseenIsGood
    <3> QED
      BY <3>2, <3>3
  <2> QED
    BY <1>5, <2>2, <2>3 DEF MacToggleSelected
<1> QED
  BY <1>4, <1>5 DEF GtkToggleSelected, KdeToggleSelected, WinToggleSelected, Synced

(* Run to Cursor. *)
LEMMA RunToKeeps ==
  ASSUME AddrBounds, PagesBounds, PagesInv,
         GtkRunToCursor \/ KdeRunToCursor \/ WinRunTo \/ MacRunToCursor
  PROVE  Kept
<1>1. engine' \in MovedOn(engine) /\ UNCHANGED picked /\ wrong' = FALSE
  BY ViewHas DEF GtkRunToCursor, KdeRunToCursor, WinRunTo, MacRunToCursor, RunTo, SelectedHas
<1>2. Moves
  BY <1>1, ViewHas, MovedOnEdits, EngineEdited
<1>3. Synced
  BY DEF GtkRunToCursor, KdeRunToCursor, WinRunTo, MacRunToCursor, Synced
<1> QED
  BY <1>1, <1>2, <1>3, SyncedIsGood

(* The lines move, by a jump or by the wheel. *)
LEMMA MovedKeeps ==
  ASSUME AddrBounds, PagesBounds, PagesInv, DisasmHas,
         NEW top \in Addr, NEW a \in Addr \cup {NoAddr},
         \/ fe = "gtk" /\ view' = GtkDisasmPage(Moved(top, a), engine)
         \/ fe = "kde" /\ view' = KdeDisasmPage(Moved(top, a), engine)
         \/ fe = "win" /\ view' = WinDisasmPage(Moved(top, a), engine)
         \/ fe = "mac" /\ view' = MacDisasmPage(Moved(top, a), engine)
  PROVE  Kept
<1>1. PICK v : v = Moved(top, a)
  OBVIOUS
<1>2. view.page = "disasm" /\ engine' = engine /\ UNCHANGED picked /\ wrong' = FALSE
  BY ViewHas DEF DisasmHas
<1>3. v \in View /\ SameLines(v, view) /\ SameList(v, view) /\ v.page = "disasm"
  BY <1>1, <1>2, MovedIs
<1>4. view' = Page(v, engine)
  BY <1>1, <1>3, PagesAre
<1> QED
  BY <1>2, <1>3, <1>4, EngineStays, SoIsGood DEF Refreshed

(* A jump to an address, or to a label. *)
LEMMA JumpsKeep ==
  ASSUME AddrBounds, PagesBounds, PagesInv, GtkJump \/ KdeJumpTo \/ WinJump \/ MacJumpTo
  PROVE  Kept
<1> USE ViewHas
<1>1. ASSUME NEW n \in Addr PROVE LabelFirst(engine, n) \in Addr
  BY NumberIs
<1>2. view.selected \in Addr \cup {NoAddr}
  BY DEF View
<1>3. CASE GtkJump
  <2>1. PICK n \in Addr : view' = GtkDisasmPage(Moved(LabelFirst(engine, n), view.selected), engine)
    BY <1>3 DEF GtkJump, GtkParseAddr
  <2> QED
    BY <1>1, <1>2, <1>3, <2>1, MovedKeeps DEF GtkJump
<1>4. CASE KdeJumpTo
  <2>1. PICK n \in Addr : view' = KdeDisasmPage(Moved(RowAddress(engine, LabelFirst(engine, n), -Above),
                                                     LabelFirst(engine, n)), engine)
    BY <1>4 DEF KdeJumpTo, KdeNumberOf
  <2>2. RowAddress(engine, LabelFirst(engine, n), -Above) \in Addr
    <3>1. -Above \in Int
      BY DEF PagesBounds
    <3> QED
      BY <1>1, <3>1, RowAddressType
  <2> QED
    BY <1>1, <1>4, <2>1, <2>2, MovedKeeps DEF KdeJumpTo
<1>5. CASE WinJump
  <2>1. PICK n \in Addr :
          view' = WinDisasmPage(Moved(LabelFirst(engine, n), LabelFirst(engine, n)), engine)
    BY <1>5 DEF WinJump, WinResolveAddr
  <2> QED
    BY <1>1, <1>5, <2>1, MovedKeeps DEF WinJump
<1>6. CASE MacJumpTo
  <2>1. PICK n \in Addr :
          view' = MacDisasmPage(Moved(LabelFirst(engine, n), LabelFirst(engine, n)), engine)
    BY <1>6 DEF MacJumpTo, MacEvaluate
  <2> QED
    BY <1>1, <1>6, <2>1, MovedKeeps DEF MacJumpTo
<1> QED
  BY <1>3, <1>4, <1>5, <1>6

(* The wheel. *)
LEMMA WheelKeeps ==
  ASSUME AddrBounds, PagesBounds, PagesInv, GtkDisasmScroll \/ KdeWheel \/ WinWheel \/ MacOnScroll
  PROVE  Kept
<1> USE ViewHas
<1>1. PICK by \in {-1, 1} :
        \/ fe = "gtk" /\ view' = GtkDisasmPage(Scrolled(by), engine)
        \/ fe = "kde" /\ view' = KdeDisasmPage(Scrolled(by), engine)
        \/ fe = "win" /\ view' = WinDisasmPage(Scrolled(by), engine)
        \/ fe = "mac" /\ view' = MacDisasmPage(Scrolled(by), engine)
  BY DEF GtkDisasmScroll, KdeWheel, WinWheel, MacOnScroll
<1>2. RowAddress(engine, view.top, by) \in Addr /\ view.selected \in Addr \cup {NoAddr}
  <2>1. view.top \in Addr /\ view.selected \in Addr \cup {NoAddr} /\ by \in Int
    BY DEF View
  <2> QED
    BY <2>1, RowAddressType
<1>3. DisasmHas
  BY DEF GtkDisasmScroll, KdeWheel, WinWheel, MacOnScroll
<1> QED
  BY <1>1, <1>2, <1>3, MovedKeeps DEF Scrolled

-----------------------------------------------------------------------------
(* The list of breakpoints. *)

(* Add. *)
LEMMA AddsKeep ==
  ASSUME AddrBounds, PagesBounds, PagesInv, NEW a \in Places,
         GtkBpAdd(a) \/ KdeAddBreakpoint(a) \/ WinBpAdd(a) \/ MacAddBreakpoint(a)
  PROVE  Kept
<1> USE ViewHas
<1>1. engine' = BpAdd(engine, a) /\ UNCHANGED picked /\ wrong' = FALSE
  BY DEF GtkBpAdd, KdeAddBreakpoint, WinBpAdd, MacAddBreakpoint, AddHas
<1>2. Moves
  BY <1>1, BpAddKeeps DEF AddrBounds, Addr, Moves
<1>3. (engine' = engine /\ view' = view) \/ Synced
  BY DEF GtkBpAdd, KdeAddBreakpoint, WinBpAdd, MacAddBreakpoint, Synced
<1>4. CASE engine' = engine /\ view' = view
  BY <1>1, <1>4, IdleIsGood
<1>5. CASE Synced
  BY <1>1, <1>2, <1>5, SyncedIsGood
<1> QED
  BY <1>3, <1>4, <1>5

(* Clear All. *)
LEMMA ClearsKeep ==
  ASSUME AddrBounds, PagesBounds, PagesInv, GtkBpClear \/ KdeBpClear \/ WinBpClear \/ MacClearBreaks
  PROVE  Kept
<1>1. engine' = BpClear(engine) /\ UNCHANGED picked /\ wrong' = FALSE
  BY ViewHas DEF GtkBpClear, KdeBpClear, WinBpClear, MacClearBreaks, ClearBps
<1>2. Moves
  BY <1>1, ViewHas, BpClearKeeps DEF Moves
<1>3. Synced
  BY DEF GtkBpClear, KdeBpClear, WinBpClear, MacClearBreaks, Synced
<1> QED
  BY <1>1, <1>2, <1>3, SyncedIsGood

(* A row's edit reaches the breakpoint the row shows. *)
LEMMA RowHits ==
  ASSUME PagesInv, NEW i, RowHas(i), Hits(view.list[i].id, view.list[i])
  PROVE  wrong' = FALSE
<1>1. RowsMatch(view) /\ i \in DOMAIN view.list
  BY ViewHas DEF Views, RowHas
<1>2. ASSUME NEW j \in DOMAIN engine.bp, engine.bp[j].id = view.list[i].id
      PROVE  view.list[i].start = engine.bp[j].start
  BY <1>1, <1>2, ViewHas DEF RowsMatch, IdsKnown
<1> QED
  BY <1>2, ViewHas DEF Hits

(* A row's box and its button. *)
LEMMA RowsKeep ==
  ASSUME AddrBounds, PagesBounds, PagesInv, NEW i,
         \/ GtkEnableToggled(i) \/ GtkRemoveClicked(i) \/ KdeItemChanged(i) \/ KdeRemove(i)
         \/ MacBpEnabled(i) \/ MacBpRemove(i) \/ WinItemChanged(i)
  PROVE  Kept
<1> USE ViewHas
<1>1. EnableRow(i, view.list[i].id) \/ RemoveRow(i, view.list[i].id)
  <2>1. WinItemChanged(i) => view.list[i].id = view.bps[i].id
    BY DEF WinItemChanged, RowHas, Views, RowsMatch
  <2> QED
    BY <2>1 DEF GtkEnableToggled, GtkRemoveClicked, KdeItemChanged, KdeRemove, MacBpEnabled,
                MacBpRemove, WinItemChanged
<1>2. RowHas(i) /\ Hits(view.list[i].id, view.list[i])
  BY <1>1 DEF EnableRow, RemoveRow
<1>3. UNCHANGED picked /\ wrong' = FALSE
  BY <1>2, RowHits DEF RowHas
<1>4. Moves
  <2>1. CASE EnableRow(i, view.list[i].id)
    <3>1. (~view.list[i].enabled) \in BOOLEAN
      OBVIOUS
    <3> QED
      BY <2>1, <3>1, BpEnableKeeps DEF EnableRow, Moves
  <2>2. CASE RemoveRow(i, view.list[i].id)
    BY <2>2, BpRemoveKeeps DEF RemoveRow, Moves
  <2> QED
    BY <1>1, <2>1, <2>2
<1>5. Synced
  BY DEF GtkEnableToggled, GtkRemoveClicked, KdeItemChanged, KdeRemove, MacBpEnabled, MacBpRemove,
         WinItemChanged, Synced
<1> QED
  BY <1>3, <1>4, <1>5, SyncedIsGood

(* On Windows a row is selected, and edited by its number. *)
LEMMA WinRowsKeep ==
  ASSUME AddrBounds, PagesBounds, PagesInv,
         (\E i \in DOMAIN view.list : WinSelectRow(i)) \/ WinBpRemove \/ WinRowOpened
  PROVE  Kept
<1> USE ViewHas
<1>0. RowsMatch(view) /\ SelMatches(fe, view, picked) /\ LinesMatch(view) /\ view.bps \in Seq(Bp)
  BY DEF Views, View
<1>1. ASSUME NEW i \in DOMAIN view.list, WinSelectRow(i) PROVE Kept
  <2>1. /\ fe = "win" /\ view' = [view EXCEPT !.sel = i] /\ picked' = view.list[i].id
        /\ engine' = engine /\ wrong' = FALSE /\ view.page = "breaks"
    BY <1>1 DEF WinSelectRow, ListHas
  <2>2. i \in DOMAIN view.bps /\ view.bps[i].id = view.list[i].id
    BY <1>0 DEF RowsMatch
  <2>3. i \in Nat
    BY <1>0, <2>2
  <2>4. /\ view' \in View /\ SameLines(view', view) /\ view'.list = view.list
        /\ view'.bps = view.bps /\ view'.sel = i /\ view'.page = view.page /\ view'.seen = view.seen
    BY <2>1, <2>3 DEF View, SameLines
  <2>5. LinesMatch(view') /\ RowsMatch(view') /\ SelMatches(fe, view', picked')
    BY <1>0, <2>1, <2>2, <2>4 DEF LinesMatch, SameLines, RowsMatch, SelMatches
  <2>6. IdsKnown(view', engine)
    BY <2>4 DEF IdsKnown
  <2>7. engine.stopped /\ view'.seen => Shows(fe, view', engine)
    BY <2>1, <2>4 DEF PagesInv, Good, Shows
  <2> QED
    BY <2>1, <2>4, <2>5, <2>6, <2>7 DEF Kept, Good, Views
<1>2. ASSUME BpSelected # 0
      PROVE  BpSelected = view.sel /\ view.sel \in DOMAIN view.bps /\ view.bps[view.sel].id = picked
  <2>1. BpSelected = view.sel /\ view.sel # 0
    BY <1>2 DEF BpSelected
  <2> QED
    BY <1>0, <2>1 DEF SelMatches
<1>3. CASE WinBpRemove
  <2>1. /\ fe = "win" /\ BpSelected # 0 /\ UNCHANGED picked /\ view' = WinSynced
        /\ engine' = BpRemove(engine, {view.bps[BpSelected].id})
        /\ wrong' = (wrong \/ view.bps[BpSelected].id # picked)
    BY <1>3 DEF WinBpRemove
  <2>2. wrong' = FALSE
    BY <1>2, <2>1
  <2>3. Moves
    BY <2>1, BpRemoveKeeps DEF Moves
  <2>4. Synced
    BY <2>1 DEF Synced
  <2> QED
    BY <2>1, <2>2, <2>3, <2>4, SyncedIsGood
<1>4. CASE WinRowOpened
  <2>1. PICK a : a = view.bps[BpSelected].start
    OBVIOUS
  <2>2. /\ fe = "win" /\ BpSelected # 0 /\ engine' = engine /\ UNCHANGED picked /\ wrong' = FALSE
        /\ view' = WinDisasmPage([Hidden(view) EXCEPT !.page = "disasm", !.follow = FALSE,
                                                      !.top = a, !.selected = a], engine)
    BY <1>4, <2>1 DEF WinRowOpened
  <2>3. a \in Addr
    <3>1. view.bps[BpSelected] \in Bp
      BY <1>0, <1>2, <2>2
    <3> QED
      BY <2>1, <3>1 DEF Bp
  <2> DEFINE o == RowOpened(view, a)
  <2>4. view' = WinDisasmPage(o, engine)
    BY <2>2 DEF RowOpened
  <2>5. o \in Views(fe, picked) /\ IdsKnown(o, engine) /\ o.page = "disasm"
    BY <2>3, OpenedIs
  <2> HIDE DEF o
  <2>6. o \in View
    BY <2>5 DEF Views
  <2>7. view' = Page(o, engine')
    BY <2>2, <2>4, <2>5, <2>6, PagesAre
  <2> QED
    BY <2>2, <2>5, <2>7, RefreshedIsGood DEF Kept, Refreshed
<1> QED
  BY <1>1, <1>3, <1>4

-----------------------------------------------------------------------------
(* The console and the symbols. *)
LEMMA ConsoleKeeps ==
  ASSUME AddrBounds, PagesBounds, PagesInv, GtkConsole \/ KdeRunConsole \/ WinConsole \/ MacRunCommand
  PROVE  Kept
<1>1. engine' \in Commands /\ UNCHANGED picked /\ wrong' = FALSE
  BY ViewHas DEF GtkConsole, KdeRunConsole, WinConsole, MacRunCommand, Console
<1>2. Moves
  BY <1>1, ViewHas, CommandsKeep DEF Moves
<1>3. Synced
  BY DEF GtkConsole, KdeRunConsole, WinConsole, MacRunCommand, Synced
<1> QED
  BY <1>1, <1>2, <1>3, SyncedIsGood

LEMMA SymbolsKeep ==
  ASSUME AddrBounds, PagesBounds, PagesInv,
         GtkLoadSymbols \/ KdeLoadSymbols \/ WinSymbols \/ MacLoadSymbols
  PROVE  Kept
<1>1. PICK as \in SUBSET Names : engine' = LoadSymbols(engine, as)
  BY DEF GtkLoadSymbols, KdeLoadSymbols, WinSymbols, MacLoadSymbols, LoadFile
<1>2. UNCHANGED picked /\ wrong' = FALSE
  BY ViewHas DEF GtkLoadSymbols, KdeLoadSymbols, WinSymbols, MacLoadSymbols, LoadFile
<1>3. Moves
  BY <1>1, ViewHas, LabelFileEdits, EngineEdited
<1>4. Synced
  BY DEF GtkLoadSymbols, KdeLoadSymbols, WinSymbols, MacLoadSymbols, Synced
<1> QED
  BY <1>2, <1>3, <1>4, SyncedIsGood

-----------------------------------------------------------------------------
(* Every step keeps the invariant. *)
LEMMA NextKeeps ==
  ASSUME AddrBounds, PagesBounds, PagesInv, PagesNext
  PROVE  Kept
<1>1. CASE Rest
  BY <1>1, RestKeeps
<1>2. CASE GtkNext
  BY <1>2, RegistersKeep, FlagKeeps, WritesKeep, GoToKeeps, ClicksKeep, SelectedKeeps, RunToKeeps,
     JumpsKeep, WheelKeeps, AddsKeep, ClearsKeep, RowsKeep, ConsoleKeeps, SymbolsKeep
  DEF GtkNext
<1>3. CASE KdeNext
  BY <1>3, RegistersKeep, FlagKeeps, WritesKeep, GoToKeeps, ClicksKeep, SelectedKeeps, RunToKeeps,
     JumpsKeep, WheelKeeps, AddsKeep, ClearsKeep, RowsKeep, ConsoleKeeps, SymbolsKeep
  DEF KdeNext
<1>4. CASE WinNext
  BY <1>4, RegistersKeep, FlagKeeps, WritesKeep, GoToKeeps, ClicksKeep, SelectedKeeps, RunToKeeps,
     JumpsKeep, WheelKeeps, AddsKeep, ClearsKeep, RowsKeep, WinRowsKeep, ConsoleKeeps, SymbolsKeep
  DEF WinNext
<1>5. CASE MacNext
  BY <1>5, RegistersKeep, FlagKeeps, WritesKeep, GoToKeeps, ClicksKeep, SelectedKeeps, RunToKeeps,
     JumpsKeep, WheelKeeps, AddsKeep, ClearsKeep, RowsKeep, ConsoleKeeps, SymbolsKeep
  DEF MacNext
<1> QED
  BY <1>1, <1>2, <1>3, <1>4, <1>5 DEF PagesNext

(* ... and a start has it. *)
LEMMA PagesStart == ASSUME AddrBounds, PagesBounds, PagesInit PROVE PagesInv
<1> DEFINE raw == [stopped |-> TRUE, pc |-> 0, carry |-> 0, fetched |-> 0, behind |-> FALSE,
                   mem |-> [a \in Addr |-> IF a \in Rom THEN 1 ELSE 0], bp |-> <<>>,
                   next_id |-> 1, user |-> {}, file |-> {}]
<1>1. 0 \in Addr /\ {} \in SUBSET Names
  BY DEF Addr, AddrBounds
<1>2. raw \in EngineType
  <2>1. [a \in Addr |-> IF a \in Rom THEN 1 ELSE 0] \in [Addr -> Byte]
    BY DEF Byte
  <2>2. <<>> \in Seq(Bp) /\ 0 \in Byte
    BY DEF Byte
  <2> QED
    BY <1>1, <2>1, <2>2 DEF EngineType
<1>3. raw.bp = <<>>
  OBVIOUS
<1>4. AtReset = RefreshFetch(raw)
  BY DEF AtReset
<1> HIDE DEF raw
<1>5. raw.mem[raw.pc] \in Byte
  BY <1>2 DEF EngineType
<1>6. /\ AtReset \in EngineType /\ AtReset.bp = <<>>
      /\ AtReset.fetched = AtReset.mem[AtReset.pc]
  BY <1>2, <1>3, <1>4, <1>5 DEF RefreshFetch, EngineType
<1>7. engine \in Engines /\ engine.bp = <<>>
  BY <1>6 DEF PagesInit, Engines, IdsAreOnce, RunsWhat
<1> DEFINE zs == [r \in Regs |-> 0]
<1>8. zs \in Entries /\ zs \in [Regs -> Int]
  BY <1>1 DEF Entries, Regs
<1>9. view = [page |-> "none", seen |-> FALSE,
             entry |-> zs, put |-> zs, stale |-> {},
             focus |-> "none", flag |-> 0, base |-> 0, cell |-> 0,
             follow |-> TRUE, top |-> 0, selected |-> NoAddr, text |-> <<>>,
             line_addr |-> <<>>, picture |-> <<>>, list |-> <<>>, bps |-> <<>>, sel |-> 0]
  BY DEF PagesInit
<1> HIDE DEF zs
<1>10. view \in View /\ view.seen = FALSE /\ view.text = <<>> /\ view.line_addr = <<>>
       /\ view.list = <<>> /\ view.bps = <<>> /\ view.sel = 0
  <2>1. <<>> \in Seq(LineType) /\ <<>> \in Seq(RowType) /\ <<>> \in Seq(Bp)
        /\ <<>> \in Seq(Addr \cup {NoAddr}) /\ 0 \in Byte /\ 0 \in Nat /\ {} \in SUBSET Regs
        /\ <<>> \in {<<>>} \cup [Screen -> Byte]
    BY DEF Byte
  <2> QED
    BY <1>1, <1>8, <1>9, <2>1 DEF View
<1>11. view \in Views(fe, picked)
  BY <1>10 DEF Views, LinesMatch, RowsMatch, SelMatches
<1>12. IdsKnown(view, engine)
  BY <1>10 DEF IdsKnown
<1> QED
  BY <1>7, <1>10, <1>11, <1>12 DEF PagesInv, Good, PagesInit, FrontEnds

(* Two rows that differ in their label at most. *)
LEMMA UnlabelledIs ==
  ASSUME NEW x \in RowType, NEW y \in RowType,
         x.id = y.id, x.start = y.start, x.enabled = y.enabled
  PROVE  [x EXCEPT !.label = FALSE] = [y EXCEPT !.label = FALSE]
BY DEF RowType

(* ... and in particular: *)
LEMMA PagesSay == ASSUME PagesBounds, PagesInv PROVE EditsHitWhatIsShown
<1> USE ViewHas
<1>1. RunsWhatIsThere
  BY DEF Engines, RunsWhat, RunsWhatIsThere
<1>2. PageIsTrue
  <2> SUFFICES ASSUME engine.stopped, view.seen
               PROVE  /\ view.page = "cpu" => CpuShows(view, engine)
                      /\ view.page = "disasm" => LinesShow(view, engine)
                                                 /\ (view.follow /\ LedTo(engine) => PcShows(view))
                      /\ view.page = "video" => view.picture = Snapshot(engine)
                      /\ view.page = "breaks" => Unlabelled(view.list) = Unlabelled(Rows(engine, Table))
    BY DEF PageIsTrue, CpuShows, LinesShow, PcShows
  <2>1. Shows(fe, view, engine)
    BY DEF PagesInv, Good
  <2>2. LedTo(engine) = Led(fe, engine)
    BY DEF LedTo, Led
  <2>3. ASSUME view.page = "breaks" PROVE Unlabelled(view.list) = Unlabelled(Rows(engine, Table))
    <3>1. view.bps = Table
      BY <2>1, <2>3 DEF Shows, TableOf, Table
    <3>2. PICK t \in Seq(Bp) : t = Table
      BY <3>1 DEF View
    <3>3. PICK filled : filled = Rows(engine, t)
      OBVIOUS
    <3>4. DOMAIN filled = DOMAIN t /\ \A i \in DOMAIN t : filled[i] = Row(engine, t[i])
      BY <3>3 DEF Rows
    <3>5. RowsMatch(view) /\ view.list \in Seq(RowType)
      BY DEF Views, View
    <3>6. DOMAIN view.list = DOMAIN filled
      BY <3>1, <3>2, <3>4, <3>5 DEF RowsMatch
    <3>7. ASSUME NEW i \in DOMAIN filled
          PROVE  [view.list[i] EXCEPT !.label = FALSE] = [filled[i] EXCEPT !.label = FALSE]
      <4>1. view.list[i] \in RowType /\ t[i] \in Bp
        BY <3>4, <3>5, <3>6
      <4>2. /\ view.list[i].id = t[i].id /\ view.list[i].start = t[i].start
            /\ view.list[i].enabled = t[i].enabled
        BY <3>1, <3>2, <3>4, <3>5 DEF RowsMatch
      <4>3. filled[i] = Row(engine, t[i])
        BY <3>4
      <4>4. PICK y : y = filled[i]
        OBVIOUS
      <4>5. (fe = "mac" /\ Labelled(engine, t[i].start)) \in BOOLEAN
        OBVIOUS
      <4>6. /\ y \in RowType /\ y.id = t[i].id /\ y.start = t[i].start
            /\ y.enabled = t[i].enabled
        BY <4>1, <4>3, <4>4, <4>5 DEF Row, RowType, Bp
      <4>7. PICK x \in RowType : x = view.list[i]
        BY <4>1
      <4> QED
        BY <4>2, <4>4, <4>6, <4>7, UnlabelledIs
    <3> QED
      BY <3>2, <3>3, <3>6, <3>7 DEF Unlabelled
  <2> QED
    BY <2>1, <2>2, <2>3 DEF Shows
<1> QED
  BY <1>1, <1>2 DEF EditsHitWhatIsShown

(* Whatever the user edits, clicks, scrolls or types while the machine runs  *)
(* and stops, in each front end: an edit reaches the address or the          *)
(* breakpoint that its line or row showed; the page of a stopped machine     *)
(* that was refreshed for is the engine's; and what was edited is what runs  *)
(* next (the four debugger windows, core/debugger/debugger.c).               *)
THEOREM EditsHitTheirRow ==
  ASSUME AddrBounds, PagesBounds
  PROVE  PagesSpec => []EditsHitWhatIsShown
<1>1. PagesInit => PagesInv
  BY PagesStart
<1>2. PagesInv /\ [PagesNext]_pages => PagesInv'
  <2> SUFFICES ASSUME PagesInv, [PagesNext]_pages PROVE PagesInv'
    OBVIOUS
  <2>1. CASE PagesNext
    <3>1. Kept /\ fe' = fe
      BY <2>1, NextKeeps DEF PagesNext
    <3>2. fe \in FrontEnds
      BY DEF PagesInv
    <3> QED
      BY <3>1, <3>2 DEF Kept, PagesInv
  <2>2. CASE UNCHANGED pages
    BY <2>2 DEF pages, PagesInv
  <2> QED
    BY <2>1, <2>2
<1>3. PagesInv => EditsHitWhatIsShown
  BY PagesSay
<1> QED
  BY <1>1, <1>2, <1>3, PTL DEF PagesSpec
=============================================================================
