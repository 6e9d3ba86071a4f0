------------------------------- MODULE Prefs -------------------------------
(***************************************************************************)
(* The Preferences of the four front ends, the import of a BIOS and what   *)
(* either does to the machine (frontends/gnome/prefs.c, window.c,          *)
(* kde/SettingsDialog.cpp, MainWindow.cpp, windows/prefs.c, import.c,      *)
(* main.c, macos/SettingsWindow.m, AppDelegate.m; core/src/roms.c).        *)
(*                                                                         *)
(* Some choices are stored as they are made, some when the window closes;  *)
(* the machine is restarted once it has closed. Meanwhile the window's     *)
(* timer may restart it (RESET TO CONFIG from a pad), and on Windows and   *)
(* macOS, where the Preferences are not modal, so may the menus. A file    *)
(* chooser is: an import is one step, when its files have been chosen. The *)
(* RAM expansion goes the way of the BIOS, and is left out. Session has    *)
(* the steps of a start, the file of the settings and the FujiNet.         *)
(***************************************************************************)
EXTENDS Integers

CONSTANT Bioses       \* the variants, by their numbers

PrefsBounds == Bioses \subseteq Nat /\ Bioses # {}

VARIABLES
  front,          \* the front end
  stored,         \* the settings, in memory
  imported,       \* the BIOSes in the ROM directory
  runs,           \* a machine runs,
  machine,        \* started with these
  failed,         \* history: a machine with a BIOS to boot could not start
  page,           \* what the main window shows: the picture, or No BIOS
  prefs,          \* "closed", "open", or on macOS "closing"
  widgets,        \* what its choices say
  dirty,
  rows,           \* the BIOSes that its list says are imported
  behind          \* history: an import from the menu, beside the open window

prefsVars == <<front, stored, imported, runs, machine, failed, page, prefs, widgets,
               dirty, rows, behind>>

Texts == {"", "another", "wrong"}       \* the default address, another, none at all
Chosen == [bios : Bioses, external : BOOLEAN, address : Texts]

\* astrosession_parse_hostport accepts it
IsAddress(text) == text # "wrong"

-----------------------------------------------------------------------------
(* The BIOS, and the start of a machine. *)

\* astrosession_resolve_bios: the chosen one, or else the first there is
Resolve(wanted, there) ==
  IF wanted \in there THEN wanted
  ELSE CHOOSE b \in there : \A other \in there : b <= other

\* roms_any_available, and the page that shows it
MainPage == IF imported = {} THEN "no bios" ELSE "picture"

FujiNet(settings) == IF settings.external THEN settings.address ELSE "built in"

NoMachine == [bios |-> 0, had |-> {}, fujinet |-> "built in"]

\* astrosession_start, with astrosession_default_opts of what is stored now
Start ==
  \/ /\ imported' = {}
     /\ runs' = FALSE /\ machine' = NoMachine /\ failed' = FALSE
  \/ /\ imported' # {}
     /\ runs' = FALSE /\ machine' = NoMachine /\ failed' = TRUE
  \/ /\ imported' # {}
     /\ stored'.external => IsAddress(stored'.address)
     /\ runs' = TRUE /\ failed' = FALSE
     /\ machine' = [bios |-> Resolve(stored'.bios, imported'), had |-> imported',
                    fujinet |-> FujiNet(stored')]

\* restart_session of every front end
Restart == Start /\ page' = MainPage'

\* ... which start_machine calls when none runs, and there is a BIOS
StartMachine ==
  IF ~runs /\ imported' # {} THEN Restart
  ELSE page' = MainPage' /\ UNCHANGED <<runs, machine, failed>>

-----------------------------------------------------------------------------
(* astrosession_rom_import. *)

\* take: every BIOS found is written in its place. The file is emptied first, and
\* what cannot be written is no BIOS, even where there was one.
Take(found, spoilt) == imported' = (imported \cup found) \ spoilt

\* Files or a folder chosen from the menu or the No BIOS page, with a BIOS among them
\* or none
Import(found, spoilt) ==
  /\ Take(found, spoilt)
  /\ behind' = (prefs = "open" /\ (behind \/ imported' # imported))
  /\ UNCHANGED <<front, stored, prefs, widgets, dirty, rows>>
  /\ StartMachine

\* on_bios_chosen and importBios: under the Preferences there is no menu, and a
\* chooser that was cancelled starts the machine, too.
ImportFromMenuGtk(found, spoilt) == prefs = "closed" /\ Import(found, spoilt)
ImportFromMenuKde(found, spoilt) == prefs = "closed" /\ Import(found, spoilt)
\* astro_import_bios and importBiosURLs: beside the Preferences
ImportFromMenuWin(found, spoilt) == prefs \in {"closed", "open"} /\ Import(found, spoilt)
ImportFromMenuMac(found, spoilt) == Import(found, spoilt)

ImportFromMenu(found, spoilt) ==
  \/ front = "gtk" /\ ImportFromMenuGtk(found, spoilt)
  \/ front = "kde" /\ ImportFromMenuKde(found, spoilt)
  \/ front = "win" /\ ImportFromMenuWin(found, spoilt)
  \/ front = "mac" /\ ImportFromMenuMac(found, spoilt)

\* The page of the Preferences, as its window draws it again: what is imported, and
\* the BIOS that is stored,
Listed == rows' = imported' /\ behind' = FALSE
RefreshGtk(said) == Listed /\ widgets' = [said EXCEPT !.bios = stored'.bios]
RefreshWin(said) == Listed /\ widgets' = [said EXCEPT !.bios = stored'.bios]
RefreshMac(said) == Listed /\ widgets' = [said EXCEPT !.bios = stored'.bios]
\* ... or the one that it said.
RefreshKde(said) == Listed /\ widgets' = said

\* An import on it: the page says it, the machine waits.
FromPage(found, spoilt) ==
  /\ prefs = "open"
  /\ Take(found, spoilt)
  /\ page' = MainPage'
  /\ UNCHANGED <<front, stored, runs, machine, failed, prefs, dirty>>

\* on_rom_chosen, importRoms, import_roms
ImportFromPageGtk(found, spoilt) == FromPage(found, spoilt) /\ RefreshGtk(widgets)
ImportFromPageKde(found, spoilt) == FromPage(found, spoilt) /\ RefreshKde(widgets)
ImportFromPageWin(found, spoilt) == FromPage(found, spoilt) /\ RefreshWin(widgets)
ImportFromPageMac(found, spoilt) == FromPage(found, spoilt) /\ RefreshMac(widgets)

ImportFromPage(found, spoilt) ==
  \/ front = "gtk" /\ ImportFromPageGtk(found, spoilt)
  \/ front = "kde" /\ ImportFromPageKde(found, spoilt)
  \/ front = "win" /\ ImportFromPageWin(found, spoilt)
  \/ front = "mac" /\ ImportFromPageMac(found, spoilt)

\* astrosession_load_cart: from the menu, or by RESET TO CONFIG at any time
LoadCart ==
  /\ UNCHANGED <<front, stored, imported, page, prefs, widgets, dirty, rows, behind>>
  /\ Start

-----------------------------------------------------------------------------
(* The Preferences' choices. *)

\* They open with what is stored, and say what is imported. On Windows and macOS
\* those that are open come to the front.
Opened ==
  /\ prefs = "closed"
  /\ prefs' = "open" /\ dirty' = FALSE
  /\ UNCHANGED <<front, stored, imported, runs, machine, failed, page>>

\* astro_prefs_show, SettingsDialog::run, showForSession
OpenGtk == Opened /\ RefreshGtk(stored)
OpenKde == Opened /\ RefreshKde(stored)
OpenWin == Opened /\ RefreshWin(stored)
OpenMac == Opened /\ RefreshMac(stored)

Open ==
  \/ front = "gtk" /\ OpenGtk
  \/ front = "kde" /\ OpenKde
  \/ front = "win" /\ OpenWin
  \/ front = "mac" /\ OpenMac

beside == <<front, imported, runs, machine, failed, page, prefs, rows, behind>>

\* Faulty: what is stored as it is chosen is not a change any more when they close.
StoreQuietly(new) ==
  /\ stored' = new
  /\ UNCHANGED dirty

\* stored as it is chosen
Store(new) ==
  /\ stored' = new
  /\ dirty' = (dirty \/ new # stored)

Shown(b) == widgets.bios # b /\ widgets' = [widgets EXCEPT !.bios = b]
Ticked == widgets' = [widgets EXCEPT !.external = ~@]
\* The entry can be edited while the FujiNet is external.
Typed(text) ==
  widgets.external /\ widgets.address # text /\ widgets' = [widgets EXCEPT !.address = text]

\* combo_changed, external_toggled, and addr_changed at every letter
ChooseGtk(b) ==
  Shown(b) /\ Store([stored EXCEPT !.bios = b]) /\ UNCHANGED beside
ToggleGtk ==
  Ticked /\ Store([stored EXCEPT !.external = widgets'.external]) /\ UNCHANGED beside
TypeGtk(text) ==
  /\ Typed(text)
  /\ IF IsAddress(text) THEN Store([stored EXCEPT !.address = text])
     ELSE UNCHANGED <<stored, dirty>>
  /\ UNCHANGED beside

\* KDE stores nothing before OK.
EditKde ==
  /\ (\E b \in Bioses : Shown(b)) \/ Ticked \/ \E text \in Texts : Typed(text)
  /\ UNCHANGED <<stored, dirty, beside>>

\* CBN_SELCHANGE; the tick and the text wait for WM_CLOSE.
ChooseWin(b) ==
  Shown(b) /\ Store([stored EXCEPT !.bios = b]) /\ UNCHANGED beside
EditWin ==
  /\ Ticked \/ \E text \in Texts : Typed(text)
  /\ UNCHANGED <<stored, dirty, beside>>

\* choiceChanged and externalToggled; the text is stored when it has been edited.
ChooseMac(b) ==
  Shown(b) /\ Store([stored EXCEPT !.bios = b]) /\ UNCHANGED beside
ToggleMac ==
  Ticked /\ Store([stored EXCEPT !.external = widgets'.external]) /\ UNCHANGED beside
TypeMac(text) ==
  Typed(text) /\ UNCHANGED <<stored, dirty, beside>>
\* externalAddrValid
StoreAddressMac ==
  IF IsAddress(widgets.address) THEN Store([stored EXCEPT !.address = widgets.address])
  ELSE UNCHANGED <<stored, dirty>>
CommitMac ==
  StoreAddressMac /\ UNCHANGED <<widgets, beside>>

Edit ==
  /\ prefs = "open"
  /\ \/ /\ front = "gtk"
        /\ (\E b \in Bioses : ChooseGtk(b)) \/ ToggleGtk \/ \E text \in Texts : TypeGtk(text)
     \/ front = "kde" /\ EditKde
     \/ front = "win" /\ ((\E b \in Bioses : ChooseWin(b)) \/ EditWin)
     \/ /\ front = "mac"
        /\ \/ \E b \in Bioses : ChooseMac(b)
           \/ ToggleMac \/ CommitMac
           \/ \E text \in Texts : TypeMac(text)

-----------------------------------------------------------------------------
(* They close. *)

Closed == prefs' = "closed" /\ dirty' = FALSE /\ rows' = {} /\ behind' = FALSE

\* What changed restarts the machine, and a BIOS that was imported starts it.
Applied == IF dirty THEN Restart ELSE StartMachine

\* on_closed
CloseGtk ==
  /\ Closed
  /\ UNCHANGED <<front, stored, imported, widgets>>
  /\ Applied

\* An address that is none keeps them open.
Refused == widgets.external /\ ~IsAddress(widgets.address)

\* showSettings: OK, or Cancel
CloseKde ==
  \/ /\ ~Refused
     /\ stored' = widgets
     /\ Closed /\ UNCHANGED <<front, imported, widgets>>
     /\ IF stored' # stored THEN Restart ELSE StartMachine
  \/ /\ Closed /\ UNCHANGED <<front, stored, imported, widgets>>
     /\ StartMachine

\* WM_CLOSE, and prefs_closed: the text is stored also where it is not used.
CloseWin ==
  /\ ~Refused
  /\ stored' = widgets
  /\ Closed /\ UNCHANGED <<front, imported, widgets>>
  /\ IF dirty \/ stored' # stored THEN Restart ELSE StartMachine

\* windowShouldClose and windowWillClose. The text is stored, if it is an address
\* and was still being edited or the FujiNet is external, and the machine waits for
\* the main queue.
CloseMac ==
  /\ ~Refused
  /\ StoreAddressMac \/ (~widgets.external /\ UNCHANGED <<stored, dirty>>)
  /\ prefs' = "closing"
  /\ UNCHANGED <<front, imported, runs, machine, failed, page, widgets, rows, behind>>
ClosedMac ==
  /\ Closed
  /\ UNCHANGED <<front, stored, imported, widgets>>
  /\ Applied

Close ==
  \/ /\ prefs = "open"
     /\ \/ front = "gtk" /\ CloseGtk
        \/ front = "kde" /\ CloseKde
        \/ front = "win" /\ CloseWin
        \/ front = "mac" /\ CloseMac
  \/ prefs = "closing" /\ ClosedMac

-----------------------------------------------------------------------------
\* main, whose start failed if there was anything to boot; the settings were edited
\* by hand, or by another front end.
PrefsInit ==
  /\ front \in {"gtk", "kde", "win", "mac"}
  /\ stored \in Chosen /\ imported \in SUBSET Bioses
  /\ runs = FALSE /\ machine = NoMachine
  /\ failed = (imported # {})
  /\ page = MainPage
  /\ prefs = "closed" /\ widgets = stored /\ dirty = FALSE
  /\ rows = {} /\ behind = FALSE

PrefsNext ==
  \/ \E found, spoilt \in SUBSET Bioses :
       /\ spoilt \subseteq found
       /\ ImportFromMenu(found, spoilt) \/ ImportFromPage(found, spoilt)
  \/ LoadCart
  \/ Open \/ Edit \/ Close

PrefsSpec == PrefsInit /\ [][PrefsNext]_prefsVars

-----------------------------------------------------------------------------
\* Once the Preferences have closed, the machine that runs is the one that the
\* settings name (of the BIOSes that were there when it started), and one runs
\* where there is a BIOS, unless it could not start; whatever restarted it, or was
\* imported or lost, in between. The main window shows No BIOS when there is none,
\* and the Preferences' list what is imported, unless it came from a menu.
PrefsAreApplied ==
  /\ prefs = "closed" =>
       /\ runs => /\ machine.bios = Resolve(stored.bios, machine.had)
                  /\ machine.fujinet = FujiNet(stored)
       /\ ~runs => imported = {} \/ failed
  /\ page = MainPage
  /\ prefs = "open" => rows = imported \/ behind
=============================================================================
