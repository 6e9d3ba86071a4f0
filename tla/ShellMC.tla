------------------------------- MODULE ShellMC -------------------------------
(***************************************************************************)
(* The program around the machine, for TLC, one part at a time: Session,   *)
(* Gamepad, the Controllers windows and key paths of the four front ends,  *)
(* and the pages of their debugger's window. A behaviour chooses the part  *)
(* that moves, among Parts; the others stay where they begin.              *)
(*                                                                         *)
(* Session is two parts: in "session" the preferences are opened and a     *)
(* connection has one request, in "link" it has all that Session's bounds  *)
(* allow and the preferences stay closed. The pads are one player's, with  *)
(* a button and an axis. The panels have a trigger, which the user maps, a *)
(* dial, which takes an axis only, and Reset Game; a letter that is also a *)
(* shortcut with Ctrl, F9, and on macOS the two keys of a modifier; on     *)
(* GNOME and Windows the dial is mapped as well. The pages have three      *)
(* addresses, one of ROM and one of screen RAM, two rows of disassembly    *)
(* and two breakpoints, and a user who works on a few things: the topics.  *)
(***************************************************************************)
EXTENDS Gamepad, Session, DebugPages, TLC

CONSTANTS
  Parts,           \* the parts of a run
  game, trigger1, trigger2, knob1, player1, player2, backspace,
  KeyR, F9, LeftShift, RightShift

VARIABLES
  part,
  keys, pads, kept_keys, kept_pads, down, mod, focus, mouse, visible, g_map_state,
  g_down, labels, panel, g_held_keysym, catching, missed, slipped, overtaken

MCTargets == {game, trigger1, trigger2, knob1}
MCScope == (trigger1 :> player1) @@ (knob1 :> player1) @@ (trigger2 :> player2)
           @@ [t \in MCTargets |-> EveryPad]
MCDefaultKey == (game :> backspace) @@ [t \in MCTargets |-> NoKey]
MCDefaultPad == (trigger1 :> 0) @@ (trigger2 :> 0) @@ (knob1 :> 130) @@ [t \in MCTargets |-> NoPad]

PanelTargets == {trigger1, knob1, game}
PanelScope == [t \in PanelTargets |-> MCScope[t]]
PanelKey == [t \in PanelTargets |-> IF t = trigger1 THEN KeyR ELSE NoKey]
PanelPad == [t \in PanelTargets |-> MCDefaultPad[t]]
Mapped == {trigger1, knob1}
MappedKey == {trigger1}

Gtk == INSTANCE KeysGtk WITH
  Targets <- PanelTargets, scope_of <- PanelScope, DefaultKey <- PanelKey,
  DefaultPad <- PanelPad, Keysyms <- {KeyR, F9}, ResetGame <- game, Editable <- Mapped,
  s_key <- keys, s_pad <- pads, saved_key <- kept_keys, saved_pad <- kept_pads
Kde == INSTANCE KeysKde WITH
  Targets <- PanelTargets, scope_of <- PanelScope, DefaultKey <- PanelKey,
  DefaultPad <- PanelPad, Keysyms <- {KeyR, F9}, ResetGame <- game, Editable <- MappedKey,
  s_key <- keys, s_pad <- pads, saved_key <- kept_keys, saved_pad <- kept_pads
Win == INSTANCE KeysWin WITH
  Targets <- PanelTargets, scope_of <- PanelScope, DefaultKey <- PanelKey,
  DefaultPad <- PanelPad, Keysyms <- {KeyR, F9}, ResetGame <- game, Editable <- Mapped,
  s_key <- keys, s_pad <- pads, saved_key <- kept_keys, saved_pad <- kept_pads
Mac == INSTANCE KeysMac WITH
  Targets <- PanelTargets, scope_of <- PanelScope, DefaultKey <- PanelKey,
  DefaultPad <- PanelPad, Keysyms <- {KeyR, LeftShift, RightShift},
  Shifts <- {LeftShift, RightShift}, ResetGame <- game, Editable <- MappedKey,
  s_key <- keys, s_pad <- pads, saved_key <- kept_keys, saved_pad <- kept_pads

MCSpells == 1 :> 2
MCTopics ==
  {{"cpu", "video", "edits"}, {"cpu", "runs"}, {"cpu", "labels"},
   {"video", "edits", "runs"}, {"disasm", "edits"}, {"disasm", "runs"},
   {"disasm", "moves", "labels"}, {"breaks", "disasm"}, {"breaks", "runs"}}
ASSUME PartsInstance == Gtk!PanelBounds /\ AddrBounds /\ PagesBounds

\* what the panels do not share with the pads
panelOnly == <<keys, pads, kept_keys, kept_pads, down, mod, focus, mouse, visible,
               g_map_state, g_down, labels, panel, g_held_keysym, catching, missed,
               slipped, overtaken>>
padOnly == <<bindingsVars, world, slots, sysact_pending, map_state>>

Panels == {"gtk", "kde", "win", "mac"}
Sessions == {"session", "link"}

\* a session, and pages, that do not move
SessionRests == disk = NoFile
PagesRest == fe = "gtk" /\ topics = {"cpu", "runs"}

ShellInit ==
  /\ part \in Parts
  /\ GamepadInit /\ Gtk!Init
  /\ Init /\ (part \notin Sessions => SessionRests)
  /\ PagesInit /\ (part # "pages" => PagesRest)

OneRequest == request' <= 1 /\ pushes' = 0
SessionMoves ==
  /\ Next
  /\ IF part = "session" THEN OneRequest ELSE ~dialog'

PanelMoves ==
  \/ part = "gtk" /\ Gtk!Next
  \/ part = "kde" /\ Kde!Next
  \/ part = "win" /\ Win!Next
  \/ part = "mac" /\ Mac!Next

ShellNext ==
  /\ UNCHANGED part
  /\ \/ part \in Sessions /\ SessionMoves /\ UNCHANGED <<gamepadVars, panelOnly, pages>>
     \/ part = "pads" /\ GamepadNext /\ UNCHANGED <<vars, panelOnly, pages>>
     \/ part \in Panels /\ PanelMoves /\ UNCHANGED <<vars, padOnly, pages>>
     \/ part = "pages" /\ PagesNext /\ UNCHANGED <<vars, gamepadVars, panelOnly>>

ShellSpec == ShellInit /\ [][ShellNext]_<<part, vars, gamepadVars, panelOnly, pages>>

-----------------------------------------------------------------------------
(* The panels' properties, by their names. *)

\* Panel: nothing stays held that nobody holds.
NothingSticks == part \in Panels => Gtk!NothingSticks
\* Panel: Map mode waits, captures and shows what it says.
MapModeIsTrue == part \in Panels => Gtk!MapModeIsTrue
=============================================================================
