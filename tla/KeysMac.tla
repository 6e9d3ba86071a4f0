------------------------------ MODULE KeysMac ------------------------------
(***************************************************************************)
(* The key path and the Controllers window of macOS                        *)
(* (frontends/macos/AstroKeyForward.m, DisplayView.m,                      *)
(* keypad/KeypadWindow.m). No release comes of a key that is let go while  *)
(* Command is down. A modifier says nothing of which of its two keys moved *)
(* but by its code, and of the flag only whether one of them is down. The  *)
(* display lets go when another view of its window gets the keys, and not  *)
(* when another window does. Command with K, a menu item, shows and hides  *)
(* the panel. Ctrl, which does what it does elsewhere, is left out.        *)
(***************************************************************************)
EXTENDS Panel

CONSTANT Shifts    \* the two keys of a modifier

\* AstroForwardKeyEvent: Map mode first, then the bindings.
AstroForwardKeyEvent(k) ==
  \/ g_map_state # Idle /\ MapKey(k) /\ UNCHANGED holds
  \/ g_map_state = Idle /\ Press(k) /\ UNCHANGED mapping

MoveFocus(window) ==
  /\ focus' = window
  /\ IF focus = "panel" /\ window # "panel" THEN ReleaseAll ELSE UNCHANGED holds

\* orderOut, which takes the focus away, and stop
Hide ==
  /\ visible' = FALSE /\ mouse' = NoTarget /\ g_down' = NoTarget
  /\ LeaveMap
  /\ focus' \in IF focus = "panel" THEN {"main", "away"} ELSE {focus}
  /\ g_held_keysym' = IF focus = "panel" THEN Unheld ELSE g_held_keysym
  /\ missed' = IF focus = "panel" THEN {} ELSE missed
  /\ panel' = panel \ {g_down}
  /\ UNCHANGED slipped

\* keyDown: Map mode comes before a key with Command, and that before the machine;
\* a modifier, in flagsChanged, does not look for Command.
KeyDown(k) ==
  /\ k \notin down /\ down' = down \cup {k}
  /\ IF focus = "away" \/ (mod = "cmd" /\ k \notin Shifts /\ g_map_state = Idle)
     THEN UNCHANGED <<mapping, holds>> ELSE AstroForwardKeyEvent(k)
  /\ UNCHANGED <<mod, focus, mouse, visible, g_down>>

\* keyUp
KeyUp(k) ==
  /\ k \in down \ Shifts /\ down' = down \ {k}
  /\ IF focus = "away" \/ mod = "cmd" THEN Keyboard(g_held_keysym, {k}) ELSE Release(k)
  /\ UNCHANGED <<mod, focus, mouse, visible, g_down, mapping>>

\* AstroForwardModifierEvent for a key let go: with the other still down it is
\* taken for a press, by Map mode too.
ModifierUp(k) ==
  /\ k \in Shifts \cap down /\ down' = down \ {k}
  /\ IF focus = "away" THEN Keyboard(g_held_keysym, {k}) /\ UNCHANGED mapping
     ELSE IF Shifts \cap down = {k} THEN Release(k) /\ UNCHANGED mapping
     ELSE IF g_map_state # Idle THEN MapKey(k) /\ Keyboard(g_held_keysym, {k})
     ELSE /\ g_held_keysym' = [t \in Targets |-> IF t \in BoundTo(k) THEN k ELSE g_held_keysym[t]]
          /\ missed' = (missed \cup {k}) \cap HeldKeys(g_held_keysym')
          /\ UNCHANGED <<panel, slipped, mapping>>
  /\ UNCHANGED <<mod, focus, mouse, visible, g_down>>

\* The panel resigns the keys; the display does not say so.
FocusTo(window) ==
  /\ window # focus /\ (window = "panel" => visible)
  /\ MoveFocus(window)
  /\ UNCHANGED <<down, mod, mouse, visible, g_down, mapping>>

\* toggleForSession; NSWindowWillCloseNotification
Close ==
  /\ visible /\ Hide
  /\ UNCHANGED <<down, mod>>

Open ==
  /\ ~visible /\ visible' = TRUE /\ focus # "away"
  /\ MoveFocus("panel")
  /\ UNCHANGED <<down, mod, mouse, g_down, mapping>>

\* mouseDown
MouseDown(t) ==
  /\ Clicks /\ g_map_state = Idle
  /\ mouse' = t /\ g_down' = t
  /\ IF t \in SysActs \cup KnobTargets THEN UNCHANGED holds ELSE Holds(t)
  /\ UNCHANGED <<down, mod, focus, visible, mapping>>

\* releaseMouseHold, for mouseUp
MouseUp(inside) ==
  /\ mouse # NoTarget /\ mouse' = NoTarget
  /\ g_down' = NoTarget
  /\ IF g_down \in Targets \ KnobTargets THEN LetsGo(g_down, inside) ELSE UNCHANGED holds
  /\ UNCHANGED <<down, mod, focus, visible, mapping>>

\* The rest of Map mode is the same everywhere.
Picks(t) == (Pick(t) \/ PickedAlready(t)) /\ UNCHANGED g_down
MapButtons == ToggleMap \/ ClearPicked \/ Defaults
poll == CapturePoll

Next ==
  \/ \E k \in Keysyms : KeyDown(k) \/ KeyUp(k) \/ ModifierUp(k)
  \/ \E window \in {"main", "panel", "away"} : FocusTo(window)
  \/ \E t \in Targets : MouseDown(t)
  \/ \E inside \in BOOLEAN : MouseUp(inside)
  \/ Close \/ Open
  \/ Modifier({"none", "cmd"})
  \/ (\E t \in Targets : Picks(t)) \/ MapButtons \/ poll \/ Pads

Spec == Init /\ [][Next]_vars
=============================================================================
