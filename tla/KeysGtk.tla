------------------------------ MODULE KeysGtk ------------------------------
(***************************************************************************)
(* The key path and the Controllers window of GNOME                        *)
(* (frontends/gnome/window.c, keypad/keypad_window.c). GTK repeats a key   *)
(* press while the key is down. The main window has keys of its own, and   *)
(* forwards neither their press nor their release.                         *)
(***************************************************************************)
EXTENDS Panel

CONSTANT KeyR    \* with Ctrl the main window's shortcut

\* astro_window_input_key: Map mode first, then the bindings.
astro_window_input_key(k) ==
  \/ g_map_state # Idle /\ MapKey(k) /\ UNCHANGED holds
  \/ g_map_state = Idle /\ Press(k) /\ UNCHANGED mapping

\* Where the focus goes from the panel, or stays: a window that loses it lets go.
MoveFocus(window) ==
  /\ focus' = window
  /\ IF window = focus THEN UNCHANGED holds ELSE ReleaseAll

\* on_unmap; the gesture of a control that is held is cancelled.
Hide ==
  /\ visible' = FALSE /\ mouse' = NoTarget
  /\ LeaveMap
  /\ focus' \in IF focus = "panel" THEN {"main", "away"} ELSE {focus}
  /\ g_held_keysym' = IF focus = "panel" THEN Unheld ELSE g_held_keysym
  /\ missed' = IF focus = "panel" THEN {} ELSE missed
  /\ panel' = panel \ {mouse}
  /\ UNCHANGED slipped

Toggle ==
  IF visible THEN Hide
  ELSE /\ visible' = TRUE
       /\ \E window \in {focus, "panel"} : MoveFocus(window)
       /\ UNCHANGED <<mouse, mapping>>

\* on_key_pressed of the main window: Map mode takes any key.
MainKeyDown(k) ==
  IF visible /\ g_map_state # Idle THEN MapKey(k) /\ UNCHANGED <<focus, mouse, visible, holds>>
  ELSE IF k = F9 THEN Toggle
  ELSE IF k = KeyR /\ mod = "ctrl" THEN UNCHANGED <<focus, mouse, visible, mapping, holds>>
  ELSE astro_window_input_key(k) /\ UNCHANGED <<focus, mouse, visible>>

\* ... of the panel: Map mode and the bindings, then F9.
PanelKeyDown(k) ==
  IF Takes(k) \/ k # F9 THEN astro_window_input_key(k) /\ UNCHANGED <<focus, mouse, visible>> ELSE Toggle

KeyDown(k) ==
  /\ down' = down \cup {k}
  /\ \/ focus = "main" /\ MainKeyDown(k)
     \/ focus = "panel" /\ PanelKeyDown(k)
     \/ focus = "away" /\ UNCHANGED <<focus, mouse, visible, mapping, holds>>
  /\ UNCHANGED <<mod, g_down>>

\* on_key_released: the main window drops the release of its own keys, and of R
\* if Ctrl went down after it, which then stays held (PanelClaims!OneLetsGo).
Drops(k) == focus = "main" /\ (k = F9 \/ (k = KeyR /\ mod = "ctrl"))

KeyUp(k) ==
  /\ k \in down /\ down' = down \ {k}
  /\ IF focus = "away" THEN UNCHANGED holds
     ELSE IF Drops(k) THEN Keyboard(g_held_keysym, {k} \ {F9})
     ELSE Release(k)
  /\ UNCHANGED <<mod, focus, mouse, visible, g_down, mapping>>

\* on_focus_leave, on_active_changed
FocusTo(window) ==
  /\ window # focus /\ (window = "panel" => visible)
  /\ MoveFocus(window)
  /\ UNCHANGED <<down, mod, mouse, visible, g_down, mapping>>

\* on_close, and the menu
Close ==
  /\ visible /\ Hide
  /\ UNCHANGED <<down, mod, g_down>>

Open ==
  /\ ~visible /\ focus = "main" /\ Toggle
  /\ UNCHANGED <<down, mod, g_down>>

\* on_pressed of a control, on_dial_begin of a dial
MouseDown(t) ==
  /\ Clicks /\ g_map_state = Idle
  /\ mouse' = t
  /\ IF t \in SysActs \cup KnobTargets THEN UNCHANGED holds ELSE Holds(t)
  /\ UNCHANGED <<down, mod, focus, visible, g_down, mapping>>

\* on_released; on_cancelled, when it is dragged off
MouseUp(t, inside) ==
  /\ mouse = t /\ mouse' = NoTarget
  /\ IF g_map_state = Idle /\ t \notin KnobTargets THEN LetsGo(t, inside)
     ELSE UNCHANGED holds
  /\ UNCHANGED <<down, mod, focus, visible, g_down, mapping>>

\* The rest of Map mode is the same everywhere.
Picks(t) == (Pick(t) \/ PickedAlready(t)) /\ UNCHANGED g_down
MapButtons == ToggleMap \/ ClearPicked \/ Defaults
capture_poll == CapturePoll

Next ==
  \/ \E k \in Keysyms : KeyDown(k) \/ KeyUp(k)
  \/ \E window \in {"main", "panel", "away"} : FocusTo(window)
  \/ \E t \in Targets : MouseDown(t) \/ (\E inside \in BOOLEAN : MouseUp(t, inside))
  \/ Close \/ Open
  \/ Modifier({"none", "ctrl"})
  \/ (\E t \in Targets : Picks(t)) \/ MapButtons \/ capture_poll \/ Pads

Spec == Init /\ [][Next]_vars
=============================================================================
