------------------------------ MODULE KeysWin ------------------------------
(***************************************************************************)
(* The key path and the Controllers window of Windows                      *)
(* (frontends/windows/main.c, keypad/keypad_window.c). The panel captures  *)
(* the mouse, and lets go when the capture is taken from it. With Alt down *)
(* a key is a system key, whose press and release no window handles.       *)
(***************************************************************************)
EXTENDS Panel

\* astro_controllers_key: Map mode first, then the bindings.
astro_controllers_key(k) ==
  \/ g_map_state # Idle /\ MapKey(k) /\ UNCHANGED holds
  \/ g_map_state = Idle /\ Press(k) /\ UNCHANGED mapping

\* WM_KILLFOCUS of either window
MoveFocus(window) ==
  /\ focus' = window
  /\ IF window = focus THEN UNCHANGED holds ELSE ReleaseAll

\* release_mouse_hold, with the keys let go too when the focus moves
HidesHolding(window) ==
  /\ g_held_keysym' = IF window = focus THEN g_held_keysym ELSE Unheld
  /\ missed' = IF window = focus THEN missed ELSE {}
  /\ panel' = panel \ {g_down}
  /\ UNCHANGED slipped

\* WM_SHOWWINDOW of a window that is hidden
Hide ==
  /\ visible' = FALSE /\ mouse' = NoTarget /\ g_down' = NoTarget
  /\ LeaveMap
  /\ focus' \in IF focus = "panel" THEN {"main", "away"} ELSE {focus}
  /\ HidesHolding(focus')

\* astro_controllers_toggle
Toggle ==
  IF visible THEN Hide
  ELSE /\ visible' = TRUE
       /\ \E window \in {focus, "panel"} : MoveFocus(window)
       /\ UNCHANGED <<mouse, g_down, mapping>>

\* WM_KEYDOWN of the main window: while the panel shows, Map mode and the
\* bindings take F9 too.
MainKeyDown(k) ==
  IF k = F9 /\ ~(visible /\ Takes(k)) THEN Toggle
  ELSE astro_controllers_key(k) /\ UNCHANGED <<focus, mouse, visible, g_down>>

\* ... of the panel
PanelKeyDown(k) ==
  IF Takes(k) \/ k # F9 THEN astro_controllers_key(k) /\ UNCHANGED <<focus, mouse, visible, g_down>>
  ELSE Hide

KeyDown(k) ==
  /\ k \notin down /\ down' = down \cup {k}
  /\ IF mod = "alt" \/ focus = "away"
     THEN UNCHANGED <<focus, mouse, visible, g_down, mapping, holds>>
     ELSE IF focus = "main" THEN MainKeyDown(k) ELSE PanelKeyDown(k)
  /\ UNCHANGED mod

\* WM_KEYUP; there is no handler of WM_SYSKEYUP.
KeyUp(k) ==
  /\ k \in down /\ down' = down \ {k}
  /\ IF focus = "away" THEN UNCHANGED holds
     ELSE IF mod = "alt" THEN Keyboard(g_held_keysym, {k})
     ELSE Release(k)
  /\ UNCHANGED <<mod, focus, mouse, visible, g_down, mapping>>

FocusTo(window) ==
  /\ window # focus /\ (window = "panel" => visible)
  /\ MoveFocus(window)
  /\ UNCHANGED <<down, mod, mouse, visible, g_down, mapping>>

\* WM_CLOSE, and the menu
Close ==
  /\ visible /\ Hide
  /\ UNCHANGED <<down, mod>>

Open ==
  /\ ~visible /\ focus = "main" /\ Toggle
  /\ UNCHANGED <<down, mod>>

\* WM_LBUTTONDOWN
MouseDown(t) ==
  /\ Clicks /\ g_map_state = Idle
  /\ mouse' = t /\ g_down' = t
  /\ IF t \in SysActs \cup KnobTargets THEN UNCHANGED holds ELSE Holds(t)
  /\ UNCHANGED <<down, mod, focus, visible, mapping>>

\* release_mouse_hold
ReleaseMouseHold(inside) ==
  /\ g_down' = NoTarget
  /\ IF g_down \in Targets \ KnobTargets THEN LetsGo(g_down, inside) ELSE UNCHANGED holds

\* WM_LBUTTONUP; WM_CAPTURECHANGED, which is not inside of anything
MouseUp(inside) ==
  /\ mouse # NoTarget /\ mouse' = NoTarget
  /\ ReleaseMouseHold(inside)
  /\ UNCHANGED <<down, mod, focus, visible, mapping>>

\* The rest of Map mode is the same everywhere.
Picks(t) == (Pick(t) \/ PickedAlready(t)) /\ UNCHANGED g_down
MapButtons == ToggleMap \/ ClearPicked \/ Defaults
capture_poll == CapturePoll

Next ==
  \/ \E k \in Keysyms : KeyDown(k) \/ KeyUp(k)
  \/ \E window \in {"main", "panel", "away"} : FocusTo(window)
  \/ \E t \in Targets : MouseDown(t)
  \/ \E inside \in BOOLEAN : MouseUp(inside)
  \/ Close \/ Open
  \/ Modifier({"none", "ctrl", "alt"})
  \/ (\E t \in Targets : Picks(t)) \/ MapButtons \/ capture_poll \/ Pads

Spec == Init /\ [][Next]_vars
=============================================================================
