------------------------------ MODULE KeysKde ------------------------------
(***************************************************************************)
(* The key path and the Controllers window of KDE                          *)
(* (frontends/kde/MainWindow.cpp, KeyForward.cpp,                          *)
(* keypad/KeypadWindow.cpp). The main window lets go of the keys only when *)
(* the panel does not get the focus. A button emits its press and its      *)
(* release, wherever the mouse is by then; Qt may lose the release of one  *)
(* that is hidden.                                                         *)
(***************************************************************************)
EXTENDS Panel

\* astroForwardKey: Map mode first, then the bindings.
astroForwardKey(k) ==
  \/ g_map_state # Idle /\ MapKey(k) /\ UNCHANGED holds
  \/ g_map_state = Idle /\ Press(k) /\ UNCHANGED mapping

\* Faulty: the main window keeps its holds for any window of the program's.
MoveFocusKeeping(window) ==
  /\ focus' = window
  /\ IF focus = "panel" /\ window # "panel" THEN ReleaseAll ELSE UNCHANGED holds

\* changeEvent of the window that loses the focus
MoveFocus(window) ==
  /\ focus' = window
  /\ IF window = focus \/ (focus = "main" /\ window = "panel") THEN UNCHANGED holds
     ELSE ReleaseAll

\* hideEvent; the button that is down stays so.
Hide ==
  /\ visible' = FALSE
  /\ LeaveMap
  /\ \/ focus = "panel" /\ \E window \in {"main", "away"} : MoveFocus(window)
     \/ focus # "panel" /\ UNCHANGED <<focus, holds>>

\* setVisible
Toggle ==
  IF visible THEN Hide
  ELSE /\ visible' = TRUE
       /\ \E window \in {focus, "panel"} : MoveFocus(window)
       /\ UNCHANGED mapping

\* keyPressEvent of the main window: F9 first, its repeats included.
MainKeyDown(k) ==
  IF k = F9 THEN Toggle
  ELSE /\ IF k \in down THEN UNCHANGED <<mapping, holds>> ELSE astroForwardKey(k)
       /\ UNCHANGED <<focus, visible>>

\* ... of the panel: Map mode and the bindings, then F9.
PanelKeyDown(k) ==
  IF k \in down THEN UNCHANGED <<focus, visible, mapping, holds>>
  ELSE IF Takes(k) \/ k # F9 THEN astroForwardKey(k) /\ UNCHANGED <<focus, visible>>
  ELSE Hide

KeyDown(k) ==
  /\ down' = down \cup {k}
  /\ \/ focus = "main" /\ MainKeyDown(k)
     \/ focus = "panel" /\ PanelKeyDown(k)
     \/ focus = "away" /\ UNCHANGED <<focus, visible, mapping, holds>>
  /\ UNCHANGED <<mod, mouse, g_down>>

KeyUp(k) ==
  /\ k \in down /\ down' = down \ {k}
  /\ IF focus = "away" THEN UNCHANGED holds ELSE Release(k)
  /\ UNCHANGED <<mod, focus, mouse, visible, g_down, mapping>>

FocusTo(window) ==
  /\ window # focus /\ (window = "panel" => visible)
  /\ MoveFocus(window)
  /\ UNCHANGED <<down, mod, mouse, visible, g_down, mapping>>

Close ==
  /\ visible /\ Hide
  /\ UNCHANGED <<down, mod, mouse, g_down>>

Open ==
  /\ ~visible /\ focus = "main" /\ Toggle
  /\ UNCHANGED <<down, mod, mouse, g_down>>

\* mousePressEvent of a button, and press; of a dial, which a drag turns
MouseDown(t) ==
  /\ Clicks /\ g_map_state = Idle
  /\ mouse' = t
  /\ g_down' = IF t \in KnobTargets THEN g_down ELSE t
  /\ IF t \in SysActs \cup KnobTargets THEN UNCHANGED holds ELSE Holds(t)
  /\ UNCHANGED <<down, mod, focus, visible, mapping>>

\* mouseReleaseEvent, on the button or off it
MouseUp(t) ==
  /\ mouse = t /\ mouse' = NoTarget
  /\ g_down' = IF t = g_down THEN NoTarget ELSE g_down
  /\ IF t = g_down /\ g_map_state = Idle THEN LetsGo(t, TRUE) ELSE UNCHANGED holds
  /\ UNCHANGED <<down, mod, focus, visible, mapping>>

\* ... which may never come, to a button hidden since it was pressed: no handler of a
\* hidden button or a lost grab lets go of it (PanelClaims!OneLetsGo).
MouseUpLost ==
  /\ ~visible /\ mouse # NoTarget
  /\ mouse' = NoTarget /\ slipped' = (slipped \cup {mouse}) \cap panel
  /\ UNCHANGED <<down, mod, focus, visible, g_down, mapping, panel, g_held_keysym, missed>>

\* Map mode; a button is pressed for it too (m_down), and should F9 have hidden the
\* panel by the release, that is one of the control.
Picks(t) ==
  /\ Pick(t) \/ PickedAlready(t)
  /\ g_down' = IF t \in KnobTargets THEN g_down ELSE t
MapButtons == ToggleMap \/ ClearPicked \/ Defaults
capturePoll == CapturePoll

Next ==
  \/ \E k \in Keysyms : KeyDown(k) \/ KeyUp(k)
  \/ \E window \in {"main", "panel", "away"} : FocusTo(window)
  \/ \E t \in Targets : MouseDown(t) \/ MouseUp(t)
  \/ MouseUpLost \/ Close \/ Open
  \/ Modifier({"none", "ctrl"})
  \/ (\E t \in Targets : Picks(t)) \/ MapButtons \/ capturePoll \/ Pads

Spec == Init /\ [][Next]_vars
=============================================================================
