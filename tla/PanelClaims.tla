----------------------------- MODULE PanelClaims -----------------------------
(***************************************************************************)
(* Small instances of GNOME's and KDE's Controllers windows in which what  *)
(* the sources say of keys, controls and captures is not so: Panel's       *)
(* properties without their exceptions. The two programs run side by side  *)
(* and share nothing; GNOME's variables have Panel's names, KDE's a prefix.*)
(***************************************************************************)
EXTENDS KeysGtk

CONSTANT Programs    \* those that run, of gtk and kde

VARIABLES
  kde_key, kde_pad, kde_saved_key, kde_saved_pad, kde_down, kde_mod, kde_focus,
  kde_mouse, kde_visible, kde_map_state, kde_pressed, kde_labels, kde_panel,
  kde_held_keysym, kde_armed, kde_have, kde_id, kde_catching, kde_missed,
  kde_slipped, kde_overtaken

kde == <<kde_key, kde_pad, kde_saved_key, kde_saved_pad, kde_down, kde_mod,
         kde_focus, kde_mouse, kde_visible, kde_map_state, kde_pressed, kde_labels,
         kde_panel, kde_held_keysym, kde_armed, kde_have, kde_id, kde_catching,
         kde_missed, kde_slipped, kde_overtaken>>

Kde == INSTANCE KeysKde WITH
  s_key <- kde_key, s_pad <- kde_pad, saved_key <- kde_saved_key,
  saved_pad <- kde_saved_pad, down <- kde_down, mod <- kde_mod, focus <- kde_focus,
  mouse <- kde_mouse, visible <- kde_visible, g_map_state <- kde_map_state,
  g_down <- kde_pressed, labels <- kde_labels, panel <- kde_panel,
  g_held_keysym <- kde_held_keysym, s_capture_armed <- kde_armed,
  s_capture_have <- kde_have, s_capture_id <- kde_id, catching <- kde_catching,
  missed <- kde_missed, slipped <- kde_slipped, overtaken <- kde_overtaken

\* The key is the one target's.
ClaimsKey == [t \in Targets |-> CHOOSE k \in Keysyms : TRUE]
ClaimsPad == [t \in Targets |-> NoPad]
ClaimsScope == [t \in Targets |-> EveryPad]

ClaimsInit == Init /\ Kde!Init
ClaimsNext ==
  \/ "gtk" \in Programs /\ Next /\ UNCHANGED kde
  \/ "kde" \in Programs /\ Kde!Next /\ UNCHANGED vars
ClaimsSpec == ClaimsInit /\ [][ClaimsNext]_<<vars, kde>>

-----------------------------------------------------------------------------
(* GNOME: a key holds a target only while it is down ("Both press and      *)
(* release are forwarded").                                                *)
KeysAreLetGo == HeldKeys(g_held_keysym) \subseteq down

(* KDE: a control of the panel is held only while the mouse is down on it  *)
(* ("releasing off the button (or losing the grab) still releases").       *)
ControlsAreLetGo == kde_panel \subseteq {kde_mouse}

(* A press is let go of in at least one of the two programs: what refutes  *)
(* this refutes both claims at once, NothingSticks without its exceptions. *)
OneLetsGo == KeysAreLetGo \/ ControlsAreLetGo

(* Map mode waits for a target only while the pads' thread captures for it,   *)
(* or has captured ("guarded by the poll thread; simple flags suffice"):      *)
(* MapModeIsTrue's clause on waiting, without its exception.                  *)
WaitsForCapture ==
  g_map_state \in Targets => s_capture_armed \/ s_capture_have \/ catching = "have"
=============================================================================
