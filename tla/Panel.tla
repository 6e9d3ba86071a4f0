------------------------------- MODULE Panel -------------------------------
(***************************************************************************)
(* The Controllers window and the way of a key into the machine, of the    *)
(* four front ends: what they have in common. Two windows take keys, the   *)
(* main one and the panel; both hand them to Map mode first, which binds   *)
(* them, and else to the machine. A control of the panel is held while the *)
(* mouse holds it. Map mode waits for a click on a control (Armed) or for  *)
(* an input for the one picked (a target), and has the pads' thread        *)
(* capture theirs.                                                         *)
(*                                                                         *)
(* A handler of the GUI thread is one step. The poll thread of the pads    *)
(* stores a captured input in three steps without a lock                   *)
(* (core/src/gamepad_sdl.c). Each front end's own module says which events *)
(* reach which handler, and which never do. Left out: the knob a dial      *)
(* turns (Input has it), and what is lit.                                  *)
(***************************************************************************)
EXTENDS Bindings

CONSTANTS
  SysActs, ResetGame,  \* the system actions, and the one that resets the game
  KnobTargets,         \* the dials
  Buttons,             \* the pad inputs that are no axes
  NoTarget,
  Editable,            \* targets the user maps, in an instance
  F9                   \* the key that shows and hides the panel

VARIABLES
  (* the user *)
  down,            \* the keys
  mod,             \* the modifier that is down
  focus,           \* main, panel, away
  mouse,           \* the control the mouse button went down on
  (* the panel *)
  visible, g_map_state,
  g_down,          \* the control it believes pressed
  labels,          \* the faces, or the bindings as last drawn
  (* the session *)
  panel,           \* what the panel holds
  g_held_keysym,   \* the key that holds each target
  s_capture_armed, s_capture_have, s_capture_id,
  catching,        \* the poll thread's next store: none, have, armed
  (* history *)
  missed,          \* held keys whose release the front end did not see or dropped
  slipped,         \* held controls whose release was lost
  overtaken        \* the last store came after the capture had begun again

user == <<down, mod, focus, mouse>>
capture == <<s_capture_armed, s_capture_have, s_capture_id, catching, overtaken>>
mapping == <<bindingsVars, g_map_state, labels, capture>>
holds == <<panel, g_held_keysym, missed, slipped>>
vars == <<user, visible, g_down, mapping, holds>>

Idle == "idle"
Armed == "armed"
Faces == <<>>

PanelBounds == Targets \cap {NoTarget, Idle, Armed} = {}

TypeOK ==
  /\ BindingsTypeOK
  /\ down \subseteq Keysyms /\ mod \in {"none", "ctrl", "alt", "cmd"}
  /\ focus \in {"main", "panel", "away"} /\ visible \in BOOLEAN
  /\ {mouse, g_down} \subseteq Targets \cup {NoTarget}
  /\ g_map_state \in Targets \cup {Idle, Armed}
  /\ panel \subseteq Targets /\ g_held_keysym \in [Targets -> Keysyms \cup {NoKey}]
  /\ s_capture_armed \in BOOLEAN /\ s_capture_have \in BOOLEAN
  /\ s_capture_id \in PadInputs \cup {NoPad} /\ catching \in {"none", "have", "armed"}
  /\ missed \subseteq Keysyms /\ slipped \subseteq Targets /\ overtaken \in BOOLEAN

Unheld == [t \in Targets |-> NoKey]

Init ==
  /\ BindingsInit
  /\ down = {} /\ mod = "none" /\ focus = "main" /\ mouse = NoTarget
  /\ visible = FALSE /\ g_map_state = Idle /\ g_down = NoTarget /\ labels = Faces
  /\ panel = {} /\ g_held_keysym = Unheld
  /\ s_capture_armed = FALSE /\ s_capture_have = FALSE /\ s_capture_id = NoPad
  /\ catching = "none"
  /\ missed = {} /\ slipped = {} /\ overtaken = FALSE

-----------------------------------------------------------------------------
(* The pads' thread: an input goes over its threshold while capture is armed. *)
PadTest(i) ==
  /\ s_capture_armed /\ catching = "none"
  /\ s_capture_id' = i /\ catching' = "have"
  /\ UNCHANGED <<user, visible, g_down, bindingsVars, g_map_state, labels,
                 s_capture_armed, s_capture_have, overtaken, holds>>

PadHave ==
  /\ catching = "have"
  /\ s_capture_have' = TRUE /\ catching' = "armed"
  /\ UNCHANGED <<user, visible, g_down, bindingsVars, g_map_state, labels,
                 s_capture_armed, s_capture_id, overtaken, holds>>

PadDone ==
  /\ catching = "armed"
  /\ s_capture_armed' = FALSE /\ catching' = "none"
  /\ overtaken' = ~s_capture_have
  /\ UNCHANGED <<user, visible, g_down, bindingsVars, g_map_state, labels,
                 s_capture_have, s_capture_id, holds>>

Pads == (\E i \in PadInputs : PadTest(i)) \/ PadHave \/ PadDone

\* An id nobody will read is forgotten, in the model.
Forgets == s_capture_id' = IF catching = "have" THEN s_capture_id ELSE NoPad

CaptureBegin ==
  /\ s_capture_have' = FALSE /\ s_capture_armed' = TRUE /\ overtaken' = FALSE
  /\ Forgets /\ UNCHANGED catching

CaptureCancel ==
  /\ s_capture_have' = FALSE /\ s_capture_armed' = FALSE /\ overtaken' = FALSE
  /\ Forgets /\ UNCHANGED catching

-----------------------------------------------------------------------------
(* What the handlers call. *)

\* refresh_labels, or the paint a repaint leads to
Refresh == labels' = IF g_map_state' = Idle THEN Faces ELSE <<s_key', s_pad'>>

SetMapState(state) ==
  /\ g_map_state' = state
  /\ IF state \in Targets THEN CaptureBegin ELSE CaptureCancel
  /\ Refresh

\* Map mode swallows a key while a target is to be chosen, and one for a dial.
MapKey(k) ==
  \/ g_map_state \in {Armed} \cup KnobTargets /\ UNCHANGED mapping
  \/ /\ g_map_state \in Targets \ KnobTargets
     /\ SetKeysym(g_map_state, k) /\ SetMapState(Armed)

HeldKeys(held) == {held[t] : t \in Targets} \ {NoKey}

\* The keyboard's holds are now held, and the releases of lost were not seen.
Keyboard(held, lost) ==
  /\ g_held_keysym' = held
  /\ missed' = (missed \cup lost) \cap HeldKeys(held)
  /\ UNCHANGED <<panel, slipped>>

\* astrosession_input_key
Plays(k) == mod # "ctrl" /\ BoundTo(k) # {}
Press(k) ==
  /\ g_held_keysym' = [t \in Targets |-> IF Plays(k) /\ t \in BoundTo(k) THEN k
                                         ELSE g_held_keysym[t]]
  /\ missed' = (missed \ {k}) \cap HeldKeys(g_held_keysym')
  /\ UNCHANGED <<panel, slipped>>
Without(k) == [t \in Targets |-> IF g_held_keysym[t] = k THEN NoKey ELSE g_held_keysym[t]]
Release(k) == Keyboard(Without(k), {})
ReleaseAll == Keyboard(Unheld, {})

\* The key path the windows share consumes a key.
Takes(k) == g_map_state # Idle \/ Plays(k)

\* astrosession_press
Holds(t) == panel' = panel \cup {t} /\ UNCHANGED <<g_held_keysym, missed, slipped>>

\* ... let go; a system action fires instead, and to reset the game lets go of all.
LetsGo(t, fires) ==
  IF t \in SysActs
  THEN IF fires /\ t = ResetGame
       THEN panel' = {} /\ slipped' = {} /\ g_held_keysym' = Unheld /\ missed' = {}
       ELSE UNCHANGED holds
  ELSE /\ panel' = panel \ {t} /\ slipped' = slipped \ {t}
       /\ UNCHANGED <<g_held_keysym, missed>>

-----------------------------------------------------------------------------
(* What the user does alike everywhere. *)

Modifier(mods) ==
  /\ mod' \in mods \ {mod}
  /\ UNCHANGED <<down, focus, mouse, visible, g_down, mapping, holds>>

\* A click on a control activates the panel before it gets there.
Clicks == visible /\ focus = "panel" /\ mouse = NoTarget

\* Armed, a click picks; with a target picked it does nothing. What a control
\* makes of the press itself (g_down) is the front end's.
Pick(t) ==
  /\ Clicks /\ g_map_state = Armed /\ t \in Editable
  /\ mouse' = t
  /\ UNCHANGED <<down, mod, focus, visible, bindingsVars, holds>>
  /\ SetMapState(t)

PickedAlready(t) ==
  /\ Clicks /\ g_map_state \in Targets
  /\ mouse' = t
  /\ UNCHANGED <<down, mod, focus, visible, mapping, holds>>

\* The Map button
ToggleMap ==
  /\ Clicks
  /\ UNCHANGED <<user, visible, g_down, bindingsVars, holds>>
  /\ SetMapState(IF g_map_state = Idle THEN Armed ELSE Idle)

\* Clear takes the key and the pad input of the picked control.
ClearPicked ==
  /\ Clicks /\ g_map_state \in Targets
  /\ Clear(g_map_state) /\ SetMapState(Armed)
  /\ UNCHANGED <<user, visible, g_down, holds>>

Defaults ==
  /\ Clicks
  /\ UNCHANGED <<user, visible, g_down, g_map_state, capture, holds>>
  /\ ResetDefaults /\ Refresh

\* Faulty: the capture a dial refused is not begun again.
CapturePollOnce ==
  /\ visible /\ g_map_state \in Targets /\ s_capture_have
  /\ IF g_map_state \in KnobTargets /\ s_capture_id \in Buttons
     THEN /\ s_capture_have' = FALSE
          /\ UNCHANGED <<bindingsVars, g_map_state, labels, s_capture_armed, s_capture_id,
                         catching, overtaken>>
     ELSE SetPad(g_map_state, s_capture_id) /\ SetMapState(Armed)
  /\ UNCHANGED <<user, visible, g_down, holds>>

\* The timer, with a target picked: a button cannot turn a knob.
CapturePoll ==
  /\ visible /\ g_map_state \in Targets /\ s_capture_have
  /\ IF g_map_state \in KnobTargets /\ s_capture_id \in Buttons
     THEN CaptureBegin /\ UNCHANGED <<bindingsVars, g_map_state, labels>>
     ELSE SetPad(g_map_state, s_capture_id) /\ SetMapState(Armed)
  /\ UNCHANGED <<user, visible, g_down, holds>>

\* Leaving Map mode as the panel is hidden.
LeaveMap == IF g_map_state = Idle THEN UNCHANGED mapping
            ELSE UNCHANGED bindingsVars /\ SetMapState(Idle)

-----------------------------------------------------------------------------
\* Nothing sticks in the machine: a key holds a target only while it is down,
\* whichever windows it was pressed and let go over and whatever was mapped in
\* between ("keys held into a focus change must not stay down"), and a control of
\* the panel only while the mouse holds it ("cannot leave the machine believing it
\* is held forever"). It holds but for the releases that a front end drops or is not
\* given, which its own module names (missed, slipped): those refute the claims of
\* the sources, and PanelClaims!OneLetsGo is violated by them.
NothingSticks ==
  /\ HeldKeys(g_held_keysym) \subseteq down \cup missed
  /\ panel \subseteq {mouse} \cup slipped

\* Map mode is what it looks: what it shows is the table, a target it waits for
\* will be told of the next pad input, and otherwise, and once the panel is
\* hidden, no capture keeps an input from the game. It holds but for a capture begun
\* again between two stores of the pads' thread (overtaken), which is then lost:
\* that refutes "simple flags suffice", and PanelClaims!WaitsForCapture is violated.
MapModeIsTrue ==
  /\ labels = IF g_map_state = Idle THEN Faces ELSE <<s_key, s_pad>>
  /\ g_map_state \in Targets =>
       visible /\ (s_capture_armed \/ s_capture_have \/ catching = "have" \/ overtaken)
  /\ s_capture_armed => g_map_state \in Targets
  /\ g_map_state # Idle => visible
=============================================================================
