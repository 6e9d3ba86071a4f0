------------------------------ MODULE Gamepad ------------------------------
(***************************************************************************)
(* The poll thread of core/src/gamepad_sdl.c, the table it resolves pad     *)
(* inputs with, and Map mode, which captures an input and binds it.         *)
(*                                                                          *)
(* A device is opened when it is found in a slot and closed when the slot   *)
(* has another, or none. One step polls one slot, with what the device has  *)
(* down: what is bound is held, and a system action is posted. An axis is a *)
(* level: down above a half, "over" the capture threshold of 0.6 either     *)
(* way. The D-pad and the left stick, which steer without a binding, and    *)
(* the knob's axis are left out; Input has what their values do.            *)
(***************************************************************************)
EXTENDS Bindings, Integers

CONSTANTS
  SysActs,          \* the system actions among the targets
  KnobTargets,      \* the players' KNOB targets, which follow an axis
  Buttons, Axes,    \* the pad inputs, as numbers
  Devices, NoDevice,
  NoTarget,
  Seated,           \* players with a pad, in an instance
  Editable          \* targets the user maps, in an instance

Levels == {"back", "rest", "half", "full"}

ASSUME InputsAssumption ==
  /\ PadInputs = Buttons \cup Axes /\ Buttons \cap Axes = {}
  /\ PadInputs \subseteq Nat
ASSUME TargetsAssumption ==
  /\ SysActs \subseteq Targets /\ KnobTargets \subseteq Targets
  /\ Editable \subseteq Targets /\ NoTarget \notin Targets
ASSUME DevicesAssumption == NoDevice \notin Devices /\ Seated \subseteq Players

VARIABLES
  (* the devices *)
  device, buttons, axes,
  (* the slots of the poll thread *)
  opened, btn_prev, axis_prev,
  held,             \* what the last poll of a slot said it holds
  was_down,         \* the inputs down at the last poll and what they drove
                    \* (of the model only)
  sysact_pending,
  (* capture *)
  s_capture_armed, s_capture_have, s_capture_id,
  map_state         \* the target Map mode waits for

world == <<device, buttons, axes>>
slots == <<opened, btn_prev, axis_prev, held, was_down>>
capture == <<s_capture_armed, s_capture_have, s_capture_id>>
gamepadVars == <<bindingsVars, world, slots, sysact_pending, capture, map_state>>

GamepadTypeOK ==
  /\ BindingsTypeOK
  /\ device \in [Players -> Devices \cup {NoDevice}]
  /\ buttons \in [Players -> SUBSET Buttons]
  /\ axes \in [Players -> [Axes -> Levels]]
  /\ opened \in [Players -> Devices \cup {NoDevice}]
  /\ btn_prev \in [Players -> SUBSET Buttons]
  /\ axis_prev \in [Players -> SUBSET Axes]
  /\ held \in [Players -> SUBSET (Targets \ SysActs)]
  /\ was_down \in [Players -> SUBSET (PadInputs \X SUBSET Targets)]
  /\ sysact_pending \subseteq SysActs
  /\ s_capture_armed \in BOOLEAN /\ s_capture_have \in BOOLEAN
  /\ s_capture_id \in PadInputs \cup {NoPad}
  /\ map_state \in Targets \cup {NoTarget}

AtRest == [a \in Axes |-> "rest"]
None == [p \in Players |-> {}]

GamepadInit ==
  /\ BindingsInit
  /\ device = [p \in Players |-> NoDevice]
  /\ buttons = None /\ axes = [p \in Players |-> AtRest]
  /\ opened = [p \in Players |-> NoDevice]
  /\ btn_prev = None /\ axis_prev = None /\ held = None /\ was_down = None
  /\ sysact_pending = {}
  /\ s_capture_armed = FALSE /\ s_capture_have = FALSE /\ s_capture_id = NoPad
  /\ map_state = NoTarget
-----------------------------------------------------------------------------
DownAxes(p) == {a \in Axes : axes[p][a] \in {"half", "full"}}
OverAxes(p) == {a \in Axes : axes[p][a] \in {"back", "full"}}
Down(p) == buttons[p] \cup DownAxes(p)

(* What this poll compares with: nothing, when the slot is opened by it. *)
Before(p, prev) == IF opened[p] = device[p] THEN prev[p] ELSE {}
Pressed(p) == buttons[p] \ Before(p, btn_prev)
Passed(p) == OverAxes(p) \ Before(p, axis_prev)

Lowest(S) == {i \in S : \A j \in S : i <= j}
Captured(p) ==
  IF ~s_capture_armed THEN {}
  ELSE IF Pressed(p) # {} THEN Lowest(Pressed(p)) ELSE Lowest(Passed(p))

(* Faulty: a button that is down fires at every poll. *)
FiredWhileDown(p) ==
  LET edge == Down(p) IN
  {t \in SysActs : \E i \in edge \ Captured(p) : t \in Reached(p, i)}

(* The system actions this poll posts, and the targets it says are held. *)
Posted(p) ==
  LET edge == Pressed(p) \cup (DownAxes(p) \ Before(p, axis_prev)) IN
  {t \in SysActs : \E i \in edge \ Captured(p) : t \in Reached(p, i)}

(* Faulty: system actions are held as the other targets are. *)
PlayedAll(p) ==
  {t \in Targets \ KnobTargets : \E i \in Down(p) \ Captured(p) : t \in Reached(p, i)}

Played(p) ==
  {t \in Targets \ (SysActs \cup KnobTargets) : \E i \in Down(p) \ Captured(p) : t \in Reached(p, i)}

Recorded(p) ==
  IF Captured(p) = {} THEN UNCHANGED capture
  ELSE /\ s_capture_id' \in Captured(p)
       /\ s_capture_have' = TRUE /\ s_capture_armed' = FALSE

ApplyPad(p) ==
  /\ device[p] # NoDevice
  /\ opened' = [opened EXCEPT ![p] = device[p]]
  /\ btn_prev' = [btn_prev EXCEPT ![p] = buttons[p]]
  /\ axis_prev' = [axis_prev EXCEPT ![p] = OverAxes(p)]
  /\ was_down' = [was_down EXCEPT ![p] = {<<i, Reached(p, i)>> : i \in Down(p)}]
  /\ held' = [held EXCEPT ![p] = Played(p)]
  /\ sysact_pending' = sysact_pending \cup Posted(p)
  /\ Recorded(p)
  /\ UNCHANGED <<bindingsVars, world, map_state>>

ClosePad(p) ==
  /\ device[p] = NoDevice /\ opened[p] # NoDevice
  /\ opened' = [opened EXCEPT ![p] = NoDevice]
  /\ btn_prev' = [btn_prev EXCEPT ![p] = {}]
  /\ axis_prev' = [axis_prev EXCEPT ![p] = {}]
  /\ was_down' = [was_down EXCEPT ![p] = {}]
  /\ held' = [held EXCEPT ![p] = {}]
  /\ UNCHANGED <<bindingsVars, world, sysact_pending, capture, map_state>>

(* A session ends and the next starts: another poll thread, with no slot open. *)
NextPollThread ==
  /\ opened' = [p \in Players |-> NoDevice]
  /\ btn_prev' = None /\ axis_prev' = None /\ held' = None /\ was_down' = None
  /\ UNCHANGED <<bindingsVars, world, sysact_pending, capture, map_state>>

Poll(p) == ApplyPad(p) \/ ClosePad(p)
-----------------------------------------------------------------------------
(* The players. A device that is plugged in again is another one to SDL. One *)
(* that is found in a slot may have anything down: it may have moved there   *)
(* from the next slot as a pad before it was unplugged. One that cannot be   *)
(* opened is one that never has anything down.                               *)
Plug(p, d) ==
  /\ d # device[p]
  /\ d \notin {opened[p]} \ {NoDevice}
  /\ device' = [device EXCEPT ![p] = d]
  /\ \E pushed \in SUBSET Buttons, levels \in [Axes -> Levels] :
       /\ d = NoDevice => pushed = {} /\ levels = AtRest
       /\ buttons' = [buttons EXCEPT ![p] = pushed]
       /\ axes' = [axes EXCEPT ![p] = levels]
  /\ UNCHANGED <<bindingsVars, slots, sysact_pending, capture, map_state>>

Play(p) ==
  /\ device[p] # NoDevice
  /\ \/ \E b \in Buttons :
          /\ buttons' = [buttons EXCEPT ![p] = IF b \in @ THEN @ \ {b} ELSE @ \cup {b}]
          /\ UNCHANGED axes
     \/ \E a \in Axes, level \in Levels :
          /\ axes' = [axes EXCEPT ![p][a] = level]
          /\ UNCHANGED buttons
  /\ UNCHANGED <<bindingsVars, device, slots, sysact_pending, capture, map_state>>

(* The GUI thread's drain. *)
Drain ==
  /\ sysact_pending # {} /\ sysact_pending' = {}
  /\ UNCHANGED <<bindingsVars, world, slots, capture, map_state>>

CaptureBegin == s_capture_have' = FALSE /\ s_capture_armed' = TRUE /\ UNCHANGED s_capture_id
CaptureCancel == s_capture_have' = FALSE /\ s_capture_armed' = FALSE /\ UNCHANGED s_capture_id

MapTarget(t) ==
  /\ map_state = NoTarget
  /\ map_state' = t
  /\ CaptureBegin
  /\ UNCHANGED <<bindingsVars, world, slots, sysact_pending>>

(* capture_poll: a button cannot turn a knob, so the capture begins again.  *)
MapCaptured ==
  /\ map_state # NoTarget /\ s_capture_have
  /\ IF map_state \in KnobTargets /\ s_capture_id \in Buttons
     THEN CaptureBegin /\ UNCHANGED <<bindingsVars, map_state>>
     ELSE SetPad(map_state, s_capture_id) /\ CaptureCancel /\ map_state' = NoTarget
  /\ UNCHANGED <<world, slots, sysact_pending>>

MapKey(k) ==
  /\ map_state \notin {NoTarget} \cup KnobTargets
  /\ SetKeysym(map_state, k) /\ CaptureCancel /\ map_state' = NoTarget
  /\ UNCHANGED <<world, slots, sysact_pending>>

(* The Clear button, and leaving Map mode. *)
MapEnds ==
  /\ map_state # NoTarget
  /\ Clear(map_state) \/ UNCHANGED bindingsVars
  /\ CaptureCancel /\ map_state' = NoTarget
  /\ UNCHANGED <<world, slots, sysact_pending>>

ResetToDefaults ==
  /\ ResetDefaults
  /\ UNCHANGED <<world, slots, sysact_pending, capture, map_state>>

(* The program is closed and started again: only what was saved is left.    *)
Relaunch ==
  /\ Reload
  /\ opened' = [p \in Players |-> NoDevice]
  /\ btn_prev' = None /\ axis_prev' = None /\ held' = None /\ was_down' = None
  /\ sysact_pending' = {}
  /\ s_capture_armed' = FALSE /\ s_capture_have' = FALSE /\ s_capture_id' = NoPad
  /\ map_state' = NoTarget
  /\ UNCHANGED world

GamepadNext ==
  \/ \E p \in Seated :
       \/ Poll(p)
       \/ \E d \in Devices \cup {NoDevice} : Plug(p, d)
       \/ Play(p)
  \/ \E t \in Editable : MapTarget(t)
  \/ \E k \in Keysyms : MapKey(k)
  \/ NextPollThread \/ Drain \/ MapCaptured \/ MapEnds \/ ResetToDefaults \/ Relaunch

GamepadSpec == GamepadInit /\ [][GamepadNext]_gamepadVars
-----------------------------------------------------------------------------
(* A poll posts a system action only for an axis, or for a button that was   *)
(* up when the same device was polled in this slot before, however the       *)
(* bindings changed while it was down (gamepad_sdl.c:74 "so a held button    *)
(* fires its binding once"). A pad that moves to another slot, or meets      *)
(* another poll thread, fires what it holds once more.                       *)
ButtonsFireOnce ==
  [][\A p \in Players, t \in SysActs :
       Poll(p) /\ t \in sysact_pending' \ sysact_pending =>
         \E i \in Down(p) :
            /\ t \in Reached(p, i)
            /\ i \in Buttons /\ opened[p] = device[p] => \A w \in was_down[p] : w[1] # i]_gamepadVars

(* The same of every input of the same device, axes included, while it stays *)
(* bound (gamepad_sdl.c:126 "a system action fires on the press edge only"). *)
FiresOnEdgeOnly ==
  [][\A p \in Players, t \in SysActs :
       Poll(p) /\ opened[p] = device[p] /\ t \in sysact_pending' \ sysact_pending =>
         \E i \in Down(p) : t \in Reached(p, i) /\ \A w \in was_down[p] : ~(w[1] = i /\ t \in w[2])]_gamepadVars
=============================================================================
