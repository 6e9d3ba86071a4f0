------------------------------- MODULE Input -------------------------------
(***************************************************************************)
(* core/src/input.c with the system actions of core/src/session.c: every    *)
(* source of input (the panel, the keyboard, up to four pads) keeps its own *)
(* holds, and the machine sees their union. The knob is turned by a dial,   *)
(* by keys that ramp it, and by a pad's axis.                               *)
(*                                                                          *)
(* Two threads. The GUI thread handles keys, the mouse and the timer, and   *)
(* fires system actions, which end and start sessions. The poll thread of   *)
(* the pads runs while a session does. Each call holds g_mtx, so it is one  *)
(* step; posting, taking and firing a system action are steps apart, since  *)
(* the poll thread posts them too. One player's knob stands for the four;   *)
(* the keypad's bits and the players' handles are Switches alike.           *)
(***************************************************************************)
EXTENDS Bindings, Integers

CONSTANTS
  Switches,               \* targets that set a bit of the keypad or a handle
  KnobDec, KnobInc,       \* targets that ramp the knob
  ResetGame, ResetConfig, \* the system actions
  PadSlots,
  KnobMax,                \* 255: the knob's last position
  MinMove,                \* KNOB_MIN_MOVE
  TickTimes,              \* milliseconds a poll may have taken
  CtrlStates,             \* whether Ctrl is down with a key, in an instance
  PanelTargets,           \* what the panel holds, in an instance
  PadTargets,             \* what pads hold, in an instance
  Editable                \* targets the user rebinds, in an instance

Ramps == {KnobDec, KnobInc}
SysActs == {ResetGame, ResetConfig}
Holdable == Switches \cup Ramps
Sources == {"panel", "keyboard"} \cup PadSlots
NoSample == -1

ASSUME TargetsAssumption ==
  /\ Targets = Holdable \cup SysActs
  /\ Holdable \cap SysActs = {}
  /\ Switches \cap Ramps = {} /\ KnobDec # KnobInc
ASSUME PadsAssumption == {"panel", "keyboard"} \cap PadSlots = {}
ASSUME KnobAssumption == KnobMax \in Nat /\ MinMove \in Nat \ {0} /\ TickTimes \subseteq Nat
ASSUME InstanceAssumption ==
  /\ PanelTargets \cup PadTargets \subseteq Holdable
  /\ Editable \subseteq Targets
  /\ CtrlStates \subseteq BOOLEAN

VARIABLES
  g_src,            \* what each source holds
  g_held_keysym,    \* the key that holds each target
  g_keys_out,       \* the union as last told to the machine
  g_knob,           \* the knob's position, in quarters
  g_knob_pushed,    \* the position as last told to the machine
  g_pad_axis_last,  \* the sample that last counted, of each pad
  machine,          \* the bits set in the machine
  machine_knob,     \* the byte the console reads: the complement
  sysact_pending,   \* system actions posted
  firing,           \* system actions taken and not yet fired
  running,          \* a session runs, and with it the poll thread
  gui,              \* the GUI thread: idle, drain, fire, restart
  down              \* keys down, as far as the window has seen

sources == <<g_src, g_held_keysym>>
told == <<g_keys_out, machine>>
knob == <<g_knob, g_knob_pushed, machine_knob>>
session == <<sysact_pending, firing, running, gui>>
inputVars == <<bindingsVars, sources, told, knob, g_pad_axis_last, session, down>>

InputTypeOK ==
  /\ BindingsTypeOK
  /\ g_src \in [Sources -> SUBSET Holdable]
  /\ g_held_keysym \in [Targets -> Keysyms \cup {NoKey}]
  /\ g_keys_out \subseteq Switches /\ machine \subseteq Switches
  /\ g_knob \in 0..4 * KnobMax
  /\ g_knob_pushed \in {NoSample} \cup 0..KnobMax
  /\ machine_knob \in 0..KnobMax
  /\ g_pad_axis_last \in [PadSlots -> {NoSample} \cup 0..KnobMax]
  /\ sysact_pending \subseteq SysActs /\ firing \subseteq SysActs
  /\ running \in BOOLEAN
  /\ gui \in {"idle", "drain", "fire", "restart"}
  /\ down \subseteq Keysyms

Unheld == [t \in Targets |-> NoKey]
Union(src) == {t \in Switches : \E s \in Sources : t \in src[s]}
(* Faulty: the knob is only kept above its first position. *)
NotBelow(k) == IF k < 0 THEN 0 ELSE k

InRange(k) == IF k < 0 THEN 0 ELSE IF k > 4 * KnobMax THEN 4 * KnobMax ELSE k
Rounded(k) == IF (k + 2) \div 4 > KnobMax THEN KnobMax ELSE (k + 2) \div 4
KnobDir ==
  LET held(t) == \E s \in Sources : t \in g_src[s] IN
  (IF held(KnobInc) THEN 1 ELSE 0) - (IF held(KnobDec) THEN 1 ELSE 0)

(* At launch main starts the first session. *)
InputInit ==
  /\ BindingsInit
  /\ g_src = [s \in Sources |-> {}]
  /\ g_held_keysym = Unheld
  /\ g_keys_out = {} /\ machine = {}
  /\ g_knob = 4 * ((KnobMax + 1) \div 2)
  /\ g_knob_pushed = NoSample /\ machine_knob = 0
  /\ g_pad_axis_last = [s \in PadSlots |-> NoSample]
  /\ sysact_pending = {} /\ firing = {}
  /\ running = FALSE /\ gui = "restart"
  /\ down = {}

-----------------------------------------------------------------------------
(* Faulty: the machine is told what the source that changed holds.          *)
PushOwn ==
  /\ g_keys_out' = Union(g_src')
  /\ machine' = {t \in Switches : \E s \in Sources : g_src'[s] # g_src[s] /\ t \in g_src'[s]}

(* push_locked(0): the bits that changed since the machine was last told.   *)
Push ==
  LET keys == Union(g_src') IN
  /\ g_keys_out' = keys
  /\ machine' = {t \in Switches : IF (t \in keys) = (t \in g_keys_out)
                                  THEN t \in machine ELSE t \in keys}

(* push_locked(1) *)
PushAll == g_keys_out' = Union(g_src') /\ machine' = Union(g_src')

PushKnob ==
  LET v == Rounded(g_knob') IN
  IF v = g_knob_pushed THEN UNCHANGED <<g_knob_pushed, machine_knob>>
  ELSE g_knob_pushed' = v /\ machine_knob' = KnobMax - v

PanelPress(t, press) ==
  /\ gui = "idle"
  /\ g_src' = [g_src EXCEPT !["panel"] = IF press THEN @ \cup {t} ELSE @ \ {t}]
  /\ Push
  /\ UNCHANGED <<bindingsVars, g_held_keysym, knob, g_pad_axis_last, session, down>>

Press(k, t) ==
  /\ g_held_keysym' = [g_held_keysym EXCEPT ![t] = k]
  /\ IF t \in SysActs
     THEN sysact_pending' = sysact_pending \cup {t} /\ UNCHANGED <<g_src, told>>
     ELSE /\ g_src' = [g_src EXCEPT !["keyboard"] = @ \cup {t}]
          /\ Push
          /\ UNCHANGED sysact_pending

(* A key goes down, or repeats. The window drains the actions right after.  *)
KeyPress(k, ctrl_down) ==
  /\ gui = "idle"
  /\ down' = down \cup {k}
  /\ gui' = "drain"
  /\ \/ \E t \in BoundTo(k) : ~ctrl_down /\ g_held_keysym[t] # k /\ Press(k, t)
     \/ /\ ctrl_down \/ \A t \in BoundTo(k) : g_held_keysym[t] = k
        /\ UNCHANGED <<sources, told, sysact_pending>>
  /\ UNCHANGED <<bindingsVars, knob, g_pad_axis_last, firing, running>>

(* Faulty: a release clears what the key is bound to now. *)
KeyReleaseByBinding(k) ==
  /\ gui = "idle" /\ k \in down
  /\ down' = down \ {k}
  /\ gui' = "drain"
  /\ g_held_keysym' = [t \in Targets |-> IF t \in BoundTo(k) THEN NoKey ELSE g_held_keysym[t]]
  /\ g_src' = [g_src EXCEPT !["keyboard"] = @ \ BoundTo(k)]
  /\ Push
  /\ UNCHANGED <<bindingsVars, knob, g_pad_axis_last, sysact_pending, firing, running>>

(* A release clears what the key holds, whatever it is bound to by now.     *)
KeyRelease(k) ==
  /\ gui = "idle" /\ k \in down
  /\ down' = down \ {k}
  /\ gui' = "drain"
  /\ g_held_keysym' = [t \in Targets |-> IF g_held_keysym[t] = k THEN NoKey ELSE g_held_keysym[t]]
  /\ g_src' = [g_src EXCEPT !["keyboard"] = {t \in @ : g_held_keysym[t] # k}]
  /\ Push
  /\ UNCHANGED <<bindingsVars, knob, g_pad_axis_last, sysact_pending, firing, running>>

(* astrosession_release_all: the window will not see the releases.          *)
FocusOut ==
  /\ gui = "idle"
  /\ down' = {}
  /\ g_held_keysym' = Unheld
  /\ g_src' = [g_src EXCEPT !["keyboard"] = {}]
  /\ Push
  /\ UNCHANGED <<bindingsVars, knob, g_pad_axis_last, session>>

KnobSet(v) ==
  /\ gui = "idle"
  /\ g_knob' = 4 * v
  /\ PushKnob
  /\ UNCHANGED <<bindingsVars, sources, told, g_pad_axis_last, session, down>>

EditBindings ==
  /\ gui = "idle"
  /\ \/ \E t \in Editable :
          \/ \E k \in Keysyms \cup {NoKey} : SetKeysym(t, k)
          \/ Clear(t)
     \/ ResetDefaults
  /\ UNCHANGED <<sources, told, knob, g_pad_axis_last, session, down>>
-----------------------------------------------------------------------------
(* The poll thread. A pad's state replaces what the pad held.               *)
PadState(s, held) ==
  /\ running
  /\ g_src' = [g_src EXCEPT ![s] = held]
  /\ Push
  /\ UNCHANGED <<bindingsVars, g_held_keysym, knob, g_pad_axis_last, session, down>>

(* An axis takes the knob once it has moved; its first sample only counts.  *)
PadKnob(s, v) ==
  LET last == g_pad_axis_last[s] IN
  /\ running
  /\ last = NoSample \/ v - last >= MinMove \/ last - v >= MinMove
  /\ g_pad_axis_last' = [g_pad_axis_last EXCEPT ![s] = v]
  /\ IF last = NoSample THEN UNCHANGED knob ELSE g_knob' = 4 * v /\ PushKnob
  /\ UNCHANGED <<bindingsVars, sources, told, session, down>>

(* The pad is gone, or another one took its slot. *)
PadClear(s) ==
  /\ running
  /\ g_src' = [g_src EXCEPT ![s] = {}]
  /\ g_pad_axis_last' = [g_pad_axis_last EXCEPT ![s] = NoSample]
  /\ Push
  /\ UNCHANGED <<bindingsVars, g_held_keysym, knob, session, down>>

PadPost(a) ==
  /\ running
  /\ sysact_pending' = sysact_pending \cup {a}
  /\ UNCHANGED <<bindingsVars, sources, told, knob, g_pad_axis_last, firing, running, gui, down>>

(* KNOB_RATE is a quarter per millisecond. *)
Tick(dt_ms) ==
  /\ running /\ KnobDir # 0
  /\ g_knob' = InRange(g_knob + KnobDir * dt_ms)
  /\ PushKnob
  /\ UNCHANGED <<bindingsVars, sources, told, g_pad_axis_last, session, down>>
-----------------------------------------------------------------------------
(* astrosession_sysaction_take, after a key or at the window's timer.       *)
Drain ==
  /\ gui \in {"idle", "drain"}
  /\ gui = "idle" => sysact_pending # {}
  /\ firing' = sysact_pending /\ sysact_pending' = {}
  /\ gui' = "fire"
  /\ UNCHANGED <<bindingsVars, sources, told, knob, g_pad_axis_last, running, down>>

(* astrosession_reset_game: every source lets go, the keys' holds included. *)
FireResetGame ==
  /\ gui = "fire" /\ ResetGame \in firing
  /\ firing' = firing \ {ResetGame}
  /\ IF running
     THEN /\ g_src' = [s \in Sources |-> {}]
          /\ g_held_keysym' = Unheld
          /\ PushAll
     ELSE UNCHANGED <<sources, told>>
  /\ UNCHANGED <<bindingsVars, knob, g_pad_axis_last, sysact_pending, running, gui, down>>

(* Faulty: the poll thread ends without letting go of its pads. *)
EndWithPadsHeld ==
  /\ running' = FALSE
  /\ UNCHANGED <<sources, told, g_pad_axis_last>>

(* astrosession_stop: the poll thread lets go of its pads as it ends.       *)
StopSession ==
  /\ running' = FALSE
  /\ IF running
     THEN /\ g_src' = [s \in Sources |-> IF s \in PadSlots THEN {} ELSE g_src[s]]
          /\ g_pad_axis_last' = [s \in PadSlots |-> NoSample]
          /\ Push
          /\ UNCHANGED g_held_keysym
     ELSE UNCHANGED <<sources, told, g_pad_axis_last>>

(* RESET to CONFIG, and a cartridge loaded from the menu: the session ends  *)
(* and another starts.                                                      *)
FireResetConfig ==
  /\ gui = "fire" /\ ResetConfig \in firing /\ ResetGame \notin firing
  /\ firing' = firing \ {ResetConfig}
  /\ gui' = "restart"
  /\ StopSession
  /\ UNCHANGED <<bindingsVars, knob, sysact_pending, down>>

LoadCart ==
  /\ gui = "idle"
  /\ gui' = "restart"
  /\ StopSession
  /\ UNCHANGED <<bindingsVars, knob, sysact_pending, firing, down>>

(* Faulty: the knob's last position is taken for what the machine has. *)
ResyncSwitches ==
  /\ g_keys_out' = Union(g_src) /\ machine' = Union(g_src)
  /\ IF g_knob_pushed = Rounded(g_knob) THEN machine_knob' = 0 /\ UNCHANGED g_knob_pushed
     ELSE g_knob_pushed' = Rounded(g_knob) /\ machine_knob' = KnobMax - Rounded(g_knob)

(* The machine begins with every input at 0, and is told all of them again. *)
Resync ==
  /\ g_keys_out' = Union(g_src) /\ machine' = Union(g_src)
  /\ g_knob_pushed' = Rounded(g_knob) /\ machine_knob' = KnobMax - Rounded(g_knob)

StartSession ==
  /\ gui = "restart"
  /\ gui' = "fire"
  /\ running' = TRUE
  /\ Resync
  /\ UNCHANGED <<bindingsVars, sources, g_knob, g_pad_axis_last, sysact_pending, firing, down>>

(* No BIOS, an unreadable cartridge; or no thread, with the machine made.   *)
StartFails ==
  /\ gui = "restart"
  /\ gui' = "fire"
  /\ \/ UNCHANGED <<machine, machine_knob>>
     \/ machine' = {} /\ machine_knob' = 0
  /\ UNCHANGED <<bindingsVars, sources, g_keys_out, g_knob, g_knob_pushed, g_pad_axis_last,
                 sysact_pending, firing, running, down>>

(* Faulty: what was posted is forgotten once the actions taken are fired. *)
FiredAndForgotten ==
  /\ gui = "fire" /\ firing = {}
  /\ gui' = "idle" /\ sysact_pending' = {}
  /\ UNCHANGED <<bindingsVars, sources, told, knob, g_pad_axis_last, firing, running, down>>

Fired ==
  /\ gui = "fire" /\ firing = {}
  /\ gui' = "idle"
  /\ UNCHANGED <<bindingsVars, sources, told, knob, g_pad_axis_last, sysact_pending, firing, running, down>>

Gui ==
  \/ \E t \in PanelTargets, press \in BOOLEAN : PanelPress(t, press)
  \/ \E k \in Keysyms, ctrl_down \in CtrlStates : KeyPress(k, ctrl_down)
  \/ \E k \in Keysyms : KeyRelease(k)
  \/ FocusOut
  \/ \E v \in 0..KnobMax : KnobSet(v)
  \/ EditBindings
  \/ Drain \/ FireResetGame \/ FireResetConfig \/ LoadCart
  \/ StartSession \/ StartFails \/ Fired

Poll ==
  \/ \E s \in PadSlots :
       \/ \E held \in SUBSET PadTargets : PadState(s, held)
       \/ \E v \in 0..KnobMax : PadKnob(s, v)
       \/ PadClear(s)
  \/ \E a \in SysActs : PadPost(a)
  \/ \E dt_ms \in TickTimes : Tick(dt_ms)

InputNext == Gui \/ Poll

InputSpec == InputInit /\ [][InputNext]_inputVars

(* The event loop's timer drains again and again, and a handler that has    *)
(* begun goes on.                                                           *)
InputFairSpec ==
  /\ InputSpec
  /\ SF_inputVars(Drain)
  /\ WF_inputVars(FireResetGame \/ FireResetConfig \/ StartSession \/ StartFails \/ Fired)
-----------------------------------------------------------------------------
(* The machine has down exactly the switches that some source holds, through *)
(* releases in any order, resets and new sessions (astrosession.h: "one      *)
(* source releasing can never cancel another's hold").                       *)
MachineSeesUnion == running => machine = Union(g_src)

(* The keyboard holds a target exactly on behalf of a key that is down, also *)
(* after the key was bound to something else or another took the target: so  *)
(* nothing stays held once the keys are up.                                  *)
HoldsAreOwed ==
  /\ g_src["keyboard"] = {t \in Holdable : g_held_keysym[t] # NoKey}
  /\ \A t \in Targets : g_held_keysym[t] # NoKey => g_held_keysym[t] \in down

(* The console reads the complement of the knob, rounded, whoever turned it  *)
(* and whichever session it was turned in.                                   *)
KnobIsFollowed == running => machine_knob = KnobMax - Rounded(g_knob)

(* When no poll thread runs no pad holds anything, so a button held as the   *)
(* session ended does not play in the next one.                              *)
PadsLetGo == \A s \in PadSlots : ~running => g_src[s] = {} /\ g_pad_axis_last[s] = NoSample

(* A system action that was posted is fired, also when it is posted while    *)
(* others are being fired.                                                   *)
PostsAreFired == \A a \in SysActs : a \in sysact_pending ~> a \in firing

(* A key that repeats posts nothing (input.c:33 "ignores auto-repeat";       *)
(* gnome/window.c:28-30 "fires Reset Game once").                            *)
RepeatPostsNothing ==
  [][\A k \in down, ctrl_down \in CtrlStates : KeyPress(k, ctrl_down) => UNCHANGED sysact_pending]_inputVars
=============================================================================
