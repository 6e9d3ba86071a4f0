---------------------------- MODULE Input_proofs ----------------------------
(* The safety properties of Input, for every table, pad and range of knob.  *)
EXTENDS Input, TLAPS

(* The machine was told the union, and a running one has what it was told.  *)
OutIsUnion == g_keys_out = Union(g_src)
MachineIsTold == running => machine = g_keys_out
KnobIsTold == running => /\ g_knob_pushed = Rounded(g_knob)
                         /\ machine_knob = KnobMax - g_knob_pushed

(* A session only starts when none runs. *)
StartIsFirst == gui = "restart" => ~running

Switchboard == OutIsUnion /\ MachineIsTold /\ KnobIsTold /\ StartIsFirst

IInv == InputTypeOK /\ Switchboard /\ HoldsAreOwed /\ PadsLetGo

(* The knob is always told as a position it has. *)
LEMMA RoundedInRange == \A k \in 0..4 * KnobMax : Rounded(k) \in 0..KnobMax
<1> SUFFICES ASSUME NEW k \in 0..4 * KnobMax PROVE Rounded(k) \in 0..KnobMax
  OBVIOUS
<1>1. KnobMax \in Nat
  BY KnobAssumption
<1> QED BY <1>1 DEF Rounded

LEMMA InRangeInRange == \A k \in Int : InRange(k) \in 0..4 * KnobMax
BY KnobAssumption DEF InRange

(* Telling the changes leaves a machine that had been told the rest with    *)
(* the whole union.                                                         *)
LEMMA PushTells ==
  ASSUME g_keys_out \subseteq Switches, machine \subseteq Switches, Push
  PROVE  /\ OutIsUnion'
         /\ (g_keys_out \subseteq Switches)' /\ (machine \subseteq Switches)'
         /\ machine = g_keys_out => machine' = g_keys_out'
<1>1. Union(g_src)' = Union(g_src') /\ Union(g_src') \subseteq Switches
  BY DEF Union
<1>2. g_keys_out' = Union(g_src')
  BY DEF Push
<1>3. \A t \in Switches : t \in machine' <=> IF (t \in Union(g_src')) = (t \in g_keys_out)
                                             THEN t \in machine ELSE t \in Union(g_src')
  BY DEF Push
<1>4. machine' \subseteq Switches
  BY DEF Push
<1>5. ASSUME machine = g_keys_out PROVE machine' = g_keys_out'
  <2>1. \A t \in Switches : t \in machine' <=> t \in Union(g_src')
    BY <1>3, <1>5, Zenon
  <2> QED BY <2>1, <1>1, <1>2, <1>4
<1> QED BY <1>1, <1>2, <1>4, <1>5 DEF OutIsUnion

LEMMA PushAllTells ==
  ASSUME PushAll
  PROVE  /\ OutIsUnion' /\ machine' = g_keys_out'
         /\ (g_keys_out \subseteq Switches)' /\ (machine \subseteq Switches)'
BY DEF PushAll, OutIsUnion, Union

LEMMA PushKnobTells ==
  ASSUME PushKnob, g_knob' \in 0..4 * KnobMax,
         g_knob_pushed \in {NoSample} \cup 0..KnobMax, machine_knob \in 0..KnobMax
  PROVE  /\ g_knob_pushed' = Rounded(g_knob')
         /\ g_knob_pushed' \in 0..KnobMax /\ machine_knob' \in 0..KnobMax
         /\ machine_knob = KnobMax - g_knob_pushed => machine_knob' = KnobMax - g_knob_pushed'
<1> DEFINE v == Rounded(g_knob')
<1>1. v \in 0..KnobMax
  BY RoundedInRange
<1>2. IF v = g_knob_pushed THEN g_knob_pushed' = g_knob_pushed /\ machine_knob' = machine_knob
      ELSE g_knob_pushed' = v /\ machine_knob' = KnobMax - v
  BY DEF PushKnob
<1>3. KnobMax \in Nat
  BY KnobAssumption
<1> HIDE DEF v
<1>4. g_knob_pushed' = v
  BY <1>2
<1>5. machine_knob' \in 0..KnobMax
  BY <1>1, <1>2, <1>3
<1>6. machine_knob = KnobMax - g_knob_pushed => machine_knob' = KnobMax - g_knob_pushed'
  BY <1>2
<1> QED BY <1>1, <1>4, <1>5, <1>6 DEF v

(* The kinds of step there are. *)
LEMMA Steps ==
  [InputNext]_inputVars =>
    \/ \E t \in PanelTargets, press \in BOOLEAN : PanelPress(t, press)
    \/ \E k \in Keysyms, c \in CtrlStates : KeyPress(k, c)
    \/ \E k \in Keysyms : KeyRelease(k)
    \/ \E v \in 0..KnobMax : KnobSet(v)
    \/ \E s \in PadSlots, h \in SUBSET PadTargets : PadState(s, h)
    \/ \E s \in PadSlots, v \in 0..KnobMax : PadKnob(s, v)
    \/ \E s \in PadSlots : PadClear(s)
    \/ \E a \in SysActs : PadPost(a)
    \/ \E d \in TickTimes : Tick(d)
    \/ FocusOut \/ EditBindings \/ Drain \/ FireResetGame \/ FireResetConfig \/ LoadCart
    \/ StartSession \/ StartFails \/ Fired \/ UNCHANGED inputVars
<1> SUFFICES ASSUME InputNext PROVE
    \/ \E t \in PanelTargets, press \in BOOLEAN : PanelPress(t, press)
    \/ \E k \in Keysyms, c \in CtrlStates : KeyPress(k, c)
    \/ \E k \in Keysyms : KeyRelease(k)
    \/ \E v \in 0..KnobMax : KnobSet(v)
    \/ \E s \in PadSlots, h \in SUBSET PadTargets : PadState(s, h)
    \/ \E s \in PadSlots, v \in 0..KnobMax : PadKnob(s, v)
    \/ \E s \in PadSlots : PadClear(s)
    \/ \E a \in SysActs : PadPost(a)
    \/ \E d \in TickTimes : Tick(d)
    \/ FocusOut \/ EditBindings \/ Drain \/ FireResetGame \/ FireResetConfig \/ LoadCart
    \/ StartSession \/ StartFails \/ Fired
  BY Zenon
<1>1. CASE Gui
  BY <1>1, Zenon DEF Gui
<1>2. CASE Poll
  BY <1>2, Zenon DEF Poll
<1> QED BY <1>1, <1>2 DEF InputNext

(* The table of bindings keeps its type, whatever is edited. (What else it   *)
(* keeps is proved in Gamepad_proofs, where more is done to it.)            *)
LEMMA PersistTyped ==
  ASSUME Persist
  PROVE  (DOMAIN saved_key \subseteq Targets)' /\ (DOMAIN saved_pad \subseteq Targets)'
BY DEF Persist, Overrides, Differing

LEMMA StepBindings == IInv /\ [InputNext]_inputVars => BindingsTypeOK'
<1> SUFFICES ASSUME IInv, [InputNext]_inputVars PROVE BindingsTypeOK'
  OBVIOUS
<1>0. BindingsTypeOK
  BY DEF IInv, InputTypeOK
<1>1. ASSUME EditBindings PROVE BindingsTypeOK'
  <2>2. Editable \subseteq Targets
    BY InstanceAssumption
  <2>3. ASSUME NEW t \in Editable, NEW k \in Keysyms \cup {NoKey}, SetKeysym(t, k) PROVE BindingsTypeOK'
    BY <1>0, <2>2, <2>3, PersistTyped DEF SetKeysym, BindingsTypeOK
  <2>4. ASSUME NEW t \in Editable, Clear(t) PROVE BindingsTypeOK'
    BY <1>0, <2>2, <2>4, PersistTyped DEF Clear, BindingsTypeOK
  <2>5. ASSUME ResetDefaults PROVE BindingsTypeOK'
    BY <2>5, PersistTyped, DefaultsAssumption DEF ResetDefaults, BindingsTypeOK
  <2> QED BY <1>1, <2>3, <2>4, <2>5 DEF EditBindings
<1>2. CASE \/ \E t \in PanelTargets, press \in BOOLEAN : PanelPress(t, press)
           \/ \E k \in Keysyms, c \in CtrlStates : KeyPress(k, c)
           \/ \E k \in Keysyms : KeyRelease(k)
           \/ \E v \in 0..KnobMax : KnobSet(v)
           \/ \E s \in PadSlots, h \in SUBSET PadTargets : PadState(s, h)
           \/ \E s \in PadSlots, v \in 0..KnobMax : PadKnob(s, v)
           \/ \E s \in PadSlots : PadClear(s)
           \/ \E a \in SysActs : PadPost(a)
           \/ \E d \in TickTimes : Tick(d)
           \/ FocusOut \/ Drain \/ FireResetGame \/ FireResetConfig \/ LoadCart
           \/ StartSession \/ StartFails \/ Fired \/ UNCHANGED inputVars
  <2>1. UNCHANGED bindingsVars
    BY <1>2, Zenon DEF PanelPress, KeyPress, KeyRelease, FocusOut, KnobSet, PadState, PadKnob, PadClear, PadPost, Tick, Drain, FireResetGame, FireResetConfig, LoadCart, StartSession, StartFails, Fired, inputVars, bindingsVars, sources, told, knob, session
  <2> QED BY <2>1, <1>0 DEF bindingsVars, BindingsTypeOK
<1> QED
  BY Steps, <1>1, <1>2, Zenon

LEMMA Untouched ==
  ASSUME Switchboard, UNCHANGED <<g_src, told, knob, running>>, gui' = "restart" => gui = "restart"
  PROVE  Switchboard'
BY DEF Switchboard, OutIsUnion, MachineIsTold, KnobIsTold, StartIsFirst, Union, told, knob

LEMMA Pushed ==
  ASSUME InputTypeOK, Switchboard, Push, UNCHANGED knob, UNCHANGED running, gui' = "restart" => gui = "restart"
  PROVE  Switchboard'
<1>1. g_keys_out \subseteq Switches /\ machine \subseteq Switches
  BY DEF InputTypeOK
<1>2. OutIsUnion' /\ (machine = g_keys_out => machine' = g_keys_out')
  BY <1>1, PushTells
<1> QED
  BY <1>2 DEF Switchboard, MachineIsTold, KnobIsTold, StartIsFirst, knob

LEMMA KnobTurned ==
  ASSUME InputTypeOK, Switchboard, PushKnob, g_knob' \in 0..4 * KnobMax,
         UNCHANGED <<g_src, told>>, UNCHANGED running, UNCHANGED gui
  PROVE  Switchboard'
<1>1. g_knob_pushed \in {NoSample} \cup 0..KnobMax /\ machine_knob \in 0..KnobMax
  BY DEF InputTypeOK
<1>2. /\ g_knob_pushed' = Rounded(g_knob')
      /\ machine_knob = KnobMax - g_knob_pushed => machine_knob' = KnobMax - g_knob_pushed'
  BY <1>1, PushKnobTells
<1>3. KnobIsTold'
  BY <1>2 DEF KnobIsTold, Switchboard
<1> QED BY <1>3 DEF Switchboard, OutIsUnion, MachineIsTold, StartIsFirst, Union, told

(* A session that ends or ended leaves nothing to keep but the union. *)
LEMMA Stopped ==
  ASSUME InputTypeOK, Switchboard, StopSession, UNCHANGED knob
  PROVE  Switchboard'
<1>1. running' = FALSE
  BY DEF StopSession
<1>2. OutIsUnion'
  <2>1. g_keys_out \subseteq Switches /\ machine \subseteq Switches
    BY DEF InputTypeOK
  <2>2. CASE running
    BY <2>1, <2>2, PushTells DEF StopSession
  <2>3. CASE ~running
    BY <2>3 DEF StopSession, Switchboard, OutIsUnion, Union, sources, told
  <2> QED BY <2>2, <2>3
<1> QED BY <1>1, <1>2 DEF Switchboard, MachineIsTold, KnobIsTold, StartIsFirst

LEMMA KnobMoves ==
  ASSUME InputTypeOK
  PROVE  /\ \A v \in 0..KnobMax : 4 * v \in 0..4 * KnobMax
         /\ \A d \in TickTimes : InRange(g_knob + KnobDir * d) \in 0..4 * KnobMax
<1>1. KnobMax \in Nat /\ TickTimes \subseteq Nat
  BY KnobAssumption
<1>2. \A v \in 0..KnobMax : 4 * v \in 0..4 * KnobMax
  BY <1>1
<1>3. KnobDir \in {-1, 0, 1}
  BY DEF KnobDir
<1>4. g_knob \in Int
  BY <1>1 DEF InputTypeOK
<1>5. \A d \in TickTimes : g_knob + KnobDir * d \in Int
  BY <1>1, <1>3, <1>4
<1> QED BY <1>2, <1>5, InRangeInRange


(* Every way to hold, let go, turn, stop or start keeps the machine told. *)
LEMMA StepSwitchboard == IInv /\ [InputNext]_inputVars => Switchboard'
<1> SUFFICES ASSUME IInv, [InputNext]_inputVars PROVE Switchboard'
  OBVIOUS
<1>a. InputTypeOK /\ Switchboard
  BY DEF IInv
<1>1. ASSUME NEW t \in PanelTargets, NEW press \in BOOLEAN, PanelPress(t, press) PROVE Switchboard'
  <2>1. Push /\ UNCHANGED <<knob, running, gui>>
    BY <1>1, Zenon DEF PanelPress, inputVars, bindingsVars, sources, told, knob, session
  <2> QED BY <1>a, <2>1, Pushed
<1>2. ASSUME NEW k \in Keysyms, NEW c \in CtrlStates, KeyPress(k, c) PROVE Switchboard'
  <2>1. UNCHANGED <<knob, running>> /\ gui' = "drain"
    BY <1>2, Zenon DEF KeyPress, inputVars, bindingsVars, sources, told, knob, session
  <2>2. Push \/ UNCHANGED <<g_src, told>>
    BY <1>2, Zenon DEF KeyPress, Press, sources
  <2> QED BY <1>a, <2>1, <2>2, Pushed, Untouched
<1>3. ASSUME NEW k \in Keysyms, KeyRelease(k) PROVE Switchboard'
  <2>1. Push /\ UNCHANGED <<knob, running>> /\ gui' = "drain"
    BY <1>3, Zenon DEF KeyRelease, inputVars, bindingsVars, sources, told, knob, session
  <2> QED BY <1>a, <2>1, Pushed
<1>4. ASSUME FocusOut PROVE Switchboard'
  <2>1. Push /\ UNCHANGED <<knob, running, gui>>
    BY <1>4, Zenon DEF FocusOut, inputVars, bindingsVars, sources, told, knob, session
  <2> QED BY <1>a, <2>1, Pushed
<1>5. ASSUME NEW v \in 0..KnobMax, KnobSet(v) PROVE Switchboard'
  <2>1. PushKnob /\ g_knob' = 4 * v /\ UNCHANGED <<g_src, told, running, gui>>
    BY <1>5, Zenon DEF KnobSet, inputVars, bindingsVars, sources, told, knob, session
  <2>2. g_knob' \in 0..4 * KnobMax
    BY <1>a, <2>1, KnobMoves
  <2> QED BY <1>a, <2>1, <2>2, KnobTurned
<1>6. ASSUME NEW s \in PadSlots, NEW h \in SUBSET PadTargets, PadState(s, h) PROVE Switchboard'
  <2>1. Push /\ UNCHANGED <<knob, running, gui>>
    BY <1>6, Zenon DEF PadState, inputVars, bindingsVars, sources, told, knob, session
  <2> QED BY <1>a, <2>1, Pushed
<1>7. ASSUME NEW s \in PadSlots, NEW v \in 0..KnobMax, PadKnob(s, v) PROVE Switchboard'
  <2>1. UNCHANGED <<g_src, told, running, gui>>
    BY <1>7, Zenon DEF PadKnob, inputVars, bindingsVars, sources, told, knob, session
  <2>2. UNCHANGED knob \/ (PushKnob /\ g_knob' = 4 * v)
    BY <1>7, Zenon DEF PadKnob
  <2>3. 4 * v \in 0..4 * KnobMax
    BY <1>a, KnobMoves
  <2> QED BY <1>a, <2>1, <2>2, <2>3, KnobTurned, Untouched
<1>8. ASSUME NEW s \in PadSlots, PadClear(s) PROVE Switchboard'
  <2>1. Push /\ UNCHANGED <<knob, running, gui>>
    BY <1>8, Zenon DEF PadClear, inputVars, bindingsVars, sources, told, knob, session
  <2> QED BY <1>a, <2>1, Pushed
<1>9. ASSUME NEW d \in TickTimes, Tick(d) PROVE Switchboard'
  <2>1. PushKnob /\ g_knob' = InRange(g_knob + KnobDir * d) /\ UNCHANGED <<g_src, told, running, gui>>
    BY <1>9, Zenon DEF Tick, inputVars, bindingsVars, sources, told, knob, session
  <2>2. g_knob' \in 0..4 * KnobMax
    BY <1>a, <2>1, KnobMoves
  <2> QED BY <1>a, <2>1, <2>2, KnobTurned
<1>10. ASSUME FireResetGame PROVE Switchboard'
  <2>1. UNCHANGED <<knob, running, gui>>
    BY <1>10, Zenon DEF FireResetGame, inputVars, bindingsVars, sources, told, knob, session
  <2>2. PushAll \/ UNCHANGED <<g_src, told>>
    BY <1>10, Zenon DEF FireResetGame, sources
  <2>3. CASE PushAll
    BY <1>a, <2>1, <2>3, PushAllTells DEF Switchboard, MachineIsTold, KnobIsTold, StartIsFirst, knob
  <2> QED BY <1>a, <2>1, <2>2, <2>3, Untouched
<1>11. ASSUME FireResetConfig PROVE Switchboard'
  <2>1. StopSession /\ UNCHANGED knob
    BY <1>11, Zenon DEF FireResetConfig, inputVars, bindingsVars, sources, told, knob, session
  <2> QED BY <1>a, <2>1, Stopped
<1>12. ASSUME LoadCart PROVE Switchboard'
  <2>1. StopSession /\ UNCHANGED knob
    BY <1>12, Zenon DEF LoadCart, inputVars, bindingsVars, sources, told, knob, session
  <2> QED BY <1>a, <2>1, Stopped
<1>13. ASSUME StartSession PROVE Switchboard'
  <2>1. g_keys_out' = Union(g_src) /\ machine' = Union(g_src) /\ g_src' = g_src
    BY <1>13 DEF StartSession, Resync, sources
  <2>2. g_knob_pushed' = Rounded(g_knob) /\ machine_knob' = KnobMax - Rounded(g_knob) /\ g_knob' = g_knob
    BY <1>13 DEF StartSession, Resync
  <2>3. gui' = "fire"
    BY <1>13 DEF StartSession
  <2>4. OutIsUnion' /\ MachineIsTold'
    BY <2>1 DEF OutIsUnion, MachineIsTold, Union
  <2>5. KnobIsTold'
    BY <2>2 DEF KnobIsTold
  <2> QED BY <2>3, <2>4, <2>5 DEF Switchboard, StartIsFirst
<1>14. ASSUME StartFails PROVE Switchboard'
  <2>1. running' = running /\ gui = "restart" /\ g_keys_out' = g_keys_out /\ g_src' = g_src
    BY <1>14, Zenon DEF StartFails, sources
  <2>2. ~running'
    BY <1>a, <2>1, Zenon DEF Switchboard, StartIsFirst
  <2> QED BY <1>a, <2>1, <2>2 DEF Switchboard, OutIsUnion, MachineIsTold, KnobIsTold, StartIsFirst, Union
<1>15. CASE \/ \E a \in SysActs : PadPost(a)
            \/ EditBindings \/ Drain \/ Fired \/ UNCHANGED inputVars
  <2>1. UNCHANGED <<g_src, told, knob, running>> /\ (gui' = "restart" => gui = "restart")
    BY <1>15, Zenon DEF EditBindings, PadPost, Drain, Fired, inputVars, bindingsVars, sources, told, knob, session
  <2> QED BY <1>a, <2>1, Untouched
<1> QED
  BY Steps, <1>1, <1>2, <1>3, <1>4, <1>5, <1>6, <1>7, <1>8, <1>9, <1>10, <1>11, <1>12, <1>13, <1>14, <1>15, Zenon

(* Ending a session lets go of the pads, and of nothing else. *)
LEMMA StopLetsGo ==
  ASSUME HoldsAreOwed, PadsLetGo, StopSession, UNCHANGED down
  PROVE  HoldsAreOwed' /\ PadsLetGo'
<1>1. CASE running
  <2>1. /\ g_src' = [s \in Sources |-> IF s \in PadSlots THEN {} ELSE g_src[s]]
        /\ g_pad_axis_last' = [s \in PadSlots |-> NoSample]
        /\ g_held_keysym' = g_held_keysym
    BY <1>1 DEF StopSession
  <2>2. g_src'["keyboard"] = g_src["keyboard"]
    BY <2>1, PadsAssumption DEF Sources
  <2> QED BY <2>1, <2>2 DEF HoldsAreOwed, PadsLetGo, Sources
<1>2. CASE ~running
  <2>1. UNCHANGED <<g_src, g_held_keysym, g_pad_axis_last>>
    BY <1>2 DEF StopSession, sources
  <2> QED BY <1>2, <2>1 DEF HoldsAreOwed, PadsLetGo
<1> QED BY <1>1, <1>2

(* The keyboard holds for keys that are down, and pads only in a session. *)
LEMMA StepHolds == IInv /\ [InputNext]_inputVars => HoldsAreOwed' /\ PadsLetGo'
<1> SUFFICES ASSUME IInv, [InputNext]_inputVars PROVE HoldsAreOwed' /\ PadsLetGo'
  OBVIOUS
<1>a. HoldsAreOwed /\ PadsLetGo /\ InputTypeOK /\ StartIsFirst
  BY DEF IInv, Switchboard
<1>1. ASSUME NEW t \in PanelTargets, NEW press \in BOOLEAN, PanelPress(t, press) PROVE HoldsAreOwed' /\ PadsLetGo'
  <2>1. UNCHANGED <<g_held_keysym, down, running, g_pad_axis_last>>
    BY <1>1, Zenon DEF PanelPress, inputVars, bindingsVars, sources, told, knob, session
  <2>2. \A s \in Sources : s # "panel" => g_src'[s] = g_src[s]
    BY <1>1, <1>a DEF PanelPress, InputTypeOK
  <2>3. "keyboard" \in Sources /\ \A s \in PadSlots : s \in Sources /\ s # "panel"
    BY PadsAssumption DEF Sources
  <2> QED BY <1>a, <2>1, <2>2, <2>3 DEF HoldsAreOwed, PadsLetGo
<1>2. ASSUME NEW k \in Keysyms, NEW c \in CtrlStates, KeyPress(k, c) PROVE HoldsAreOwed' /\ PadsLetGo'
  <2>1. UNCHANGED <<running, g_pad_axis_last>> /\ down' = down \cup {k}
    BY <1>2, Zenon DEF KeyPress, inputVars, bindingsVars, sources, told, knob, session
  <2>2. CASE UNCHANGED sources
    BY <1>a, <2>1, <2>2 DEF HoldsAreOwed, PadsLetGo, sources
  <2>3. ASSUME NEW t \in BoundTo(k), Press(k, t) PROVE HoldsAreOwed' /\ PadsLetGo'
    <3>1. t \in Targets /\ k # NoKey /\ Targets = Holdable \cup SysActs /\ Holdable \cap SysActs = {}
      BY TargetsAssumption, NothingAssumption DEF BoundTo
    <3>2. g_held_keysym' = [g_held_keysym EXCEPT ![t] = k]
      BY <2>3 DEF Press
    <3>3. g_src' = IF t \in SysActs THEN g_src
                   ELSE [g_src EXCEPT !["keyboard"] = @ \cup {t}]
      BY <2>3 DEF Press
    <3>4. g_src'["keyboard"] = IF t \in SysActs THEN g_src["keyboard"] ELSE g_src["keyboard"] \cup {t}
      BY <3>3, <1>a DEF InputTypeOK, Sources
    <3>5. \A s \in PadSlots : g_src'[s] = g_src[s]
      BY <3>3, <1>a, PadsAssumption DEF InputTypeOK, Sources
    <3>6. \A u \in Targets : g_held_keysym'[u] = IF u = t THEN k ELSE g_held_keysym[u]
      BY <3>1, <3>2, <1>a DEF InputTypeOK
    <3>7. g_src'["keyboard"] = {u \in Holdable : g_held_keysym'[u] # NoKey}
      BY <1>a, <3>1, <3>4, <3>6 DEF HoldsAreOwed
    <3>8. \A u \in Targets : g_held_keysym'[u] # NoKey => g_held_keysym'[u] \in down'
      BY <1>a, <2>1, <3>6 DEF HoldsAreOwed
    <3> QED BY <1>a, <2>1, <3>5, <3>7, <3>8 DEF HoldsAreOwed, PadsLetGo
  <2> QED BY <1>2, <2>2, <2>3 DEF KeyPress
<1>3. ASSUME NEW k \in Keysyms, KeyRelease(k) PROVE HoldsAreOwed' /\ PadsLetGo'
  <2>1. UNCHANGED <<running, g_pad_axis_last>>
    BY <1>3, Zenon DEF KeyRelease, inputVars, bindingsVars, sources, told, knob, session
  <2>2. \A s \in Sources : s # "keyboard" => g_src'[s] = g_src[s]
    BY <1>3, <1>a DEF KeyRelease, InputTypeOK
  <2>3. PadsLetGo'
    BY <1>a, <2>1, <2>2, PadsAssumption DEF PadsLetGo, Sources
  <2>4. /\ g_held_keysym' = [t \in Targets |-> IF g_held_keysym[t] = k THEN NoKey ELSE g_held_keysym[t]]
        /\ g_src'["keyboard"] = {t \in g_src["keyboard"] : g_held_keysym[t] # k}
        /\ down' = down \ {k}
    BY <1>3, <1>a DEF KeyRelease, InputTypeOK, Sources
  <2>5. k # NoKey
    BY NothingAssumption
  <2>6. Holdable \subseteq Targets
    BY TargetsAssumption
  <2>7. HoldsAreOwed'
    BY <1>a, <2>4, <2>5, <2>6 DEF HoldsAreOwed
  <2> QED BY <2>3, <2>7
<1>4. ASSUME FocusOut PROVE HoldsAreOwed' /\ PadsLetGo'
  <2>1. UNCHANGED <<running, g_pad_axis_last>>
    BY <1>4, Zenon DEF FocusOut, inputVars, bindingsVars, sources, told, knob, session
  <2>2. \A s \in Sources : s # "keyboard" => g_src'[s] = g_src[s]
    BY <1>4, <1>a DEF FocusOut, InputTypeOK
  <2>3. PadsLetGo'
    BY <1>a, <2>1, <2>2, PadsAssumption DEF PadsLetGo, Sources
  <2>4. g_held_keysym' = Unheld /\ g_src'["keyboard"] = {}
    BY <1>4, <1>a DEF FocusOut, InputTypeOK, Sources
  <2>5. HoldsAreOwed'
    BY <2>4, TargetsAssumption DEF HoldsAreOwed, Unheld
  <2> QED BY <2>3, <2>5
<1>5. ASSUME NEW s \in PadSlots, NEW h \in SUBSET PadTargets, PadState(s, h) PROVE HoldsAreOwed' /\ PadsLetGo'
  <2>1. UNCHANGED <<g_held_keysym, down, running>> /\ running
    BY <1>5, Zenon DEF PadState, inputVars, bindingsVars, sources, told, knob, session
  <2>2. g_src'["keyboard"] = g_src["keyboard"]
    BY <1>5, <1>a, PadsAssumption DEF PadState, InputTypeOK, Sources
  <2>3. HoldsAreOwed'
    BY <1>a, <2>1, <2>2 DEF HoldsAreOwed
  <2> QED BY <2>1, <2>3 DEF PadsLetGo
<1>6. ASSUME NEW s \in PadSlots, NEW v \in 0..KnobMax, PadKnob(s, v) PROVE HoldsAreOwed' /\ PadsLetGo'
  <2>1. UNCHANGED <<g_src, g_held_keysym, down, running>> /\ running
    BY <1>6, Zenon DEF PadKnob, inputVars, bindingsVars, sources, told, knob, session
  <2> QED BY <1>a, <2>1 DEF HoldsAreOwed, PadsLetGo
<1>7. ASSUME NEW s \in PadSlots, PadClear(s) PROVE HoldsAreOwed' /\ PadsLetGo'
  <2>1. UNCHANGED <<g_held_keysym, down, running>> /\ running
    BY <1>7, Zenon DEF PadClear, inputVars, bindingsVars, sources, told, knob, session
  <2>2. g_src'["keyboard"] = g_src["keyboard"]
    BY <1>7, <1>a, PadsAssumption DEF PadClear, InputTypeOK, Sources
  <2>3. HoldsAreOwed'
    BY <1>a, <2>1, <2>2 DEF HoldsAreOwed
  <2> QED BY <2>1, <2>3 DEF PadsLetGo
<1>8. ASSUME FireResetGame PROVE HoldsAreOwed' /\ PadsLetGo'
  <2>1. UNCHANGED <<down, running, g_pad_axis_last>>
    BY <1>8, Zenon DEF FireResetGame, inputVars, bindingsVars, sources, told, knob, session
  <2>2. CASE ~running
    BY <1>8, <1>a, <2>1, <2>2 DEF FireResetGame, sources, HoldsAreOwed, PadsLetGo
  <2>3. CASE running
    <3>1. g_src' = [s \in Sources |-> {}] /\ g_held_keysym' = Unheld
      BY <1>8, <2>3 DEF FireResetGame
    <3> QED BY <2>1, <2>3, <3>1, TargetsAssumption DEF HoldsAreOwed, PadsLetGo, Unheld, Sources
  <2> QED BY <2>2, <2>3
<1>9. ASSUME FireResetConfig PROVE HoldsAreOwed' /\ PadsLetGo'
  <2>1. StopSession /\ UNCHANGED down
    BY <1>9, Zenon DEF FireResetConfig
  <2> QED BY <1>a, <2>1, StopLetsGo
<1>10. ASSUME LoadCart PROVE HoldsAreOwed' /\ PadsLetGo'
  <2>1. StopSession /\ UNCHANGED down
    BY <1>10, Zenon DEF LoadCart
  <2> QED BY <1>a, <2>1, StopLetsGo
<1>11. ASSUME StartSession PROVE HoldsAreOwed' /\ PadsLetGo'
  <2>1. UNCHANGED <<g_src, g_held_keysym, down>> /\ running' = TRUE
    BY <1>11, Zenon DEF StartSession, inputVars, bindingsVars, sources, told, knob, session
  <2> QED BY <1>a, <2>1 DEF HoldsAreOwed, PadsLetGo
<1>12. CASE \/ \E v \in 0..KnobMax : KnobSet(v)
            \/ \E a \in SysActs : PadPost(a)
            \/ \E d \in TickTimes : Tick(d)
            \/ EditBindings \/ Drain \/ StartFails \/ Fired \/ UNCHANGED inputVars
  <2>1. UNCHANGED <<g_src, g_held_keysym, down, running, g_pad_axis_last>>
    BY <1>12, Zenon DEF KnobSet, EditBindings, PadPost, Tick, Drain, StartFails, Fired, inputVars, bindingsVars, sources, told, knob, session
  <2> QED BY <1>a, <2>1 DEF HoldsAreOwed, PadsLetGo
<1> QED
  BY Steps, <1>1, <1>2, <1>3, <1>4, <1>5, <1>6, <1>7, <1>8, <1>9, <1>10, <1>11, <1>12, Zenon

(* InputTypeOK in parts, one for each group of variables. *)
SourcesTyped ==
  /\ g_src \in [Sources -> SUBSET Holdable]
  /\ g_held_keysym \in [Targets -> Keysyms \cup {NoKey}]
ToldTyped == g_keys_out \subseteq Switches /\ machine \subseteq Switches
KnobTyped ==
  /\ g_knob \in 0..4 * KnobMax
  /\ g_knob_pushed \in {NoSample} \cup 0..KnobMax
  /\ machine_knob \in 0..KnobMax
AxesTyped == g_pad_axis_last \in [PadSlots -> {NoSample} \cup 0..KnobMax]
SessionTyped ==
  /\ sysact_pending \subseteq SysActs /\ firing \subseteq SysActs
  /\ running \in BOOLEAN
  /\ gui \in {"idle", "drain", "fire", "restart"}
  /\ down \subseteq Keysyms

LEMMA TypeParts ==
  InputTypeOK <=> BindingsTypeOK /\ SourcesTyped /\ ToldTyped /\ KnobTyped /\ AxesTyped /\ SessionTyped
BY DEF InputTypeOK, SourcesTyped, ToldTyped, KnobTyped, AxesTyped, SessionTyped



(* Sources hold what can be held, for keys that there are. *)
LEMMA StepSourcesTyped == IInv /\ [InputNext]_inputVars => SourcesTyped'
<1> SUFFICES ASSUME IInv, [InputNext]_inputVars PROVE SourcesTyped'
  OBVIOUS
<1>a. InputTypeOK /\ SourcesTyped /\ ToldTyped /\ KnobTyped /\ AxesTyped /\ SessionTyped
  BY TypeParts DEF IInv
<1>b. PanelTargets \cup PadTargets \subseteq Holdable /\ \A s \in PadSlots : s \in Sources
  BY InstanceAssumption DEF Sources
<1>1. ASSUME NEW t \in PanelTargets, NEW press \in BOOLEAN, PanelPress(t, press) PROVE SourcesTyped'
  <2>1. g_held_keysym' = g_held_keysym
    BY <1>1, Zenon DEF PanelPress, inputVars, bindingsVars, sources, told, knob, session
  <2>2. g_src' \in [Sources -> SUBSET Holdable]
    BY <1>1, <1>a, <1>b DEF PanelPress, SourcesTyped
  <2> QED BY <1>a, <2>1, <2>2 DEF SourcesTyped
<1>2. ASSUME NEW k \in Keysyms, NEW c \in CtrlStates, KeyPress(k, c) PROVE SourcesTyped'
  <2>1. CASE UNCHANGED sources
    BY <1>a, <2>1 DEF sources, SourcesTyped
  <2>2. ASSUME NEW t \in BoundTo(k), Press(k, t) PROVE SourcesTyped'
    <3>1. t \in Targets /\ (t \notin SysActs => t \in Holdable)
      BY TargetsAssumption DEF BoundTo
    <3>2. g_held_keysym' \in [Targets -> Keysyms \cup {NoKey}]
      BY <1>a, <2>2, <3>1 DEF Press, SourcesTyped
    <3>3. g_src' \in [Sources -> SUBSET Holdable]
      BY <1>a, <2>2, <3>1 DEF Press, SourcesTyped
    <3> QED BY <3>2, <3>3 DEF SourcesTyped
  <2> QED BY <1>2, <2>1, <2>2 DEF KeyPress
<1>3. ASSUME NEW k \in Keysyms, KeyRelease(k) PROVE SourcesTyped'
  <2> QED BY <1>3, <1>a DEF KeyRelease, SourcesTyped
<1>4. ASSUME FocusOut PROVE SourcesTyped'
  <2> QED BY <1>4, <1>a DEF FocusOut, SourcesTyped, Unheld
<1>5. ASSUME NEW s \in PadSlots, NEW h \in SUBSET PadTargets, PadState(s, h) PROVE SourcesTyped'
  <2>1. g_held_keysym' = g_held_keysym
    BY <1>5, Zenon DEF PadState, inputVars, bindingsVars, sources, told, knob, session
  <2>2. g_src' \in [Sources -> SUBSET Holdable]
    BY <1>5, <1>a, <1>b DEF PadState, SourcesTyped
  <2> QED BY <1>a, <2>1, <2>2 DEF SourcesTyped
<1>6. ASSUME NEW s \in PadSlots, PadClear(s) PROVE SourcesTyped'
  <2>1. g_held_keysym' = g_held_keysym
    BY <1>6, Zenon DEF PadClear, inputVars, bindingsVars, sources, told, knob, session
  <2>2. g_src' \in [Sources -> SUBSET Holdable]
    BY <1>6, <1>a, <1>b DEF PadClear, SourcesTyped
  <2> QED BY <1>a, <2>1, <2>2 DEF SourcesTyped
<1>7. ASSUME FireResetGame PROVE SourcesTyped'
  <2> QED BY <1>7, <1>a DEF FireResetGame, SourcesTyped, Unheld, sources
<1>8. ASSUME FireResetConfig PROVE SourcesTyped'
  <2> QED BY <1>8, <1>a DEF FireResetConfig, StopSession, SourcesTyped, sources
<1>9. ASSUME LoadCart PROVE SourcesTyped'
  <2> QED BY <1>9, <1>a DEF LoadCart, StopSession, SourcesTyped, sources
<1>10. CASE \/ \E v \in 0..KnobMax : KnobSet(v)
            \/ \E s \in PadSlots, v \in 0..KnobMax : PadKnob(s, v)
            \/ \E a \in SysActs : PadPost(a)
            \/ \E d \in TickTimes : Tick(d)
            \/ EditBindings \/ Drain \/ StartSession \/ StartFails \/ Fired
            \/ UNCHANGED inputVars
  <2>1. UNCHANGED <<g_src, g_held_keysym>>
    BY <1>10, Zenon DEF KnobSet, EditBindings, PadKnob, PadPost, Tick, Drain, StartSession, StartFails, Fired, inputVars, bindingsVars, sources, told, knob, session
  <2> QED BY <1>a, <2>1 DEF SourcesTyped
<1> QED
  BY Steps, <1>1, <1>2, <1>3, <1>4, <1>5, <1>6, <1>7, <1>8, <1>9, <1>10, Zenon

(* The machine is only told of switches. *)
LEMMA StepToldTyped == IInv /\ [InputNext]_inputVars => ToldTyped'
<1> SUFFICES ASSUME IInv, [InputNext]_inputVars PROVE ToldTyped'
  OBVIOUS
<1>a. InputTypeOK /\ SourcesTyped /\ ToldTyped /\ KnobTyped /\ AxesTyped /\ SessionTyped
  BY TypeParts DEF IInv
<1>1. ASSUME NEW t \in PanelTargets, NEW press \in BOOLEAN, PanelPress(t, press) PROVE ToldTyped'
  <2>1. Push
    BY <1>1 DEF PanelPress
  <2> QED BY <1>a, <2>1, PushTells DEF ToldTyped
<1>2. ASSUME NEW k \in Keysyms, NEW c \in CtrlStates, KeyPress(k, c) PROVE ToldTyped'
  <2>1. Push \/ UNCHANGED <<g_keys_out, machine>>
    BY <1>2, Zenon DEF KeyPress, Press, told
  <2> QED BY <1>a, <2>1, PushTells DEF ToldTyped
<1>3. ASSUME NEW k \in Keysyms, KeyRelease(k) PROVE ToldTyped'
  <2>1. Push
    BY <1>3 DEF KeyRelease
  <2> QED BY <1>a, <2>1, PushTells DEF ToldTyped
<1>4. ASSUME FocusOut PROVE ToldTyped'
  <2>1. Push
    BY <1>4 DEF FocusOut
  <2> QED BY <1>a, <2>1, PushTells DEF ToldTyped
<1>5. ASSUME NEW s \in PadSlots, NEW h \in SUBSET PadTargets, PadState(s, h) PROVE ToldTyped'
  <2>1. Push
    BY <1>5 DEF PadState
  <2> QED BY <1>a, <2>1, PushTells DEF ToldTyped
<1>6. ASSUME NEW s \in PadSlots, PadClear(s) PROVE ToldTyped'
  <2>1. Push
    BY <1>6 DEF PadClear
  <2> QED BY <1>a, <2>1, PushTells DEF ToldTyped
<1>7. ASSUME FireResetGame PROVE ToldTyped'
  <2>1. PushAll \/ UNCHANGED <<g_keys_out, machine>>
    BY <1>7, Zenon DEF FireResetGame, told
  <2> QED BY <1>a, <2>1, PushAllTells DEF ToldTyped
<1>8. ASSUME FireResetConfig PROVE ToldTyped'
  <2>1. Push \/ UNCHANGED <<g_keys_out, machine>>
    BY <1>8, Zenon DEF FireResetConfig, StopSession, told
  <2> QED BY <1>a, <2>1, PushTells DEF ToldTyped
<1>9. ASSUME LoadCart PROVE ToldTyped'
  <2>1. Push \/ UNCHANGED <<g_keys_out, machine>>
    BY <1>9, Zenon DEF LoadCart, StopSession, told
  <2> QED BY <1>a, <2>1, PushTells DEF ToldTyped
<1>10. ASSUME StartSession PROVE ToldTyped'
  <2> QED BY <1>10 DEF StartSession, Resync, ToldTyped, Union
<1>11. ASSUME StartFails PROVE ToldTyped'
  <2> QED BY <1>11, <1>a DEF StartFails, ToldTyped
<1>12. CASE \/ \E v \in 0..KnobMax : KnobSet(v)
            \/ \E s \in PadSlots, v \in 0..KnobMax : PadKnob(s, v)
            \/ \E a \in SysActs : PadPost(a)
            \/ \E d \in TickTimes : Tick(d)
            \/ EditBindings \/ Drain \/ Fired \/ UNCHANGED inputVars
  <2>1. UNCHANGED <<g_keys_out, machine>>
    BY <1>12, Zenon DEF KnobSet, EditBindings, PadKnob, PadPost, Tick, Drain, Fired, inputVars, bindingsVars, sources, told, knob, session
  <2> QED BY <1>a, <2>1 DEF ToldTyped
<1> QED
  BY Steps, <1>1, <1>2, <1>3, <1>4, <1>5, <1>6, <1>7, <1>8, <1>9, <1>10, <1>11, <1>12, Zenon

(* The knob stays between its first and last position. *)
LEMMA StepKnobTyped == IInv /\ [InputNext]_inputVars => KnobTyped'
<1> SUFFICES ASSUME IInv, [InputNext]_inputVars PROVE KnobTyped'
  OBVIOUS
<1>a. InputTypeOK /\ SourcesTyped /\ ToldTyped /\ KnobTyped /\ AxesTyped /\ SessionTyped
  BY TypeParts DEF IInv
<1>1. ASSUME NEW v \in 0..KnobMax, KnobSet(v) PROVE KnobTyped'
  <2>1. PushKnob /\ g_knob' = 4 * v
    BY <1>1 DEF KnobSet
  <2>2. g_knob' \in 0..4 * KnobMax
    BY <1>a, <2>1, KnobMoves
  <2> QED BY <1>a, <2>1, <2>2, PushKnobTells DEF KnobTyped
<1>2. ASSUME NEW s \in PadSlots, NEW v \in 0..KnobMax, PadKnob(s, v) PROVE KnobTyped'
  <2>1. UNCHANGED knob \/ (PushKnob /\ g_knob' = 4 * v)
    BY <1>2, Zenon DEF PadKnob
  <2>2. 4 * v \in 0..4 * KnobMax
    BY <1>a, KnobMoves
  <2> QED BY <1>a, <2>1, <2>2, PushKnobTells DEF KnobTyped, knob
<1>3. ASSUME NEW d \in TickTimes, Tick(d) PROVE KnobTyped'
  <2>1. PushKnob /\ g_knob' = InRange(g_knob + KnobDir * d)
    BY <1>3 DEF Tick
  <2>2. g_knob' \in 0..4 * KnobMax
    BY <1>a, <2>1, KnobMoves
  <2> QED BY <1>a, <2>1, <2>2, PushKnobTells DEF KnobTyped
<1>4. ASSUME StartSession PROVE KnobTyped'
  <2>1. Rounded(g_knob) \in 0..KnobMax
    BY <1>a, RoundedInRange DEF KnobTyped
  <2>2. g_knob' = g_knob /\ g_knob_pushed' = Rounded(g_knob) /\ machine_knob' = KnobMax - Rounded(g_knob)
    BY <1>4 DEF StartSession, Resync
  <2> QED BY <1>a, <2>1, <2>2, KnobAssumption DEF KnobTyped
<1>5. ASSUME StartFails PROVE KnobTyped'
  <2> QED BY <1>5, <1>a, KnobAssumption DEF StartFails, KnobTyped
<1>6. CASE \/ \E t \in PanelTargets, press \in BOOLEAN : PanelPress(t, press)
           \/ \E k \in Keysyms, c \in CtrlStates : KeyPress(k, c)
           \/ \E k \in Keysyms : KeyRelease(k)
           \/ \E s \in PadSlots, h \in SUBSET PadTargets : PadState(s, h)
           \/ \E s \in PadSlots : PadClear(s)
           \/ \E a \in SysActs : PadPost(a)
           \/ FocusOut \/ EditBindings \/ Drain \/ FireResetGame \/ FireResetConfig
           \/ LoadCart \/ Fired \/ UNCHANGED inputVars
  <2>1. UNCHANGED <<g_knob, g_knob_pushed, machine_knob>>
    BY <1>6, Zenon DEF PanelPress, KeyPress, KeyRelease, FocusOut, EditBindings, PadState, PadClear, PadPost, Drain, FireResetGame, FireResetConfig, LoadCart, Fired, inputVars, bindingsVars, sources, told, knob, session
  <2> QED BY <1>a, <2>1 DEF KnobTyped
<1> QED
  BY Steps, <1>1, <1>2, <1>3, <1>4, <1>5, <1>6, Zenon

(* An axis is remembered by a position of the knob. *)
LEMMA StepAxesTyped == IInv /\ [InputNext]_inputVars => AxesTyped'
<1> SUFFICES ASSUME IInv, [InputNext]_inputVars PROVE AxesTyped'
  OBVIOUS
<1>a. InputTypeOK /\ SourcesTyped /\ ToldTyped /\ KnobTyped /\ AxesTyped /\ SessionTyped
  BY TypeParts DEF IInv
<1>1. ASSUME NEW s \in PadSlots, NEW v \in 0..KnobMax, PadKnob(s, v) PROVE AxesTyped'
  <2> QED BY <1>1, <1>a DEF PadKnob, AxesTyped
<1>2. ASSUME NEW s \in PadSlots, PadClear(s) PROVE AxesTyped'
  <2> QED BY <1>2, <1>a DEF PadClear, AxesTyped
<1>3. ASSUME FireResetConfig PROVE AxesTyped'
  <2> QED BY <1>3, <1>a DEF FireResetConfig, StopSession, AxesTyped
<1>4. ASSUME LoadCart PROVE AxesTyped'
  <2> QED BY <1>4, <1>a DEF LoadCart, StopSession, AxesTyped
<1>5. CASE \/ \E t \in PanelTargets, press \in BOOLEAN : PanelPress(t, press)
           \/ \E k \in Keysyms, c \in CtrlStates : KeyPress(k, c)
           \/ \E k \in Keysyms : KeyRelease(k)
           \/ \E v \in 0..KnobMax : KnobSet(v)
           \/ \E s \in PadSlots, h \in SUBSET PadTargets : PadState(s, h)
           \/ \E a \in SysActs : PadPost(a)
           \/ \E d \in TickTimes : Tick(d)
           \/ FocusOut \/ EditBindings \/ Drain \/ FireResetGame \/ StartSession
           \/ StartFails \/ Fired \/ UNCHANGED inputVars
  <2>1. UNCHANGED <<g_pad_axis_last>>
    BY <1>5, Zenon DEF PanelPress, KeyPress, KeyRelease, FocusOut, KnobSet, EditBindings, PadState, PadPost, Tick, Drain, FireResetGame, StartSession, StartFails, Fired, inputVars, bindingsVars, sources, told, knob, session
  <2> QED BY <1>a, <2>1 DEF AxesTyped
<1> QED
  BY Steps, <1>1, <1>2, <1>3, <1>4, <1>5, Zenon

(* Only system actions are posted, taken and fired. *)
LEMMA StepSessionTyped == IInv /\ [InputNext]_inputVars => SessionTyped'
<1> SUFFICES ASSUME IInv, [InputNext]_inputVars PROVE SessionTyped'
  OBVIOUS
<1>a. InputTypeOK /\ SourcesTyped /\ ToldTyped /\ KnobTyped /\ AxesTyped /\ SessionTyped
  BY TypeParts DEF IInv
<1>1. ASSUME NEW k \in Keysyms, NEW c \in CtrlStates, KeyPress(k, c) PROVE SessionTyped'
  <2>1. UNCHANGED <<firing, running>> /\ gui' = "drain" /\ down' = down \cup {k}
    BY <1>1, Zenon DEF KeyPress
  <2>2. sysact_pending' \subseteq SysActs
    BY <1>1, <1>a DEF KeyPress, Press, SessionTyped
  <2> QED BY <1>a, <2>1, <2>2 DEF SessionTyped
<1>2. ASSUME NEW k \in Keysyms, KeyRelease(k) PROVE SessionTyped'
  <2> QED BY <1>2, <1>a DEF KeyRelease, SessionTyped, session
<1>3. ASSUME FocusOut PROVE SessionTyped'
  <2> QED BY <1>3, <1>a DEF FocusOut, SessionTyped, session
<1>4. ASSUME NEW a \in SysActs, PadPost(a) PROVE SessionTyped'
  <2> QED BY <1>4, <1>a DEF PadPost, SessionTyped, session
<1>5. ASSUME Drain PROVE SessionTyped'
  <2> QED BY <1>5, <1>a DEF Drain, SessionTyped, session
<1>6. ASSUME FireResetGame PROVE SessionTyped'
  <2> QED BY <1>6, <1>a DEF FireResetGame, SessionTyped, session
<1>7. ASSUME FireResetConfig PROVE SessionTyped'
  <2> QED BY <1>7, <1>a DEF FireResetConfig, StopSession, SessionTyped
<1>8. ASSUME LoadCart PROVE SessionTyped'
  <2> QED BY <1>8, <1>a DEF LoadCart, StopSession, SessionTyped
<1>9. ASSUME StartSession PROVE SessionTyped'
  <2> QED BY <1>9, <1>a DEF StartSession, SessionTyped, session
<1>10. ASSUME StartFails PROVE SessionTyped'
  <2> QED BY <1>10, <1>a DEF StartFails, SessionTyped, session
<1>11. ASSUME Fired PROVE SessionTyped'
  <2> QED BY <1>11, <1>a DEF Fired, SessionTyped, session
<1>12. CASE \/ \E t \in PanelTargets, press \in BOOLEAN : PanelPress(t, press)
            \/ \E v \in 0..KnobMax : KnobSet(v)
            \/ \E s \in PadSlots, h \in SUBSET PadTargets : PadState(s, h)
            \/ \E s \in PadSlots, v \in 0..KnobMax : PadKnob(s, v)
            \/ \E s \in PadSlots : PadClear(s)
            \/ \E d \in TickTimes : Tick(d)
            \/ EditBindings \/ UNCHANGED inputVars
  <2>1. UNCHANGED <<sysact_pending, firing, running, gui, down>>
    BY <1>12, Zenon DEF PanelPress, KnobSet, EditBindings, PadState, PadKnob, PadClear, Tick, inputVars, bindingsVars, sources, told, knob, session
  <2> QED BY <1>a, <2>1 DEF SessionTyped
<1> QED
  BY Steps, <1>1, <1>2, <1>3, <1>4, <1>5, <1>6, <1>7, <1>8, <1>9, <1>10, <1>11, <1>12, Zenon

LEMMA InitInv == InputInit => IInv
<1> SUFFICES ASSUME InputInit PROVE IInv
  OBVIOUS
<1>1. BindingsTypeOK
  BY DefaultsAssumption DEF InputInit, BindingsInit, BindingsTypeOK, Overrides, Differing
<1>2. KnobMax \in Nat
  BY KnobAssumption
<1>3. 4 * ((KnobMax + 1) \div 2) \in 0..4 * KnobMax
  BY <1>2
<1>4. SourcesTyped /\ ToldTyped /\ AxesTyped /\ SessionTyped
  BY DEF InputInit, SourcesTyped, ToldTyped, AxesTyped, SessionTyped, Unheld
<1>5. KnobTyped
  BY <1>2, <1>3 DEF InputInit, KnobTyped
<1>6. InputTypeOK
  BY <1>1, <1>4, <1>5, TypeParts
<1>7. Switchboard
  BY DEF InputInit, Switchboard, OutIsUnion, MachineIsTold, KnobIsTold, StartIsFirst, Union
<1>8. HoldsAreOwed
  <2>1. Holdable \subseteq Targets /\ "keyboard" \in Sources
    BY TargetsAssumption DEF Sources
  <2> QED BY <2>1 DEF InputInit, HoldsAreOwed, Unheld
<1>9. PadsLetGo
  BY DEF InputInit, PadsLetGo, Sources
<1> QED BY <1>6, <1>7, <1>8, <1>9 DEF IInv

LEMMA StepInv == IInv /\ [InputNext]_inputVars => IInv'
<1> SUFFICES ASSUME IInv, [InputNext]_inputVars PROVE IInv'
  OBVIOUS
<1>1. BindingsTypeOK' /\ Switchboard' /\ HoldsAreOwed' /\ PadsLetGo'
  BY StepBindings, StepSwitchboard, StepHolds
<1>2. SourcesTyped' /\ ToldTyped' /\ KnobTyped' /\ AxesTyped' /\ SessionTyped'
  BY StepSourcesTyped, StepToldTyped, StepKnobTyped, StepAxesTyped, StepSessionTyped
<1>3. InputTypeOK'
  BY <1>1, <1>2
  DEF InputTypeOK, SourcesTyped, ToldTyped, KnobTyped, AxesTyped, SessionTyped
<1> QED BY <1>1, <1>3 DEF IInv

LEMMA Invariance == InputSpec => []IInv
BY InitInv, StepInv, PTL DEF InputSpec

(* Type correctness: every variable of Input stays in its range, the knob   *)
(* between its first and last position however it is ramped.                *)
THEOREM TypeCorrect == InputSpec => []InputTypeOK
<1>1. IInv => InputTypeOK
  BY DEF IInv
<1> QED BY <1>1, Invariance, PTL

(* Through presses and releases in any order by any source, resets and new  *)
(* sessions, a running machine has down what some source holds.             *)
THEOREM UnionIsSeen == InputSpec => []MachineSeesUnion
<1>1. IInv => MachineSeesUnion
  BY DEF IInv, Switchboard, OutIsUnion, MachineIsTold, MachineSeesUnion
<1> QED BY <1>1, Invariance, PTL

(* Whatever is rebound while keys are down, the keyboard holds a target only *)
(* for a key that is down.                                                   *)
THEOREM KeyboardHoldsAreOwed == InputSpec => []HoldsAreOwed
<1>1. IInv => HoldsAreOwed
  BY DEF IInv
<1> QED BY <1>1, Invariance, PTL

(* A running console reads the knob as it stands, from its first frame on.  *)
THEOREM KnobIsRead == InputSpec => []KnobIsFollowed
<1>1. IInv => KnobIsFollowed
  BY DEF IInv, Switchboard, KnobIsTold, KnobIsFollowed
<1> QED BY <1>1, Invariance, PTL

(* Without a poll thread no pad holds anything. *)
THEOREM PadsHoldOnlyInSessions == InputSpec => []PadsLetGo
<1>1. IInv => PadsLetGo
  BY DEF IInv
<1> QED BY <1>1, Invariance, PTL

=============================================================================
