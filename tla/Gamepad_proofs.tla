--------------------------- MODULE Gamepad_proofs ---------------------------
(* The table stays free of conflicts and saved through Map mode and every   *)
(* relaunch, and a held button fires once, for every table and set of pads. *)
EXTENDS Gamepad, TLAPS

(* What every edit of the binding table keeps. *)
BindingsInv == BindingsTypeOK /\ OneTargetPerInput /\ SavedLoadsBack

KeyTable == [Targets -> Keysyms \cup {NoKey}]
PadTable == [Targets -> PadInputs \cup {NoPad}]

(* GamepadTypeOK in parts, one for each group of variables. *)
WorldTyped ==
  /\ device \in [Players -> Devices \cup {NoDevice}]
  /\ buttons \in [Players -> SUBSET Buttons]
  /\ axes \in [Players -> [Axes -> Levels]]
SlotsTyped ==
  /\ opened \in [Players -> Devices \cup {NoDevice}]
  /\ btn_prev \in [Players -> SUBSET Buttons]
  /\ axis_prev \in [Players -> SUBSET Axes]
  /\ held \in [Players -> SUBSET (Targets \ SysActs)]
  /\ was_down \in [Players -> SUBSET (PadInputs \X SUBSET Targets)]
  /\ sysact_pending \subseteq SysActs
MapTyped ==
  /\ s_capture_armed \in BOOLEAN /\ s_capture_have \in BOOLEAN
  /\ s_capture_id \in PadInputs \cup {NoPad}
  /\ map_state \in Targets \cup {NoTarget}

(* A button that was down at the last poll is remembered as one that was. *)
Remembered ==
  \A p \in Players : \A w \in was_down[p] : w[1] \in Buttons => w[1] \in btn_prev[p]

IInv == BindingsInv /\ WorldTyped /\ SlotsTyped /\ MapTyped /\ Remembered

-----------------------------------------------------------------------------
(* The table. *)

(* Saving what differs from the defaults and laying it over them gives the  *)
(* table back.                                                              *)
LEMMA OverridesLoadBack ==
  ASSUME NEW S, NEW live \in [Targets -> S], NEW default \in [Targets -> S]
  PROVE  /\ DOMAIN Overrides(live, default) \subseteq Targets
         /\ Overridden(default, Overrides(live, default)) = live
BY DEF Overrides, Overridden, Differing

LEMMA PersistKeeps ==
  ASSUME s_key' \in KeyTable, s_pad' \in PadTable, Persist
  PROVE  /\ (DOMAIN saved_key \subseteq Targets)' /\ (DOMAIN saved_pad \subseteq Targets)'
         /\ SavedLoadsBack'
<1>1. saved_key' = Overrides(s_key', DefaultKey) /\ saved_pad' = Overrides(s_pad', DefaultPad)
  BY DEF Persist
<1>2. DefaultKey \in KeyTable /\ DefaultPad \in PadTable
  BY DefaultsAssumption DEF KeyTable, PadTable
<1>3. /\ DOMAIN Overrides(s_key', DefaultKey) \subseteq Targets
      /\ Overridden(DefaultKey, Overrides(s_key', DefaultKey)) = s_key'
  BY <1>2, OverridesLoadBack DEF KeyTable
<1>4. /\ DOMAIN Overrides(s_pad', DefaultPad) \subseteq Targets
      /\ Overridden(DefaultPad, Overrides(s_pad', DefaultPad)) = s_pad'
  BY <1>2, OverridesLoadBack DEF PadTable
<1> QED BY <1>1, <1>3, <1>4 DEF SavedLoadsBack

LEMMA BindingsInitInv == BindingsInit => BindingsInv
<1> SUFFICES ASSUME BindingsInit PROVE BindingsInv
  OBVIOUS
<1>1. DefaultKey \in KeyTable /\ DefaultPad \in PadTable
  BY DefaultsAssumption DEF KeyTable, PadTable
<1>2. /\ DOMAIN Overrides(DefaultKey, DefaultKey) \subseteq Targets
      /\ Overridden(DefaultKey, Overrides(DefaultKey, DefaultKey)) = DefaultKey
  BY <1>1, OverridesLoadBack DEF KeyTable
<1>3. /\ DOMAIN Overrides(DefaultPad, DefaultPad) \subseteq Targets
      /\ Overridden(DefaultPad, Overrides(DefaultPad, DefaultPad)) = DefaultPad
  BY <1>1, OverridesLoadBack DEF PadTable
<1>4. SavedLoadsBack
  BY <1>2, <1>3 DEF SavedLoadsBack, BindingsInit
<1>5. OneTargetPerInput
  BY DefaultsAssumption DEF OneTargetPerInput, BindingsInit
<1>6. BindingsTypeOK
  BY <1>1, <1>2, <1>3 DEF BindingsTypeOK, BindingsInit, KeyTable, PadTable
<1> QED BY <1>4, <1>5, <1>6 DEF BindingsInv

(* A key is taken from the target that had it. *)
LEMMA SetKeysymInv ==
  ASSUME BindingsInv, NEW t \in Targets, NEW k \in Keysyms \cup {NoKey}, SetKeysym(t, k)
  PROVE  BindingsInv'
<1>1. s_key' \in KeyTable /\ s_pad' \in PadTable
  BY DEF SetKeysym, BindingsInv, BindingsTypeOK, KeyTable, PadTable
<1>2. SavedLoadsBack' /\ (DOMAIN saved_key \subseteq Targets)' /\ (DOMAIN saved_pad \subseteq Targets)'
  BY <1>1, PersistKeeps DEF SetKeysym
<1>3. KeysDistinct(s_key')
  BY DEF KeysDistinct, SetKeysym, BindingsInv, BindingsTypeOK, OneTargetPerInput
<1>4. PadsDistinct(s_pad')
  BY DEF SetKeysym, BindingsInv, OneTargetPerInput
<1> QED BY <1>1, <1>2, <1>3, <1>4 DEF BindingsInv, BindingsTypeOK, OneTargetPerInput, KeyTable, PadTable

(* A pad input is taken from every target whose scope meets the new one's.  *)
LEMMA SetPadInv ==
  ASSUME BindingsInv, NEW t \in Targets, NEW i \in PadInputs \cup {NoPad}, SetPad(t, i)
  PROVE  BindingsInv'
<1>1. s_key' \in KeyTable /\ s_pad' \in PadTable
  BY DEF SetPad, BindingsInv, BindingsTypeOK, KeyTable, PadTable
<1>2. SavedLoadsBack' /\ (DOMAIN saved_key \subseteq Targets)' /\ (DOMAIN saved_pad \subseteq Targets)'
  BY <1>1, PersistKeeps DEF SetPad
<1>3. KeysDistinct(s_key')
  BY DEF SetPad, BindingsInv, OneTargetPerInput
<1>4. PadsDistinct(s_pad')
  <2> SUFFICES ASSUME NEW a \in Targets, NEW b \in Targets,
                      a # b, Overlap(a, b), s_pad'[a] # NoPad, s_pad'[a] = s_pad'[b]
               PROVE  FALSE
    BY DEF PadsDistinct
  <2>1. Overlap(b, a)
    BY DEF Overlap
  <2>2. \A u \in Targets : s_pad'[u] = IF u = t THEN i
                                        ELSE IF i # NoPad /\ s_pad[u] = i /\ Overlap(u, t) THEN NoPad
                                        ELSE s_pad[u]
    BY DEF SetPad
  <2>3. CASE a = t
    BY <2>1, <2>2, <2>3
  <2>4. CASE b = t
    BY <2>2, <2>4
  <2>5. CASE a # t /\ b # t
    <3>1. s_pad'[a] = s_pad[a] /\ s_pad'[b] = s_pad[b]
      BY <2>2, <2>5
    <3> QED BY <3>1 DEF PadsDistinct, BindingsInv, OneTargetPerInput
  <2> QED BY <2>3, <2>4, <2>5
<1> QED BY <1>1, <1>2, <1>3, <1>4 DEF BindingsInv, BindingsTypeOK, OneTargetPerInput, KeyTable, PadTable

LEMMA ClearInv ==
  ASSUME BindingsInv, NEW t \in Targets, Clear(t)
  PROVE  BindingsInv'
<1>1. s_key' \in KeyTable /\ s_pad' \in PadTable
  BY DEF Clear, BindingsInv, BindingsTypeOK, KeyTable, PadTable
<1>2. SavedLoadsBack' /\ (DOMAIN saved_key \subseteq Targets)' /\ (DOMAIN saved_pad \subseteq Targets)'
  BY <1>1, PersistKeeps DEF Clear
<1>3. KeysDistinct(s_key') /\ PadsDistinct(s_pad')
  BY DEF KeysDistinct, PadsDistinct, Clear, BindingsInv, BindingsTypeOK, OneTargetPerInput
<1> QED BY <1>1, <1>2, <1>3 DEF BindingsInv, BindingsTypeOK, OneTargetPerInput, KeyTable, PadTable

LEMMA ResetDefaultsInv == ASSUME ResetDefaults PROVE BindingsInv'
<1>1. s_key' \in KeyTable /\ s_pad' \in PadTable
  BY DefaultsAssumption DEF ResetDefaults, KeyTable, PadTable
<1>2. SavedLoadsBack' /\ (DOMAIN saved_key \subseteq Targets)' /\ (DOMAIN saved_pad \subseteq Targets)'
  BY <1>1, PersistKeeps DEF ResetDefaults
<1>3. KeysDistinct(s_key') /\ PadsDistinct(s_pad')
  BY DefaultsAssumption DEF ResetDefaults
<1> QED BY <1>1, <1>2, <1>3 DEF BindingsInv, BindingsTypeOK, OneTargetPerInput, KeyTable, PadTable

(* Starting again changes nothing: what was saved is the table. *)
LEMMA ReloadInv == ASSUME BindingsInv, Reload PROVE BindingsInv'
<1>1. UNCHANGED bindingsVars
  BY DEF Reload, saved, bindingsVars, BindingsInv, SavedLoadsBack
<1> QED BY <1>1 DEF bindingsVars, BindingsInv, BindingsTypeOK, OneTargetPerInput, SavedLoadsBack

LEMMA BindingsStutter == ASSUME BindingsInv, UNCHANGED bindingsVars PROVE BindingsInv'
BY DEF bindingsVars, BindingsInv, BindingsTypeOK, OneTargetPerInput, SavedLoadsBack

-----------------------------------------------------------------------------
(* The pads. *)


(* The kinds of step there are. *)
LEMMA Steps ==
  [GamepadNext]_gamepadVars =>
    \/ \E p \in Players : ApplyPad(p)
    \/ \E p \in Players : ClosePad(p)
    \/ \E p \in Players, d \in Devices \cup {NoDevice} : Plug(p, d)
    \/ \E p \in Players : Play(p)
    \/ \E t \in Targets : MapTarget(t)
    \/ \E k \in Keysyms : MapKey(k)
    \/ NextPollThread \/ Drain \/ MapCaptured \/ MapEnds \/ ResetToDefaults \/ Relaunch \/ UNCHANGED gamepadVars
<1>1. Seated \subseteq Players /\ Editable \subseteq Targets
  BY DevicesAssumption, TargetsAssumption
<1> QED BY <1>1, Zenon DEF GamepadNext, Poll

(* Inputs that are down are inputs. *)
LEMMA DownIsInput ==
  ASSUME WorldTyped, NEW p \in Players
  PROVE  /\ Down(p) \subseteq PadInputs /\ Pressed(p) \subseteq Buttons
         /\ OverAxes(p) \subseteq Axes /\ Captured(p) \subseteq PadInputs
<1>1. Down(p) \subseteq PadInputs /\ Pressed(p) \subseteq Buttons /\ OverAxes(p) \subseteq Axes
  BY InputsAssumption DEF WorldTyped, Down, DownAxes, Pressed, OverAxes
<1>2. Captured(p) \subseteq Pressed(p) \cup OverAxes(p)
  BY DEF Captured, Lowest, Passed
<1> QED BY <1>1, <1>2, InputsAssumption

LEMMA StepWorld == IInv /\ [GamepadNext]_gamepadVars => WorldTyped'
<1> SUFFICES ASSUME IInv, [GamepadNext]_gamepadVars PROVE WorldTyped'
  OBVIOUS
<1>a. WorldTyped
  BY DEF IInv
<1>1. ASSUME NEW p \in Players, NEW d \in Devices \cup {NoDevice}, Plug(p, d) PROVE WorldTyped'
  <2>1. PICK pushed \in SUBSET Buttons, levels \in [Axes -> Levels] :
          buttons' = [buttons EXCEPT ![p] = pushed] /\ axes' = [axes EXCEPT ![p] = levels]
    BY <1>1 DEF Plug
  <2>2. device' = [device EXCEPT ![p] = d]
    BY <1>1 DEF Plug
  <2>3. device' \in [Players -> Devices \cup {NoDevice}]
    BY <1>a, <2>2 DEF WorldTyped
  <2>4. buttons' \in [Players -> SUBSET Buttons]
    BY <1>a, <2>1 DEF WorldTyped
  <2>5. axes' \in [Players -> [Axes -> Levels]]
    BY <1>a, <2>1 DEF WorldTyped
  <2> QED BY <2>3, <2>4, <2>5 DEF WorldTyped
<1>2. ASSUME NEW p \in Players, Play(p) PROVE WorldTyped'
  <2>1. CASE \E b \in Buttons :
               /\ buttons' = [buttons EXCEPT ![p] = IF b \in @ THEN @ \ {b} ELSE @ \cup {b}]
               /\ UNCHANGED <<axes, device>>
    BY <1>a, <2>1 DEF WorldTyped
  <2>2. ASSUME NEW a \in Axes, NEW level \in Levels, UNCHANGED <<buttons, device>>,
               axes' = [axes EXCEPT ![p][a] = level]
        PROVE  WorldTyped'
    <3>1. [axes[p] EXCEPT ![a] = level] \in [Axes -> Levels]
      BY <1>a, <2>2 DEF WorldTyped
    <3>2. axes' = [axes EXCEPT ![p] = [axes[p] EXCEPT ![a] = level]]
      BY <1>a, <2>2 DEF WorldTyped
    <3> QED BY <1>a, <2>2, <3>1, <3>2 DEF WorldTyped
  <2> QED BY <1>2, <2>1, <2>2 DEF Play
<1>3. CASE \/ \E p \in Players : ApplyPad(p)
           \/ \E p \in Players : ClosePad(p)
           \/ \E t \in Targets : MapTarget(t)
           \/ \E k \in Keysyms : MapKey(k)
           \/ NextPollThread \/ Drain \/ MapCaptured \/ MapEnds \/ ResetToDefaults \/ Relaunch \/ UNCHANGED gamepadVars
  <2>1. UNCHANGED world
    BY <1>3, Zenon DEF ApplyPad, ClosePad, MapTarget, MapKey, NextPollThread, Drain, MapCaptured, MapEnds, ResetToDefaults, Relaunch, gamepadVars
  <2> QED BY <1>a, <2>1 DEF world, WorldTyped
<1> QED BY Steps, <1>1, <1>2, <1>3, Zenon

LEMMA StepSlots == IInv /\ [GamepadNext]_gamepadVars => SlotsTyped' /\ Remembered'
<1> SUFFICES ASSUME IInv, [GamepadNext]_gamepadVars PROVE SlotsTyped' /\ Remembered'
  OBVIOUS
<1>a. SlotsTyped /\ Remembered /\ WorldTyped
  BY DEF IInv
<1>1. ASSUME NEW p \in Players, ApplyPad(p) PROVE SlotsTyped' /\ Remembered'
  <2>1. device[p] \in Devices \cup {NoDevice} /\ buttons[p] \subseteq Buttons /\ OverAxes(p) \subseteq Axes
    BY <1>a, DownIsInput DEF WorldTyped
  <2>2. Played(p) \subseteq Targets \ SysActs /\ Posted(p) \subseteq SysActs
    BY DEF Played, Posted
  <2> DEFINE now == {<<i, Reached(p, i)>> : i \in Down(p)}
  <2>3. \A i : Reached(p, i) \subseteq Targets
    BY DEF Reached
  <2>4. now \subseteq PadInputs \X SUBSET Targets
    BY <1>a, <2>3, DownIsInput
  <2>5. \A w \in now : w[1] \in Buttons => w[1] \in buttons[p]
    BY InputsAssumption DEF Down, DownAxes
  <2>6. SlotsTyped'
    BY <1>a, <1>1, <2>1, <2>2, <2>4 DEF ApplyPad, SlotsTyped
  <2>7. was_down' = [was_down EXCEPT ![p] = now] /\ btn_prev' = [btn_prev EXCEPT ![p] = buttons[p]]
    BY <1>1 DEF ApplyPad
  <2> HIDE DEF now
  <2>8. Remembered'
    BY <1>a, <2>5, <2>7 DEF SlotsTyped, Remembered
  <2> QED BY <2>6, <2>8
<1>2. ASSUME NEW p \in Players, ClosePad(p) PROVE SlotsTyped' /\ Remembered'
  BY <1>a, <1>2 DEF ClosePad, SlotsTyped, Remembered
<1>3. CASE NextPollThread \/ Relaunch
  BY <1>a, <1>3 DEF NextPollThread, Relaunch, SlotsTyped, Remembered, None
<1>4. CASE Drain
  BY <1>a, <1>4 DEF Drain, slots, SlotsTyped, Remembered
<1>5. CASE \/ \E p \in Players, d \in Devices \cup {NoDevice} : Plug(p, d)
           \/ \E p \in Players : Play(p)
           \/ \E t \in Targets : MapTarget(t)
           \/ \E k \in Keysyms : MapKey(k)
           \/ MapCaptured \/ MapEnds \/ ResetToDefaults \/ UNCHANGED gamepadVars
  <2>1. UNCHANGED slots /\ UNCHANGED sysact_pending
    BY <1>5, Zenon DEF Plug, Play, MapTarget, MapKey, MapCaptured, MapEnds, ResetToDefaults, gamepadVars
  <2> QED BY <1>a, <2>1 DEF slots, SlotsTyped, Remembered
<1> QED BY Steps, <1>1, <1>2, <1>3, <1>4, <1>5, Zenon

(* Map mode binds an input to a target. *)
LEMMA StepMap == IInv /\ [GamepadNext]_gamepadVars => MapTyped'
<1> SUFFICES ASSUME IInv, [GamepadNext]_gamepadVars PROVE MapTyped'
  OBVIOUS
<1>a. MapTyped
  BY DEF IInv
<1>1. ASSUME NEW p \in Players, ApplyPad(p) PROVE MapTyped'
  <2>1. Recorded(p) /\ UNCHANGED map_state
    BY <1>1 DEF ApplyPad
  <2>2. Captured(p) \subseteq PadInputs
    BY DownIsInput DEF IInv
  <2> QED BY <1>a, <2>1, <2>2 DEF Recorded, capture, MapTyped
<1>2. ASSUME NEW t \in Targets, MapTarget(t) PROVE MapTyped'
  BY <1>a, <1>2 DEF MapTarget, CaptureBegin, MapTyped
<1>3. CASE MapCaptured
  BY <1>a, <1>3 DEF MapCaptured, CaptureBegin, CaptureCancel, MapTyped
<1>4. CASE (\E k \in Keysyms : MapKey(k)) \/ MapEnds \/ Relaunch
  BY <1>a, <1>4 DEF MapKey, MapEnds, Relaunch, CaptureCancel, MapTyped
<1>5. CASE \/ \E p \in Players : ClosePad(p)
           \/ \E p \in Players, d \in Devices \cup {NoDevice} : Plug(p, d)
           \/ \E p \in Players : Play(p)
           \/ NextPollThread \/ Drain \/ ResetToDefaults \/ UNCHANGED gamepadVars
  <2>1. UNCHANGED capture /\ UNCHANGED map_state
    BY <1>5, Zenon DEF ClosePad, Plug, Play, NextPollThread, Drain, ResetToDefaults, gamepadVars
  <2> QED BY <1>a, <2>1 DEF capture, MapTyped
<1> QED BY Steps, <1>1, <1>2, <1>3, <1>4, <1>5, Zenon

(* Every edit of the table, and what a relaunch loads. *)
LEMMA StepBindings == IInv /\ [GamepadNext]_gamepadVars => BindingsInv'
<1> SUFFICES ASSUME IInv, [GamepadNext]_gamepadVars PROVE BindingsInv'
  OBVIOUS
<1>a. BindingsInv /\ map_state \in Targets \cup {NoTarget} /\ s_capture_id \in PadInputs \cup {NoPad}
  BY DEF IInv, MapTyped
<1>1. ASSUME NEW k \in Keysyms, MapKey(k) PROVE BindingsInv'
  <2>1. map_state \in Targets /\ SetKeysym(map_state, k)
    BY <1>a, <1>1 DEF MapKey
  <2> QED BY <1>a, <2>1, SetKeysymInv
<1>2. ASSUME MapCaptured PROVE BindingsInv'
  <2>1. map_state \in Targets /\ (SetPad(map_state, s_capture_id) \/ UNCHANGED bindingsVars)
    BY <1>a, <1>2 DEF MapCaptured
  <2> QED BY <1>a, <2>1, SetPadInv, BindingsStutter
<1>3. ASSUME MapEnds PROVE BindingsInv'
  <2>1. map_state \in Targets /\ (Clear(map_state) \/ UNCHANGED bindingsVars)
    BY <1>a, <1>3 DEF MapEnds
  <2> QED BY <1>a, <2>1, ClearInv, BindingsStutter
<1>4. CASE ResetToDefaults
  BY <1>4, ResetDefaultsInv DEF ResetToDefaults
<1>5. CASE Relaunch
  BY <1>a, <1>5, ReloadInv DEF Relaunch
<1>6. CASE \/ \E p \in Players : ApplyPad(p)
           \/ \E p \in Players : ClosePad(p)
           \/ \E p \in Players, d \in Devices \cup {NoDevice} : Plug(p, d)
           \/ \E p \in Players : Play(p)
           \/ \E t \in Targets : MapTarget(t)
           \/ NextPollThread \/ Drain \/ UNCHANGED gamepadVars
  <2>1. UNCHANGED bindingsVars
    BY <1>6, Zenon DEF ApplyPad, ClosePad, Plug, Play, MapTarget, NextPollThread, Drain, gamepadVars
  <2> QED BY <1>a, <2>1, BindingsStutter
<1> QED BY Steps, <1>1, <1>2, <1>3, <1>4, <1>5, <1>6, Zenon

LEMMA InitInv == GamepadInit => IInv
<1> SUFFICES ASSUME GamepadInit PROVE IInv
  OBVIOUS
<1>1. BindingsInv
  BY BindingsInitInv DEF GamepadInit
<1>2. WorldTyped /\ SlotsTyped /\ MapTyped /\ Remembered
  BY DEF GamepadInit, None, AtRest, Levels, WorldTyped, SlotsTyped, MapTyped, Remembered
<1> QED BY <1>1, <1>2 DEF IInv

LEMMA Invariance == GamepadSpec => []IInv
<1>1. IInv /\ [GamepadNext]_gamepadVars => IInv'
  BY StepBindings, StepWorld, StepSlots, StepMap DEF IInv
<1> QED BY InitInv, <1>1, PTL DEF GamepadSpec

(* A pad that is polled again has the buttons up that it did not remember.  *)
LEMMA PollFiresOnce ==
  ASSUME IInv, NEW p \in Players, NEW t \in SysActs, Poll(p), t \in sysact_pending' \ sysact_pending
  PROVE  \E i \in Down(p) :
            /\ t \in Reached(p, i)
            /\ i \in Buttons /\ opened[p] = device[p] => \A w \in was_down[p] : w[1] # i
<1>1. ApplyPad(p)
  BY DEF Poll, ClosePad
<1>2. t \in Posted(p)
  BY <1>1 DEF ApplyPad
<1>3. PICK i \in Pressed(p) \cup (DownAxes(p) \ Before(p, axis_prev)) : t \in Reached(p, i)
  BY <1>2 DEF Posted
<1>4. i \in Down(p)
  BY <1>3 DEF Down, Pressed
<1>5. ASSUME i \in Buttons, opened[p] = device[p], NEW w \in was_down[p] PROVE w[1] # i
  <2>1. i \in Pressed(p)
    BY <1>3, <1>5, InputsAssumption DEF DownAxes
  <2>2. i \notin btn_prev[p]
    BY <1>5, <2>1 DEF Pressed, Before
  <2> QED BY <1>5, <2>2 DEF IInv, Remembered
<1> QED BY <1>3, <1>4, <1>5

(* A key or an input of one pad never drives two targets, through Map mode,  *)
(* Clear, Defaults and every relaunch.                                       *)
THEOREM InputsNeverConflict == GamepadSpec => []OneTargetPerInput
<1>1. IInv => OneTargetPerInput
  BY DEF IInv, BindingsInv
<1> QED BY <1>1, Invariance, PTL

(* The settings always load back to the live table. *)
THEOREM SettingsLoadBack == GamepadSpec => []SavedLoadsBack
<1>1. IInv => SavedLoadsBack
  BY DEF IInv, BindingsInv
<1> QED BY <1>1, Invariance, PTL

(* Type correctness of the poll thread's slots, Map mode and the table. *)
THEOREM TypeCorrect == GamepadSpec => []GamepadTypeOK
<1>1. IInv => GamepadTypeOK
  BY DEF IInv, BindingsInv, WorldTyped, SlotsTyped, MapTyped, GamepadTypeOK
<1> QED BY <1>1, Invariance, PTL

(* A held button posts its system action once, however often the pad is      *)
(* polled and whatever is rebound in between.                                *)
THEOREM HeldButtonsFireOnce == GamepadSpec => ButtonsFireOnce
<1> DEFINE Once ==
  \A p \in Players, t \in SysActs :
     Poll(p) /\ t \in sysact_pending' \ sysact_pending =>
       \E i \in Down(p) :
          /\ t \in Reached(p, i)
          /\ i \in Buttons /\ opened[p] = device[p] => \A w \in was_down[p] : w[1] # i
<1>1. IInv => Once
  BY PollFiresOnce
<1> QED BY <1>1, Invariance, PTL DEF ButtonsFireOnce
=============================================================================
