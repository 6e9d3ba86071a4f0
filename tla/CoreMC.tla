------------------------------- MODULE CoreMC -------------------------------
(***************************************************************************)
(* Small instances of DebugEngine and of Input, for TLC. A behaviour       *)
(* chooses the part that moves, among Parts; the others stay where they    *)
(* begin. Input has a switch that all sources can hold, the knob with its  *)
(* two keys, both RESET actions, two keys and a pad; it is two parts: in   *)
(* "switches" the knob stays where it is, in "knob" only the keyboard      *)
(* holds the switch.                                                       *)
(***************************************************************************)
EXTENDS DebugEngine, Input, TLC

CONSTANTS
  Parts,           \* the parts of a run
  fire, dec, inc, game, config, backspace, space, pad1

MCTargets == {fire, dec, inc, game, config}
MCScope == [t \in MCTargets |-> EveryPad]
MCDefaultKey == (game :> backspace) @@ (fire :> space) @@ [t \in MCTargets |-> NoKey]
MCDefaultPad == [t \in MCTargets |-> NoPad]

VARIABLE part

CoreInit == part \in Parts /\ Init /\ InputInit

CoreNext ==
  /\ UNCHANGED part
  /\ \/ part = "engine" /\ Next /\ UNCHANGED inputVars
     \/ /\ part = "switches" /\ InputNext /\ UNCHANGED vars
        /\ UNCHANGED <<g_knob, g_pad_axis_last>>
     \/ /\ part = "knob" /\ InputNext /\ UNCHANGED vars
        /\ fire \notin g_src'["panel"] \cup g_src'[pad1]

CoreSpec == CoreInit /\ [][CoreNext]_<<part, vars, inputVars>>

(* The threads of the part that moves are scheduled: DebugEngine's FairSpec  *)
(* and InputFairSpec.                                                        *)
inputs == part \in {"switches", "knob"}
CoreFairSpec ==
  /\ CoreSpec
  /\ WF_vars(part = "engine" /\ MachineThread) /\ WF_vars(part = "engine" /\ HostCall)
  /\ SF_inputVars(inputs /\ Drain)
  /\ WF_inputVars(inputs /\ (\/ FireResetGame \/ FireResetConfig
                             \/ StartSession \/ StartFails \/ Fired))
=============================================================================
