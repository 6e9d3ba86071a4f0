------------------------------ MODULE Bindings ------------------------------
(***************************************************************************)
(* core/src/bindings.c: the table that says which key and which pad input   *)
(* drives a target, and what of it is saved. Binding an input takes it from *)
(* the target that had it. Keys are global; a pad input is looked up from   *)
(* one player's pad, which sees the targets of every pad and its own.       *)
(*                                                                          *)
(* Each call of bindings.c holds s_mtx throughout, so it is one step. The   *)
(* saved string is the function of the entries that differ from the         *)
(* defaults; settings.c keeps it as it is given.                            *)
(***************************************************************************)

CONSTANTS
  Targets,        \* keypad keys, system actions, the players' controls
  Keysyms, NoKey,
  PadInputs, NoPad,
  Players, EveryPad,
  scope_of,       \* a target's player, or EveryPad
  DefaultKey, DefaultPad

Overlap(a, b) == scope_of[a] = EveryPad \/ scope_of[b] = EveryPad \/ scope_of[a] = scope_of[b]

(* No two targets share a key, none that one pad can reach share an input. *)
KeysDistinct(key) ==
  \A a, b \in Targets : a # b /\ key[a] # NoKey => key[a] # key[b]
PadsDistinct(pad) ==
  \A a, b \in Targets : a # b /\ Overlap(a, b) /\ pad[a] # NoPad => pad[a] # pad[b]

ASSUME NothingAssumption == NoKey \notin Keysyms /\ NoPad \notin PadInputs
ASSUME ScopeAssumption == scope_of \in [Targets -> Players \cup {EveryPad}] /\ EveryPad \notin Players
ASSUME DefaultsAssumption ==
  /\ DefaultKey \in [Targets -> Keysyms \cup {NoKey}]
  /\ DefaultPad \in [Targets -> PadInputs \cup {NoPad}]
  /\ KeysDistinct(DefaultKey)
  /\ PadsDistinct(DefaultPad)

VARIABLES
  s_key, s_pad,          \* the live table
  saved_key, saved_pad   \* the "bindings" setting

table == <<s_key, s_pad>>
saved == <<saved_key, saved_pad>>
bindingsVars == <<s_key, s_pad, saved_key, saved_pad>>

Differing(live, default) == {t \in Targets : live[t] # default[t]}
Overrides(live, default) == [t \in Differing(live, default) |-> live[t]]
Overridden(default, over) ==
  [t \in Targets |-> IF t \in DOMAIN over THEN over[t] ELSE default[t]]

(* bindings_target_for_key and bindings_target_for_pad. The code takes the  *)
(* first match of a table scan; OneTargetPerInput says there is no other.   *)
BoundTo(k) == {t \in Targets : s_key[t] = k}
Reached(p, i) == {t \in Targets : s_pad[t] = i /\ scope_of[t] \in {EveryPad, p}}

BindingsTypeOK ==
  /\ s_key \in [Targets -> Keysyms \cup {NoKey}]
  /\ s_pad \in [Targets -> PadInputs \cup {NoPad}]
  /\ DOMAIN saved_key \subseteq Targets
  /\ DOMAIN saved_pad \subseteq Targets

BindingsInit ==
  /\ s_key = DefaultKey /\ s_pad = DefaultPad
  /\ saved_key = Overrides(DefaultKey, DefaultKey)
  /\ saved_pad = Overrides(DefaultPad, DefaultPad)

(* Faulty: an unbound entry is taken for one with nothing to save. *)
PersistBoundOnly ==
  /\ saved_key' = [t \in {u \in Differing(s_key', DefaultKey) : s_key'[u] # NoKey} |-> s_key'[t]]
  /\ saved_pad' = [t \in {u \in Differing(s_pad', DefaultPad) : s_pad'[u] # NoPad} |-> s_pad'[t]]

Persist ==
  /\ saved_key' = Overrides(s_key', DefaultKey)
  /\ saved_pad' = Overrides(s_pad', DefaultPad)

SetKeysym(t, k) ==
  /\ s_key' = [u \in Targets |-> IF u = t THEN k
                                 ELSE IF k # NoKey /\ s_key[u] = k THEN NoKey
                                 ELSE s_key[u]]
  /\ UNCHANGED s_pad
  /\ Persist

(* Faulty: a pad input is only taken from targets of the same scope. *)
SetPadWithinScope(t, i) ==
  /\ s_pad' = [u \in Targets |-> IF u = t THEN i
                                 ELSE IF i # NoPad /\ s_pad[u] = i /\ scope_of[u] = scope_of[t] THEN NoPad
                                 ELSE s_pad[u]]
  /\ UNCHANGED s_key
  /\ Persist

SetPad(t, i) ==
  /\ s_pad' = [u \in Targets |-> IF u = t THEN i
                                 ELSE IF i # NoPad /\ s_pad[u] = i /\ Overlap(u, t) THEN NoPad
                                 ELSE s_pad[u]]
  /\ UNCHANGED s_key
  /\ Persist

Clear(t) ==
  /\ s_key' = [s_key EXCEPT ![t] = NoKey]
  /\ s_pad' = [s_pad EXCEPT ![t] = NoPad]
  /\ Persist

ResetDefaults ==
  /\ s_key' = DefaultKey /\ s_pad' = DefaultPad
  /\ Persist

(* bindings_init, when the program is started again. *)
Reload ==
  /\ s_key' = Overridden(DefaultKey, saved_key)
  /\ s_pad' = Overridden(DefaultPad, saved_pad)
  /\ UNCHANGED saved

-----------------------------------------------------------------------------
(* A key, or an input of one player's pad, drives at most one target,       *)
(* whatever was rebound, cleared, reset or loaded; another player's pad may  *)
(* drive its own with the same input (bindings.h: "no two targets ever fire  *)
(* from the same input").                                                    *)
OneTargetPerInput == KeysDistinct(s_key) /\ PadsDistinct(s_pad)

(* What is saved loads back to the table that was saved: only entries that  *)
(* differ from the defaults are written, and a cleared one is among them.   *)
SavedLoadsBack ==
  /\ Overridden(DefaultKey, saved_key) = s_key
  /\ Overridden(DefaultPad, saved_pad) = s_pad
=============================================================================
