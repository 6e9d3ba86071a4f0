---------------------------- MODULE DebugControl ----------------------------
(***************************************************************************)
(* What the debugger promises its windows (core/include/astrodebug.h), with *)
(* no hooks, condition variables, latches or threads in sight:              *)
(*                                                                          *)
(*   - a machine is off, running, stopped, or draining (the session is      *)
(*     ending and the emulation thread finishes what it is doing);          *)
(*   - it is stopped only while a window holds the engine attached, and     *)
(*     only a release, a detach or the end of the session ends a stop;      *)
(*   - while it is stopped, nothing advances;                               *)
(*   - an ending session is never stopped again.                            *)
(*                                                                          *)
(* DebugEngine implements it: see DebugEngine!Control.                      *)
(***************************************************************************)
CONSTANT Progress      \* how far the machine is, as far as a window can tell

VARIABLES
  mode,                \* what the windows are told
  attached,            \* a window holds the engine
  progress             \* moves when an instruction is let go

vars == <<mode, attached, progress>>

Modes == {"off", "running", "stopped", "draining"}

TypeOK ==
  /\ mode \in Modes
  /\ attached \in BOOLEAN
  /\ progress \in Progress

Init ==
  /\ mode = "off"
  /\ attached = FALSE
  /\ progress \in Progress

\* A session begins.
Begin ==
  /\ mode = "off"
  /\ mode' = "running"
  /\ progress' \in Progress
  /\ UNCHANGED attached

\* A session is told to end. A stopped machine is let go for it.
Drain ==
  /\ mode \in {"running", "stopped"}
  /\ mode' = "draining"
  /\ UNCHANGED <<attached, progress>>

\* The emulation thread has been joined.
End ==
  /\ mode = "draining"
  /\ mode' = "off"
  /\ UNCHANGED <<attached, progress>>

Attach ==
  /\ attached' = TRUE
  /\ UNCHANGED <<mode, progress>>

Detach ==
  /\ attached' = FALSE
  /\ mode' = IF mode = "stopped" THEN "running" ELSE mode
  /\ UNCHANGED progress

Park ==
  /\ mode = "running"
  /\ attached
  /\ mode' = "stopped"
  /\ UNCHANGED <<attached, progress>>

Release ==
  /\ mode = "stopped"
  /\ mode' = "running"
  /\ UNCHANGED <<attached, progress>>

Advance ==
  /\ mode \in {"running", "draining"}
  /\ progress' \in Progress
  /\ UNCHANGED <<mode, attached>>

Next ==
  \/ Begin \/ Drain \/ End
  \/ Attach \/ Detach
  \/ Park \/ Release \/ Advance

Spec == Init /\ [][Next]_vars
=============================================================================
