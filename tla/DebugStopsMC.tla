---------------------------- MODULE DebugStopsMC ----------------------------
(* DebugStops for TLC: a routine at 3 that may call itself, saves and drops a  *)
(* word, loops and returns; a handler at 8 that enables interrupts again.      *)
EXTENDS DebugStops, TLC

Ins(op, to, access, at) == [op |-> op, to |-> to, access |-> access, at |-> at]

MCProgram ==
     0 :> Ins("call", 3, "none", 0)
  @@ 1 :> Ins("halt", 0, "none", 0)
  @@ 2 :> Ins("jp", 0, "operand", 0)
  @@ 3 :> Ins("call", 3, "none", 0)
  @@ 4 :> Ins("push", 0, "write", 5)
  @@ 5 :> Ins("drop", 0, "in", 1)
  @@ 6 :> Ins("djnz", 6, "none", 0)
  @@ 7 :> Ins("ret", 0, "none", 0)
  @@ 8 :> Ins("ei", 0, "none", 0)
  @@ 9 :> Ins("ret", 0, "none", 0)

Entry(type, start, end, condition) ==
  [type |-> type, start |-> start, end |-> end, condition |-> condition]
MCEntries == {Entry({"read", "write"}, 5, 2, "none"), Entry({"in"}, 1, 1, "some")}

\* What a goal in force does not use, the next one sets before it is used; the
\* reason of a stop, and the frame, are looked at only then.
Relevant ==
  <<bpVars, pc, stack, halted, iff, scanline, mt, stopped, stop_req, pending, act,
    mark, owed, due,
    IF act \in {"step", "scanline", "frame"} THEN count ELSE 0,
    IF act \in {"over", "out", "runto"} THEN target ELSE 0,
    IF act \in {"over", "out"} THEN sp_guard ELSE 0,
    act = "scanline" /\ last_line = scanline, act = "frame" /\ last_frame = frame,
    IF stopped THEN reason ELSE "running",
    IF act \in {"scanline", "frame"} \/ (stopped /\ reason \in {"scanline", "frame"})
      THEN <<turns, asked>> ELSE <<>>>>
=============================================================================
