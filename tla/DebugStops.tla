----------------------------- MODULE DebugStops -----------------------------
(***************************************************************************)
(* What stops a debugged program, and where: breakpoints, watchpoints and   *)
(* the goals of stepping (core/debugger/debugger.c) against a program that  *)
(* calls, recurses, is interrupted and juggles its stack.                   *)
(*                                                                          *)
(* DebugEngine says when the machine thread may be parked and let go, and   *)
(* leaves open whether a breakpoint matches or a goal is met. This module   *)
(* says it. The engine is attached throughout and the session does not end. *)
(* The program is a constant; a word of its stack is the address a CALL or  *)
(* an interrupt pushed, or data. The stack grows down in the machine: its   *)
(* pointer is compared here by the stack's length, the other way round.     *)
(***************************************************************************)
EXTENDS Breakpoints

CONSTANTS
  Program,         \* [op, to, access, at] of each address
  Handler,         \* where an interrupt goes
  MaxDepth,        \* bound: words on the stack
  Lines,           \* scanlines in a frame
  MaxCount,        \* bound: the largest count asked for
  Entries,         \* what is added to the table: [type, start, end, condition]
  Places           \* the addresses the user points at

Data == -1           \* a word that is no address of the program
Ops == {"op", "jp", "call", "ret", "djnz", "halt", "push", "drop", "ei"}
ASSUME ProgramAssumption ==
  /\ Program \in [Addr -> [op : Ops, to : Addr, access : Watches \cup {"none", "operand"},
                           at : Addr]]
  /\ \A a \in Addr : Program[a].access \in IoAccess => Program[a].at \in Ports
ASSUME HandlerAssumption == Handler \in Addr
ASSUME BoundsAssumption ==
  MaxDepth \in Nat /\ Lines \in Nat /\ Lines > 1 /\ MaxCount \in Nat \ {0}
ASSUME UserAssumption ==
  /\ Places \subseteq Addr
  /\ Entries \subseteq [type : SUBSET Types, start : Addr, end : Addr,
                       condition : Conditions]

VARIABLES
  (* the machine *)
  pc,              \* of the instruction at, or after, the boundary
  stack,           \* the top last
  halted, iff,
  scanline, frame,
  mt,              \* "hook", "run", "bus", "done", "int", "parked"
  (* the engine *)
  stopped, stop_req, pending, act, count, target, sp_guard, last_line, last_frame,
  reason,
  (* history, for the properties *)
  mark,            \* where on the stack the stepped routine returns to, or 0
  owed,            \* the stack's length after the return stepped for, or -1
  turns,           \* lines or frames begun since the release, as act asks
  asked,           \* the count asked for
  due              \* a watched access happened in the instruction

machine == <<pc, stack, halted, iff, scanline, frame>>
goal == <<act, count, target, sp_guard, last_line, last_frame>>
history == <<mark, owed, turns, asked, due>>
vars == <<bpVars, machine, mt, stopped, stop_req, pending, goal,
          reason, history>>

Acts == {"run", "step", "over", "out", "runto", "scanline", "frame"}
Reasons == {"running", "pause", "watch", "exec"} \cup Acts
Word == Addr \cup {Data}
SP == -Len(stack)

TypeOK ==
  /\ BpTypeOK
  /\ pc \in Addr /\ stack \in Seq(Word) /\ Len(stack) <= MaxDepth
  /\ halted \in BOOLEAN /\ iff \in BOOLEAN
  /\ scanline \in 0..(Lines - 1) /\ frame \in BOOLEAN
  /\ mt \in {"hook", "run", "bus", "done", "int", "parked"}
  /\ stopped \in BOOLEAN /\ stop_req \in BOOLEAN /\ pending \in BOOLEAN
  /\ act \in Acts /\ count \in 0..MaxCount /\ target \in Word
  /\ sp_guard \in -MaxDepth..0
  /\ last_line \in 0..(Lines - 1) /\ last_frame \in BOOLEAN
  /\ reason \in Reasons
  /\ mark \in 0..MaxDepth /\ owed \in -1..MaxDepth /\ due \in BOOLEAN
  /\ turns \in 0..(MaxCount + 1) /\ asked \in 0..MaxCount

Init ==
  /\ BpInit
  /\ pc = 0 /\ stack = <<>> /\ halted = FALSE /\ iff = TRUE
  /\ scanline = 0 /\ frame = FALSE
  /\ mt = "hook"
  /\ stopped = FALSE /\ stop_req = TRUE /\ pending = FALSE
  /\ act = "run" /\ count = 0 /\ target = Data /\ sp_guard = 0
  /\ last_line = 0 /\ last_frame = FALSE /\ reason = "running"
  /\ mark = 0 /\ owed = -1 /\ turns = 0 /\ asked = 0 /\ due = FALSE

Here == Program[pc]

-----------------------------------------------------------------------------
(* The machine thread. *)

\* The frame and the line the beam is on once the instruction is done: it is
\* shorter than a line.
BeamMoves ==
  \/ UNCHANGED <<scanline, frame, turns>>
  \/ /\ scanline' = (scanline + 1) % Lines
     /\ frame' = IF scanline' = 0 THEN ~frame ELSE frame
     /\ turns' = IF turns <= MaxCount
                     /\ (act = "scanline" \/ (act = "frame" /\ scanline' = 0))
                   THEN turns + 1 ELSE turns

Push(w) == stack' = Append(stack, w)
Top == stack[Len(stack)]
Pop == stack' = SubSeq(stack, 1, Len(stack) - 1)
Room == Len(stack) < MaxDepth

\* The marked word leaves the stack: by the return it was pushed for, or not.
Unmark(returned) ==
  /\ mark' = IF mark > 0 /\ Len(stack) = mark THEN 0 ELSE mark
  /\ owed' = IF returned /\ mark > 0 /\ Len(stack) = mark THEN mark - 1 ELSE owed

NextPc == (pc + 1) % (MaxAddr + 1)

\* One instruction. CALL and DJNZ are taken or not.
Executes ==
  \/ /\ Here.op \in {"op", "ei"}
     /\ pc' = NextPc
     /\ iff' = (iff \/ Here.op = "ei")
     /\ UNCHANGED <<stack, halted, mark, owed>>
  \/ /\ Here.op = "jp"
     /\ pc' = Here.to
     /\ UNCHANGED <<stack, halted, iff, mark, owed>>
  \/ /\ Here.op = "djnz"
     /\ pc' \in {Here.to, NextPc}
     /\ UNCHANGED <<stack, halted, iff, mark, owed>>
  \/ /\ Here.op = "call"
     /\ \/ /\ Room /\ Push(NextPc) /\ pc' = Here.to
           /\ mark' = IF act = "over" /\ mark = 0 /\ Len(stack) = -sp_guard /\ target = NextPc
                        THEN Len(stack) + 1 ELSE mark
        \/ pc' = NextPc /\ UNCHANGED <<stack, mark>>
     /\ UNCHANGED <<halted, iff, owed>>
  \/ /\ Here.op = "ret"
     /\ stack # <<>> /\ Top # Data
     /\ Pop /\ pc' = Top /\ Unmark(TRUE)
     /\ UNCHANGED <<halted, iff>>
  \/ /\ Here.op = "push"
     /\ Room /\ Push(Data) /\ pc' = NextPc
     /\ UNCHANGED <<halted, iff, mark, owed>>
  \/ /\ Here.op = "drop"
     /\ pc' = NextPc
     /\ \/ stack # <<>> /\ Pop /\ Unmark(FALSE)
        \/ stack = <<>> /\ UNCHANGED <<stack, mark, owed>>
     /\ UNCHANGED <<halted, iff>>
  \/ /\ Here.op = "halt"
     /\ halted' = TRUE
     /\ UNCHANGED <<pc, stack, iff, mark, owed>>

\* An access of the instruction that the core tells the bus hook of. What the
\* CPU reads of the instruction itself looks the same.
Access == IF Here.access = "operand" THEN <<"read", pc>> ELSE <<Here.access, Here.at>>
IsAccess == Here.access # "none"

\* An enabled watchpoint without a condition covers it, and no edit is under way.
Watched ==
  /\ Here.access \in Watches
  /\ ~editing
  /\ \E i \in Matching(Access[1], Access[2]) : bp[i].condition = "none"

\* z80_tick through the instruction, up to its access: the bus hook, when
\* installed, looks at its map without the mutex.
Run ==
  /\ mt = "run"
  /\ mt' = IF IsAccess /\ bus_hook /\ Access \in map_mem \cup map_io THEN "bus" ELSE "done"
  /\ due' = (due \/ Watched)
  /\ UNCHANGED <<bpVars, machine, stopped, stop_req, pending, goal,
                 reason, mark, owed, turns, asked>>

Matched == Matching(Access[1], Access[2])

\* bus_hook with the mutex: the first enabled entry that matches and whose
\* condition holds makes the instruction stop; an operand's read does not.
BusHook ==
  /\ mt = "bus"
  /\ ~editing
  /\ LET hits == IF Here.access = "operand" THEN {} ELSE Matched
     IN  \/ hits # {} /\ pending' = TRUE
         \/ (\A i \in hits : bp[i].condition = "some") /\ UNCHANGED pending
  /\ mt' = "done"
  /\ UNCHANGED <<bpVars, machine, stopped, stop_req, goal, reason, history>>

\* The rest of the instruction, and the beam meanwhile. An interrupt that is
\* taken now is entered before the next boundary (_z80_fetch); EI holds it off
\* for one instruction.
Finish ==
  /\ mt = "done"
  /\ BeamMoves
  /\ Executes
  /\ \/ mt' = "hook"
     \/ iff /\ Here.op # "ei" /\ Len(stack') < MaxDepth /\ mt' = "int"
  /\ UNCHANGED <<bpVars, stopped, stop_req, pending, goal, reason, asked, due>>

\* The interrupt's entry: the next boundary is in the handler.
Interrupt ==
  /\ mt = "int"
  /\ Push(IF halted THEN NextPc ELSE pc)
  /\ pc' = Handler
  /\ iff' = FALSE /\ halted' = FALSE
  /\ mt' = "hook"
  /\ UNCHANGED <<bpVars, scanline, frame, stopped, stop_req, pending,
                 goal, reason, history>>

\* exec_hit_locked: an enabled entry covers the address and its condition holds
ExecHits ==
  IF pc \notin map_exec THEN {FALSE}
  ELSE LET here == {i \in Enabled(bp) : "exec" \in bp[i].type /\ Covers(bp[i], pc)}
       IN  IF \E i \in here : bp[i].condition = "none" THEN {TRUE} ELSE BOOLEAN

Turned ==
  \/ act = "scanline" /\ scanline # last_line
  \/ act = "frame" /\ frame # last_frame

\* Faulty: the stack is not looked at.
GoalMetAnywhere ==
  \/ act = "step" /\ count <= 1
  \/ act = "runto" /\ pc = target
  \/ act = "over" /\ pc = target /\ ~halted
  \/ act = "out" /\ pc = target /\ SP > sp_guard
  \/ Turned /\ count <= 1

\* Faulty: the level the CALL was made from does not count as reached.
GoalMetAbove ==
  \/ act = "step" /\ count <= 1
  \/ act = "runto" /\ pc = target
  \/ act = "over" /\ pc = target /\ SP > sp_guard /\ ~halted
  \/ act = "out" /\ pc = target /\ SP > sp_guard
  \/ Turned /\ count <= 1

\* instr_hook's switch: the goal of what was asked for is met here
GoalMet ==
  \/ act = "step" /\ count <= 1
  \/ act = "runto" /\ pc = target
  \/ act = "over" /\ pc = target /\ SP >= sp_guard /\ ~halted
  \/ act = "out" /\ pc = target /\ SP > sp_guard
  \/ Turned /\ count <= 1

StopCause(hit) ==
  IF stop_req THEN "pause"
  ELSE IF pending THEN "watch"
  ELSE IF hit THEN "exec"
  ELSE IF GoalMet THEN act ELSE "running"

\* Faulty: the line is not the last one any more, and is still taken for it.
GoalStepsOnly(hit) ==
  /\ count' = IF ~stop_req /\ ~pending /\ ~hit /\ (act = "step" \/ Turned)
              THEN count - 1 ELSE count
  /\ UNCHANGED <<last_line, last_frame>>

\* What the goals keep, reached only when nothing before them stops the machine
GoalSteps(hit) ==
  IF ~stop_req /\ ~pending /\ ~hit
  THEN /\ count' = IF act = "step" \/ Turned THEN count - 1 ELSE count
       /\ last_line' = IF act = "scanline" THEN scanline ELSE last_line
       /\ last_frame' = IF act = "frame" THEN frame ELSE last_frame
  ELSE UNCHANGED <<count, last_line, last_frame>>

\* instr_hook, with the mutex, and park_locked
InstrHook ==
  /\ mt = "hook"
  /\ ~editing
  /\ \E hit \in ExecHits :
       /\ GoalSteps(hit)
       /\ \/ /\ StopCause(hit) # "running"
             /\ reason' = StopCause(hit)
             /\ stopped' = TRUE /\ stop_req' = FALSE /\ pending' = FALSE
             /\ act' = "run"
             /\ mt' = "parked"
          \/ /\ StopCause(hit) = "running"
             /\ mt' = "run"
             /\ UNCHANGED <<reason, stopped, stop_req, pending, act>>
  /\ due' = FALSE
  /\ UNCHANGED <<bpVars, machine, target, sp_guard, mark, owed, turns, asked>>

\* park_locked is woken, and returns through the hook
LetGo ==
  /\ mt = "parked"
  /\ ~editing
  /\ ~stopped
  /\ mt' = "run"
  /\ UNCHANGED <<bpVars, machine, stopped, stop_req, pending, goal,
                 reason, history>>

-----------------------------------------------------------------------------
(* The user, one thread. *)

\* release_locked of a stopped machine, with what the goal needs to know
Release(a, n) ==
  /\ ~editing
  /\ stopped
  /\ stopped' = FALSE /\ stop_req' = FALSE
  /\ act' = a /\ count' = n
  /\ owed' = -1 /\ turns' = 0 /\ asked' = n /\ due' = FALSE
  /\ UNCHANGED <<bpVars, machine, mt, pending, reason>>

\* astrodebug_resume, astrodebug_step_count
Resume == Release("run", count) /\ mark' = 0 /\ UNCHANGED <<target, sp_guard, last_line, last_frame>>
StepCount(n) == Release("step", n) /\ mark' = 0 /\ UNCHANGED <<target, sp_guard, last_line, last_frame>>

\* astrodebug_step_over: past a call, a loop or a HALT, with the stack at or
\* above its level; a plain step otherwise.
StepOver ==
  /\ mark' = 0
  /\ UNCHANGED <<last_line, last_frame>>
  /\ \/ /\ Here.op \in {"call", "halt", "djnz"}
        /\ Release("over", count)
        /\ target' = NextPc /\ sp_guard' = SP
     \/ /\ Here.op \notin {"call", "halt", "djnz"}
        /\ Release("step", 1)
        /\ UNCHANGED <<target, sp_guard>>

\* astrodebug_step_out: to the address on the top of the stack, if it is one
StepOut ==
  /\ Release("out", count)
  /\ target' = IF stack = <<>> THEN Data ELSE Top
  /\ sp_guard' = SP
  /\ mark' = IF stack # <<>> /\ Top # Data THEN Len(stack) ELSE 0
  /\ UNCHANGED <<last_line, last_frame>>

\* astrodebug_run_to
RunTo(a) ==
  /\ Release("runto", count)
  /\ target' = a
  /\ mark' = 0
  /\ UNCHANGED <<sp_guard, last_line, last_frame>>

\* astrodebug_scanline, astrodebug_frame
ScanlineStep(n) ==
  /\ Release("scanline", n)
  /\ last_line' = scanline
  /\ mark' = 0
  /\ UNCHANGED <<target, sp_guard, last_frame>>
FrameStep(n) ==
  /\ Release("frame", n)
  /\ last_frame' = frame
  /\ mark' = 0
  /\ UNCHANGED <<target, sp_guard, last_line>>

\* astrodebug_stop, of an attached engine
Stop ==
  /\ ~editing
  /\ ~stopped
  /\ stop_req' = TRUE
  /\ UNCHANGED <<bpVars, machine, mt, stopped, pending, goal, reason, history>>

\* astrodebug_cpu_set of PC, while stopped: the fetch is begun again there
SetPc(a) ==
  /\ ~editing
  /\ stopped
  /\ pc' = a /\ halted' = FALSE
  /\ UNCHANGED <<bpVars, stack, iff, scanline, frame, mt, stopped, stop_req, pending,
                 goal, reason, history>>

rest == <<machine, mt, stopped, stop_req, goal, reason, mark, owed, turns, asked>>

\* The last watchpoint gone, a hit that waits for the boundary goes with it.
Rebuild ==
  /\ Rebuilt
  /\ pending' = (pending /\ NWatch(bp) > 0)
  /\ due' = FALSE
  /\ UNCHANGED rest

EditTable ==
  /\ \/ \E e \in Entries : Add(e.type, e.start, e.end, e.condition)
     \/ \E id \in 1..MaxId : Remove(id)
     \/ \E id \in 1..MaxId, on \in BOOLEAN : Enable(id, on)
     \/ ClearAll
     \/ \E a \in Places : Toggle(a)
  /\ due' = FALSE
  /\ UNCHANGED <<rest, pending>>

-----------------------------------------------------------------------------
MachineThread == Run \/ BusHook \/ Finish \/ Interrupt \/ InstrHook \/ LetGo

User ==
  \/ Resume \/ StepOver \/ StepOut \/ Stop
  \/ \E n \in 1..MaxCount : StepCount(n) \/ ScanlineStep(n) \/ FrameStep(n)
  \/ \E a \in Places : RunTo(a) \/ SetPc(a)
  \/ EditTable

Next == MachineThread \/ User \/ Rebuild

Spec == Init /\ [][Next]_vars

-----------------------------------------------------------------------------
(* Properties. *)

\* A stop announced as a step over or a step out is where the stepped routine
\* has returned, never inside it again by recursion, nor in an interrupt.
StepsEndOutside ==
  stopped /\ reason \in {"over", "out"} => mark = 0 \/ Len(stack) < mark

\* A line or frame step ends after as many lines or frames as were asked for.
TurnsAreExact == stopped /\ reason \in {"scanline", "frame"} => turns = asked

\* A goal's stop is announced where the goal was set, and not a turn early.
GoalsAreMet == StepsEndOutside /\ TurnsAreExact

\* When the routine stepped over or out of returns, the machine stops right
\* there, unless an interrupt comes between: then when that is done.
ReturnIsNotMissed ==
  [][owed >= 0 /\ Len(stack) <= owed /\ mt = "hook" => mt' = "parked" \/ mt' = mt]_vars

\* An access to what an enabled watchpoint covers stops the machine at the next
\* boundary, unless the table is edited in between.
WatchIsNotMissed ==
  [][due /\ mt = "hook" => mt' = "parked" \/ mt' = mt]_vars
=============================================================================
