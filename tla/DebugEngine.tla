----------------------------- MODULE DebugEngine -----------------------------
(***************************************************************************)
(* The debugger engine (core/debugger/debugger.c) against the emulator host *)
(* that owns the machine and its thread (core/astro/host.c).                *)
(*                                                                          *)
(* Two threads. The UI thread calls the public API and starts and stops the *)
(* session. The machine thread runs frames of instructions, calls the two   *)
(* hooks the engine installs in the core, and is parked by the engine       *)
(* INSIDE the instruction hook, on a condition variable.                    *)
(*                                                                          *)
(* Every critical section under d->mtx is one step; whatever runs without   *)
(* it (the load of a hook pointer, the picture and the callback of a park,  *)
(* the host's flags) is a step of its own. Abstracted: what an instruction  *)
(* does, which breakpoint matched, and the actions other than a counted     *)
(* step (over, out, run-to, scanline, frame), whose goal may be met at any  *)
(* boundary: act = "goal".                                                  *)
(***************************************************************************)
EXTENDS Integers

CONSTANTS
  MaxCount,        \* the largest count a step is asked for
  InsnsPerFrame,   \* instructions in one frame of the machine
  GenMod           \* the generation counter wraps (2^32 in the code)

ASSUME MaxCountAssumption == MaxCount \in Nat \ {0}
ASSUME InsnsPerFrameAssumption == InsnsPerFrame \in Nat \ {0}
ASSUME GenModAssumption == GenMod \in Nat /\ GenMod > 1

VARIABLES
  (* struct astrodebug, under d->mtx *)
  m,               \* d->m # NULL: the host runs a machine
  releasing,       \* the host is stopping the machine
  attached,        \* a window holds the engine
  stopped,         \* the machine thread is parked
  stop_req,        \* park at the next boundary
  pending,         \* a watchpoint fired during this instruction
  act,             \* what the machine does once released
  count,           \* instructions a step still has to go
  reason,          \* why it last stopped
  generation,      \* what a window polls
  watching,        \* nwatch > 0: an enabled watchpoint exists
  (* astro_machine_t, read by the machine thread without the lock *)
  instr_hook,      \* the instruction hook is installed
  bus_hook,        \* the bus hook is installed
  (* host.c *)
  s_running, s_stop_req, s_reset_req,
  mt,              \* where the machine thread is
  left,            \* instructions left in this frame
  ui,              \* where the UI thread is in astro_host_start/_stop
  (* history: what was asked, for the properties only *)
  wanted,          \* a stop was asked for and neither happened nor was called off
  steps,           \* the count the last step was asked for
  ran,             \* boundaries reached since the last release
  hit,             \* a watched access happened in this very instruction
  reset_asked      \* RESET was asked of this very session

engine == <<m, releasing, attached, stopped, stop_req, pending, act, count,
            reason, watching>>
hooks == <<instr_hook, bus_hook>>
host == <<s_running, s_stop_req, s_reset_req>>
history == <<wanted, steps, ran, hit, reset_asked>>
vars == <<engine, generation, hooks, host, mt, left, ui, history>>

Acts == {"run", "step", "goal"}
Reasons == {"running", "pause", "watch", "exec", "step", "goal"}

\* "exec": inside an instruction; "bus"/"hook": a hook was called and is about
\* to take the lock; "tail": the instruction's access is done; "parking": the
\* picture and the stop callback, unlocked; "wait"/"woken": in the park loop.
Executing == {"top", "exec", "bus", "tail", "hook"}
Parked == {"parking", "wait", "woken"}
ThreadStates == {"none", "cart", "exited"} \cup Executing \cup Parked
CallStates == {"idle", "created", "stopping", "joining"}

TypeOK ==
  /\ m \in BOOLEAN /\ releasing \in BOOLEAN
  /\ attached \in BOOLEAN /\ stopped \in BOOLEAN
  /\ stop_req \in BOOLEAN /\ pending \in BOOLEAN /\ watching \in BOOLEAN
  /\ act \in Acts
  /\ count \in 0..MaxCount
  /\ reason \in Reasons
  /\ generation \in 0..(GenMod - 1)
  /\ instr_hook \in BOOLEAN /\ bus_hook \in BOOLEAN
  /\ s_running \in BOOLEAN /\ s_stop_req \in BOOLEAN /\ s_reset_req \in BOOLEAN
  /\ mt \in ThreadStates
  /\ left \in 0..InsnsPerFrame
  /\ ui \in CallStates
  /\ wanted \in BOOLEAN /\ hit \in BOOLEAN /\ reset_asked \in BOOLEAN
  /\ steps \in 0..MaxCount
  /\ ran \in 0..(MaxCount + 1)

Init ==
  /\ m = FALSE /\ releasing = FALSE
  /\ attached = FALSE /\ stopped = FALSE /\ stop_req = FALSE
  /\ pending = FALSE /\ watching = FALSE
  /\ act = "run" /\ count = 0 /\ reason = "running"
  /\ generation = 0
  /\ instr_hook = FALSE /\ bus_hook = FALSE
  /\ s_running = FALSE /\ s_stop_req = FALSE /\ s_reset_req = FALSE
  /\ mt = "none" /\ left = 0 /\ ui = "idle"
  /\ wanted = FALSE /\ steps = 0 /\ ran = 0 /\ hit = FALSE
  /\ reset_asked = FALSE

-----------------------------------------------------------------------------
(* Pieces the handlers share. *)

Succ(g) == IF g = GenMod - 1 THEN 0 ELSE g + 1

\* bump_locked
Bump == generation' = Succ(generation)

\* sync_hooks_locked: the instruction hook whenever attached to a live machine,
\* the bus hook only while a watchpoint exists.
SyncHooks(live, att, w) ==
  /\ instr_hook' = (live /\ att)
  /\ bus_hook' = (live /\ att /\ w)

\* Faulty: only the waiters of d->evcv are told.
BroadcastElsewhere == mt' = mt

\* pthread_cond_broadcast(&d->cv)
Broadcast == mt' = IF mt = "wait" THEN "woken" ELSE mt

\* The park loop's condition.
MustStayParked == stopped /\ attached /\ ~releasing /\ m

\* release_locked: leave the parked state with an action and its count.
ReleaseLocked(a, n) ==
  /\ act' = a
  /\ count' = n
  /\ stopped' = FALSE
  /\ stop_req' = FALSE
  /\ Bump
  /\ Broadcast
  /\ wanted' = FALSE
  /\ steps' = n
  /\ ran' = 0
  /\ UNCHANGED <<m, releasing, attached, pending, reason, watching, hooks,
                 host, left, ui, hit, reset_asked>>

-----------------------------------------------------------------------------
(* The public API: the UI thread, outside any call on the host. *)

\* Resume and step may also be called from the stop callback, on the machine
\* thread, whatever the UI thread is doing.
MayRelease == ui = "idle" \/ mt = "parking"

\* Faulty: the hooks go in and the machine runs on.
AttachQuietly ==
  /\ attached' = TRUE
  /\ UNCHANGED stop_req
  /\ SyncHooks(m /\ ~releasing, TRUE, watching)
  /\ wanted' = TRUE

\* astrodebug_attach of a detached engine
AttachLocked ==
  /\ attached' = TRUE
  /\ stop_req' = TRUE
  /\ SyncHooks(m /\ ~releasing, TRUE, watching)
  /\ wanted' = TRUE

\* astrodebug_attach; and astrodebug_stop of a detached engine, which calls it
\* (the two locks it takes are one step: only this thread attaches or detaches).
Attach ==
  /\ ui = "idle"
  /\ \/ ~attached /\ AttachLocked
     \/ attached /\ UNCHANGED <<attached, stop_req, hooks, wanted>>
  /\ Bump
  /\ UNCHANGED <<m, releasing, stopped, pending, act, count, reason, watching,
                 host, mt, left, ui, steps, ran, hit, reset_asked>>

\* astrodebug_detach
Detach ==
  /\ ui = "idle"
  /\ attached' = FALSE
  /\ stop_req' = FALSE
  /\ stopped' = FALSE
  /\ pending' = FALSE
  /\ act' = "run"
  /\ SyncHooks(m /\ ~releasing, FALSE, watching)
  /\ reason' = "running"
  /\ Broadcast
  /\ Bump
  /\ wanted' = FALSE
  /\ UNCHANGED <<m, releasing, count, watching, host, left, ui, steps, ran, hit,
                 reset_asked>>

\* astrodebug_stop of an attached engine
Stop ==
  /\ ui = "idle"
  /\ attached
  /\ ~stopped
  /\ stop_req' = TRUE
  /\ wanted' = TRUE
  /\ UNCHANGED <<m, releasing, attached, stopped, pending, act, count, reason,
                 watching, generation, hooks, host, mt, left, ui, steps, ran,
                 hit, reset_asked>>

\* astrodebug_resume of a parked machine
Resume ==
  /\ MayRelease
  /\ stopped
  /\ ReleaseLocked("run", count)

\* astrodebug_resume of a machine asked to stop and not parked yet
CallOffStop ==
  /\ MayRelease
  /\ ~stopped
  /\ stop_req
  /\ stop_req' = FALSE
  /\ wanted' = FALSE
  /\ UNCHANGED <<m, releasing, attached, stopped, pending, act, count, reason,
                 watching, generation, hooks, host, mt, left, ui, steps, ran,
                 hit, reset_asked>>

\* astrodebug_step_count; astrodebug_step and the plain branch of
\* astrodebug_step_over are the count 1.
StepCount(n) ==
  /\ MayRelease
  /\ stopped /\ attached
  /\ ReleaseLocked("step", n)

\* astrodebug_step_over at a CALL, a block repeat, HALT or DJNZ, and step_out,
\* run_to, scanline, frame: released until a condition on the machine holds.
RunToGoal ==
  /\ MayRelease
  /\ m /\ stopped /\ attached
  /\ ReleaseLocked("goal", count)

\* Faulty: a hit outlives the last watchpoint.
RebuildKeepingPending(w) ==
  /\ watching' = w
  /\ UNCHANGED pending
  /\ SyncHooks(m /\ ~releasing, attached, w)

\* rebuild_locked: w says whether an enabled watchpoint is left.
RebuildLocked(w) ==
  /\ watching' = w
  /\ pending' = (pending /\ w)
  /\ SyncHooks(m /\ ~releasing, attached, w)

\* An edit of the breakpoint table: add, remove, enable or clear.
EditBreakpoints(w) ==
  /\ ui = "idle"
  /\ RebuildLocked(w)
  /\ Bump
  /\ UNCHANGED <<m, releasing, attached, stopped, stop_req, act, count, reason,
                 host, mt, left, ui, history>>

-----------------------------------------------------------------------------
(* The host: the UI thread again. *)

\* Faulty: the hooks astro_machine_init wiped stay out.
CoreStartedUnhooked ==
  /\ m' = TRUE
  /\ releasing' = FALSE
  /\ stopped' = FALSE
  /\ pending' = FALSE
  /\ act' = "run"
  /\ stop_req' = attached
  /\ Bump
  /\ instr_hook' = FALSE /\ bus_hook' = FALSE
  /\ wanted' = attached
  /\ UNCHANGED <<attached, count, reason, watching>>

\* astrodebug_core_started, after astro_machine_init wiped the hooks.
CoreStarted ==
  /\ m' = TRUE
  /\ releasing' = FALSE
  /\ stopped' = FALSE
  /\ pending' = FALSE
  /\ act' = "run"
  /\ stop_req' = attached
  /\ Bump
  /\ SyncHooks(TRUE, attached, watching)
  /\ wanted' = attached
  /\ UNCHANGED <<attached, count, reason, watching>>

\* Faulty: the machine goes, and its parked thread is not told to.
CoreStoppingParked ==
  /\ releasing' = TRUE
  /\ m' = FALSE
  /\ pending' = FALSE
  /\ act' = "run"
  /\ SyncHooks(FALSE, attached, watching)
  /\ reason' = "running"
  /\ Broadcast
  /\ wanted' = FALSE
  /\ UNCHANGED <<attached, stopped, stop_req, count, watching>>

\* astrodebug_core_stopping, the generation apart.
CoreStopping ==
  /\ releasing' = TRUE
  /\ m' = FALSE
  /\ stopped' = FALSE
  /\ stop_req' = FALSE
  /\ pending' = FALSE
  /\ act' = "run"
  /\ SyncHooks(FALSE, attached, watching)
  /\ reason' = "running"
  /\ Broadcast
  /\ wanted' = FALSE
  /\ UNCHANGED <<attached, count, watching>>

\* Faulty: only the stop latch is cleared.
ClearStopOnly ==
  /\ s_stop_req' = FALSE
  /\ UNCHANGED s_reset_req

\* astro_host_start clears what was asked of an earlier thread
ClearRequests ==
  /\ s_stop_req' = FALSE
  /\ s_reset_req' = FALSE

\* astro_host_start, up to a successful pthread_create
HostStart ==
  /\ ui = "idle" /\ ~s_running
  /\ CoreStarted
  /\ ClearRequests
  /\ mt' = "cart"
  /\ ui' = "created"
  /\ left' = 0 /\ ran' = 0 /\ hit' = FALSE /\ reset_asked' = FALSE
  /\ UNCHANGED <<s_running, steps>>

\* ... and its last line
HostStarted ==
  /\ ui = "created"
  /\ s_running' = TRUE
  /\ ui' = "idle"
  /\ UNCHANGED <<engine, generation, hooks, s_stop_req, s_reset_req, mt, left,
                 history>>

\* astro_host_start when pthread_create fails: astrodebug_core_started, then
\* astrodebug_core_stopping.
HostStartFails ==
  /\ ui = "idle" /\ ~s_running
  /\ CoreStopping
  /\ generation' = Succ(Succ(generation))
  /\ ClearRequests
  /\ UNCHANGED <<s_running, left, ui, steps, ran, hit, reset_asked>>

\* astro_host_stop, up to the flag the machine thread polls once a frame
HostStop ==
  /\ ui = "idle" /\ s_running
  /\ s_stop_req' = TRUE
  /\ ui' = "stopping"
  /\ UNCHANGED <<engine, generation, hooks, s_running, s_reset_req, mt, left,
                 history>>

\* ... the release of a parked thread
HostRelease ==
  /\ ui = "stopping"
  /\ CoreStopping
  /\ Bump
  /\ ui' = "joining"
  /\ UNCHANGED <<host, left, steps, ran, hit, reset_asked>>

\* ... and what follows the join
HostJoin ==
  /\ ui = "joining"
  /\ mt = "exited"
  /\ mt' = "none"
  /\ s_running' = FALSE
  /\ ui' = "idle"
  /\ UNCHANGED <<engine, generation, hooks, s_stop_req, s_reset_req, left,
                 history>>

\* astro_host_reset
HostReset ==
  /\ ui = "idle" /\ s_running
  /\ s_reset_req' = TRUE
  /\ reset_asked' = TRUE
  /\ UNCHANGED <<engine, generation, hooks, s_running, s_stop_req, mt, left, ui,
                 wanted, steps, ran, hit>>

-----------------------------------------------------------------------------
(* The machine thread. *)

\* The next instruction is let go.
LetGo ==
  /\ mt' = "exec"
  /\ left' = left - 1
  /\ hit' = FALSE

\* machine_thread brings the cartridge up
CartUp ==
  /\ mt = "cart"
  /\ mt' = "top"
  /\ UNCHANGED <<engine, generation, hooks, host, left, ui, history>>

\* the loop's condition, the RESET latch, and into the frame's scanlines
LoopTop ==
  /\ mt = "top"
  /\ \/ /\ s_stop_req
        /\ mt' = "exited"
        /\ UNCHANGED <<s_reset_req, left, reset_asked>>
     \/ /\ ~s_stop_req
        /\ s_reset_req' = FALSE
        /\ reset_asked' = FALSE
        /\ mt' = "exec"
        /\ left' = InsnsPerFrame
  /\ UNCHANGED <<engine, generation, hooks, s_running, s_stop_req, ui, wanted,
                 steps, ran, hit>>

\* the end of the last scanline, maybe inside an instruction
FrameEnd ==
  /\ mt \in {"exec", "tail"}
  /\ left = 0
  /\ mt' = "top"
  /\ UNCHANGED <<engine, generation, hooks, host, left, ui, history>>

\* machine_tick: an access on the bus, with a bus hook to tell
BusAccess ==
  /\ mt = "exec"
  /\ bus_hook
  /\ mt' = "bus"
  /\ UNCHANGED <<engine, generation, hooks, host, left, ui, history>>

\* bus_hook, under the lock: a watchpoint may match, the first of the
\* instruction is kept.
BusHook ==
  /\ mt = "bus"
  /\ \/ /\ attached /\ ~releasing /\ m /\ ~pending /\ watching
        /\ pending' = TRUE
        /\ hit' = TRUE
     \/ UNCHANGED <<pending, hit>>
  /\ mt' = "tail"
  /\ UNCHANGED <<m, releasing, attached, stopped, stop_req, act, count, reason,
                 watching, generation, hooks, host, left, ui, wanted, steps, ran,
                 reset_asked>>

\* machine_tick: the instruction is done; call the instruction hook if there
\* is one, or go on to the next.
Boundary ==
  /\ mt \in {"exec", "tail"}
  /\ left > 0
  /\ \/ instr_hook /\ mt' = "hook" /\ UNCHANGED <<left, hit>>
     \/ ~instr_hook /\ LetGo
  /\ ran' = IF ran > MaxCount THEN ran ELSE ran + 1
  /\ UNCHANGED <<engine, generation, hooks, host, ui, wanted, steps, reset_asked>>

\* Faulty: a stop that no window is told of.
ParkSilently(why) ==
  /\ reason' = why
  /\ stopped' = TRUE
  /\ stop_req' = FALSE
  /\ pending' = FALSE
  /\ act' = "run"
  /\ mt' = "parking"
  /\ wanted' = FALSE
  /\ UNCHANGED <<generation, left, hit>>

\* park_locked, up to where it drops the lock
ParkLocked(why) ==
  /\ reason' = why
  /\ stopped' = TRUE
  /\ stop_req' = FALSE
  /\ pending' = FALSE
  /\ act' = "run"
  /\ Bump
  /\ mt' = "parking"
  /\ wanted' = FALSE
  /\ UNCHANGED <<left, hit>>

\* Faulty: count-- instead of --count.
StopCauseLate(hitExec, met) ==
  IF stop_req THEN "pause"
  ELSE IF pending THEN "watch"
  ELSE IF hitExec THEN "exec"
  ELSE IF act = "step" /\ count <= 0 THEN "step"
  ELSE IF act = "goal" /\ met THEN "goal" ELSE "running"

\* instr_hook: what it parks for, in its order. An execute breakpoint may match
\* (hitExec) and an action other than a step may be at its goal (met).
StopCause(hitExec, met) ==
  IF stop_req THEN "pause"
  ELSE IF pending THEN "watch"
  ELSE IF hitExec THEN "exec"
  ELSE IF act = "step" /\ count <= 1 THEN "step"
  ELSE IF act = "goal" /\ met THEN "goal" ELSE "running"

\* --d->count, reached only when nothing above it stops the machine
CountDown(hitExec) ==
  count' = IF act = "step" /\ ~stop_req /\ ~pending /\ ~hitExec
             THEN count - 1 ELSE count

\* instr_hook, under the lock
InstrHook ==
  /\ mt = "hook"
  /\ \/ /\ ~attached \/ releasing \/ ~m
        /\ LetGo
        /\ UNCHANGED <<stopped, stop_req, pending, act, count, reason,
                       generation, wanted>>
     \/ /\ attached /\ ~releasing /\ m
        /\ \E hitExec, met \in BOOLEAN :
             /\ CountDown(hitExec)
             /\ \/ /\ StopCause(hitExec, met) # "running"
                   /\ ParkLocked(StopCause(hitExec, met))
                \/ /\ StopCause(hitExec, met) = "running"
                   /\ LetGo
                   /\ UNCHANGED <<stopped, stop_req, pending, act, reason,
                                  generation, wanted>>
  /\ UNCHANGED <<m, releasing, attached, watching, hooks, host, ui, steps, ran,
                 reset_asked>>

\* Faulty: the park loop as an if.
ParkOnce ==
  /\ mt \in {"parking", "woken"}
  /\ \/ mt = "parking" /\ MustStayParked /\ mt' = "wait" /\ UNCHANGED <<left, hit>>
     \/ ~(mt = "parking" /\ MustStayParked) /\ LetGo
  /\ UNCHANGED <<engine, generation, hooks, host, ui, wanted, steps, ran,
                 reset_asked>>

\* park_locked once the picture is published and the callback has returned,
\* and after each wake-up: wait, or return through the hook.
ParkLoop ==
  /\ mt \in {"parking", "woken"}
  /\ \/ MustStayParked /\ mt' = "wait" /\ UNCHANGED <<left, hit>>
     \/ ~MustStayParked /\ LetGo
  /\ UNCHANGED <<engine, generation, hooks, host, ui, wanted, steps, ran,
                 reset_asked>>

\* pthread_cond_wait may return without a broadcast
SpuriousWake ==
  /\ mt = "wait"
  /\ mt' = "woken"
  /\ UNCHANGED <<engine, generation, hooks, host, left, ui, history>>

-----------------------------------------------------------------------------
UserCall ==
  \/ Attach \/ Detach \/ Stop \/ Resume \/ CallOffStop \/ RunToGoal
  \/ \E n \in 1..MaxCount : StepCount(n)
  \/ \E w \in BOOLEAN : EditBreakpoints(w)
  \/ HostStart \/ HostStartFails \/ HostStop \/ HostReset

\* The rest of a call on the host, which the UI thread has begun.
HostCall == HostStarted \/ HostRelease \/ HostJoin

MachineThread ==
  \/ CartUp \/ LoopTop \/ FrameEnd \/ BusAccess \/ BusHook \/ Boundary
  \/ InstrHook \/ ParkLoop

Next == UserCall \/ HostCall \/ MachineThread \/ SpuriousWake

Spec == Init /\ [][Next]_vars

\* A thread that can run does: the machine thread between hooks, and the UI
\* thread inside a call it made. Nobody has to press anything.
FairSpec == Spec /\ WF_vars(MachineThread) /\ WF_vars(HostCall)

-----------------------------------------------------------------------------
(* Safety. *)

\* "Stopped" means parked, on the live machine of an attached engine: while it
\* holds, the machine thread is inside park_locked and nothing else touches the
\* machine, which is what lets the register editor write to it.
StoppedMeansParked ==
  stopped => mt \in Parked /\ m /\ attached /\ ~releasing

\* No lost wake-up: the thread is blocked on d->cv only while it is meant to
\* be. Whatever clears the park loop's condition also broadcasts, whichever of
\* detach, release and the end of the session it is.
NoLostWakeup == mt = "wait" => MustStayParked

\* The core carries exactly the hooks the engine wants, across attaches,
\* breakpoint edits and machines (astro_machine_init wipes them).
HooksInStep ==
  /\ instr_hook = (m /\ attached)
  /\ bus_hook = (m /\ attached /\ watching)

\* A pending watchpoint is one that fired in the instruction being executed,
\* on this machine, while one is enabled: a stop is never reported for a hit
\* from before a detach, a restart or the removal of the last watchpoint.
PendingIsCurrent == pending => hit /\ watching /\ attached /\ m

\* Nothing the core carries or the engine remembers is left over from another
\* machine, attach or table.
NothingStale == HooksInStep /\ PendingIsCurrent

\* A stop announced as a step comes after exactly the instructions asked for,
\* whatever was attached, stopped, called off or edited since an earlier one.
StepIsExact == stopped /\ reason = "step" => ran = steps

\* A RESET asked of one session is never applied to the next.
ResetStaysInSession == s_reset_req => reset_asked

\* A wanted stop is taken at the very next boundary: outside a park, no
\* instruction is let go while one is outstanding. For a machine started under
\* an attached engine this is the first boundary it has.
StopIsPrompt == [][wanted /\ wanted' /\ mt \notin Parked => left' >= left]_vars

\* A window that polls the generation cannot miss a stop, a release, an attach,
\* a detach, or a machine coming or going.
ChangesAreAnnounced ==
  [][<<stopped, attached, m>>' # <<stopped, attached, m>>
       => generation' # generation]_vars

\* The engine implements what astrodebug.h promises.
Mode ==
  IF mt = "none" THEN "off"
  ELSE IF ~m THEN "draining"
  ELSE IF stopped THEN "stopped" ELSE "running"

Control == INSTANCE DebugControl WITH
             mode <- Mode, progress <- left, Progress <- 0..InsnsPerFrame
ControlSpec == Control!Spec

-----------------------------------------------------------------------------
(* Liveness, under FairSpec. *)

\* astro_host_stop returns, wherever the machine thread is: parked, about to
\* park, in a hook, or running.
HostStopReturns == (ui = "stopping") ~> (ui = "idle")

\* A stop asked of a live machine is taken or called off, and a RESET is applied at
\* a frame boundary unless the debugger holds the machine or the session ends first.
RequestsAreServed ==
  /\ (wanted /\ m) ~> ~wanted
  /\ s_reset_req ~> (~s_reset_req \/ stopped \/ s_stop_req)
=============================================================================
