-------------------------- MODULE DebugEngine_proofs --------------------------
(***************************************************************************)
(* Theorems about DebugEngine, for every MaxCount, InsnsPerFrame, GenMod.   *)
(*                                                                          *)
(* One inductive invariant, IInv, carries all of them. What it adds to the  *)
(* properties is where the two threads may be at the same time (Lifecycle), *)
(* when the frame has instructions left (FrameBudget), what an asked-for    *)
(* stop implies (StopIsArmed), that no watchpoint hit outlives a park, and  *)
(* the sum a counted step keeps constant (StepAccount).                     *)
(***************************************************************************)
EXTENDS DebugEngine, TLAPS

(* Where the machine is while the UI thread is in a call on the host. *)
Lifecycle ==
  /\ ui = "idle" => (s_running <=> mt # "none") /\ (m <=> s_running)
  /\ ui = "created" => m /\ mt # "none" /\ ~s_running
  /\ ui = "stopping" => m /\ mt # "none" /\ s_running /\ s_stop_req
  /\ ui = "joining" => ~m /\ mt # "none" /\ s_running /\ s_stop_req
  /\ m => ~releasing

(* A hook or a park is inside a frame; between frames nothing is left. *)
FrameBudget ==
  /\ mt \in Parked \cup {"hook"} => left > 0
  /\ mt \in {"none", "cart", "top", "exited"} => left = 0

(* A stop somebody waits for is armed, on a machine with its hook in. *)
StopIsArmed == wanted => stop_req /\ attached /\ (mt # "none" => m)

(* park_locked forgets the hit it stopped for. *)
PendingIsUnparked == pending => mt \notin Parked

(* What is left of a step and what was run of it make up what was asked. *)
StepAccount ==
  act = "step" =>
    /\ attached /\ m /\ ~stopped
    /\ count >= 1
    /\ count + ran = IF mt = "hook" THEN steps + 1 ELSE steps

(* Where the threads are, what is latched, and the sums of a step. *)
Positions == StoppedMeansParked /\ NoLostWakeup /\ Lifecycle /\ FrameBudget
Latches ==
  /\ HooksInStep /\ StopIsArmed /\ ResetStaysInSession
  /\ PendingIsCurrent /\ PendingIsUnparked
Accounts == StepIsExact /\ StepAccount

IInv == TypeOK /\ Positions /\ Latches /\ Accounts

USE MaxCountAssumption, InsnsPerFrameAssumption, GenModAssumption
    DEF engine, hooks, host, history

-----------------------------------------------------------------------------
(* The arithmetic of the type invariant. *)
LEMMA TypeFacts ==
  /\ 0 \in 0..MaxCount /\ 0 \in 0..(MaxCount + 1)
  /\ 0 \in 0..InsnsPerFrame /\ InsnsPerFrame \in 0..InsnsPerFrame
  /\ 0 \in 0..(GenMod - 1)
  /\ \A n \in 1..MaxCount : n \in 0..MaxCount
  /\ \A g \in 0..(GenMod - 1) : Succ(g) \in 0..(GenMod - 1) /\ Succ(g) # g
  /\ \A k \in 0..InsnsPerFrame : k > 0 => k - 1 \in 0..InsnsPerFrame
  /\ \A k \in 0..MaxCount : k >= 1 => k - 1 \in 0..MaxCount
  /\ \A k \in 0..(MaxCount + 1) : ~(k > MaxCount) => k + 1 \in 0..(MaxCount + 1)
BY SMT DEF Succ

LEMMA SetFacts ==
  /\ "run" \in Acts /\ "step" \in Acts /\ "goal" \in Acts
  /\ "running" \in Reasons
  /\ \A hitExec, met : StopCause(hitExec, met) \in Reasons
  /\ \A s \in {"none", "cart", "exited", "top", "exec", "bus", "tail", "hook",
            "parking", "wait", "woken"} : s \in ThreadStates
  /\ \A s \in {"idle", "created", "stopping", "joining"} : s \in CallStates
BY Zenon DEF Acts, Reasons, StopCause, ThreadStates, Executing, Parked, CallStates

LEMMA InitIInv == Init => IInv
<1> SUFFICES ASSUME Init PROVE IInv
  OBVIOUS
<1>1. TypeOK
  BY TypeFacts, SetFacts, Zenon DEF Init, TypeOK
<1>2. Positions
  BY Zenon DEF Init, Positions, StoppedMeansParked, NoLostWakeup, Lifecycle,
    FrameBudget, Parked
<1>3. Latches
  BY Zenon DEF Init, Latches, HooksInStep, StopIsArmed, ResetStaysInSession,
    PendingIsCurrent, PendingIsUnparked
<1>4. Accounts
  BY Zenon DEF Init, Accounts, StepIsExact, StepAccount
<1> QED
  BY <1>1, <1>2, <1>3, <1>4, Zenon DEF IInv

LEMMA StepTypeOK == IInv /\ [Next]_vars => TypeOK'
<1> SUFFICES ASSUME IInv, [Next]_vars PROVE TypeOK'
  OBVIOUS
<1> USE DEF IInv, TypeOK
<1>1. CASE Attach
  <2>1. generation' \in 0..(GenMod - 1)
    BY <1>1, TypeFacts, Zenon DEF Attach, Bump
  <2>2. CASE ~attached /\ AttachLocked
    BY <1>1, <2>1, <2>2, ZenonT(30) DEF Attach, AttachLocked, SyncHooks
  <2>3. CASE attached /\ UNCHANGED <<attached, stop_req, hooks, wanted>>
    BY <1>1, <2>1, <2>3, ZenonT(30) DEF Attach
  <2> QED
    BY <1>1, <2>2, <2>3, Zenon DEF Attach
<1>2. CASE Detach
  BY <1>2, TypeFacts, SetFacts, ZenonT(30) DEF Detach, SyncHooks, Broadcast,
    Bump
<1>3. CASE Stop
  BY <1>3, SMTT(10) DEF Stop, Acts, Reasons, ThreadStates, Executing, Parked,
    CallStates
<1>4. CASE Resume
  BY <1>4, TypeFacts, SetFacts, ZenonT(30) DEF Resume, MayRelease,
    ReleaseLocked, Bump, Broadcast
<1>5. CASE CallOffStop
  BY <1>5, TypeFacts, SetFacts, ZenonT(30) DEF CallOffStop, MayRelease
<1>6. CASE RunToGoal
  BY <1>6, TypeFacts, SetFacts, ZenonT(30) DEF RunToGoal, MayRelease,
    ReleaseLocked, Bump, Broadcast
<1>7. ASSUME NEW n \in 1..MaxCount, StepCount(n) PROVE TypeOK'
  BY <1>7, TypeFacts, SetFacts, ZenonT(30) DEF StepCount, MayRelease,
    ReleaseLocked, Bump, Broadcast
<1>8. ASSUME NEW w \in BOOLEAN, EditBreakpoints(w) PROVE TypeOK'
  BY <1>8, SMTT(10) DEF EditBreakpoints, RebuildLocked, SyncHooks, Bump, Succ, Acts, Reasons,
    ThreadStates, Executing, Parked, CallStates
<1>9. CASE HostStart
  BY <1>9, TypeFacts, SetFacts, ZenonT(30) DEF HostStart, CoreStarted,
    ClearRequests, SyncHooks, Bump
<1>10. CASE HostStartFails
  BY <1>10, TypeFacts, SetFacts, ZenonT(30) DEF HostStartFails, CoreStopping,
    ClearRequests, SyncHooks, Broadcast
<1>11. CASE HostStop
  BY <1>11, SMTT(10) DEF HostStop, Acts, Reasons, ThreadStates, Executing,
    Parked, CallStates
<1>12. CASE HostReset
  BY <1>12, SMTT(10) DEF HostReset, Acts, Reasons, ThreadStates, Executing,
    Parked, CallStates
<1>13. CASE HostStarted
  BY <1>13, SMTT(10) DEF HostStarted, Acts, Reasons, ThreadStates, Executing,
    Parked, CallStates
<1>14. CASE HostRelease
  BY <1>14, TypeFacts, SetFacts, ZenonT(30) DEF HostRelease, CoreStopping,
    SyncHooks, Broadcast, Bump
<1>15. CASE HostJoin
  <2>1. mt' \in ThreadStates /\ ui' \in CallStates
    BY <1>15, SetFacts, Zenon DEF HostJoin
  <2> QED
    BY <1>15, <2>1, ZenonT(30) DEF HostJoin
<1>16. CASE CartUp
  BY <1>16, SMTT(10) DEF CartUp, Acts, Reasons, ThreadStates, Executing,
    Parked, CallStates
<1>17. CASE LoopTop
  <2>1. mt' \in ThreadStates
    BY <1>17, SetFacts, Zenon DEF LoopTop
  <2>2. left' \in 0..InsnsPerFrame
    BY <1>17, TypeFacts, Zenon DEF LoopTop
  <2>3. s_reset_req' \in BOOLEAN /\ reset_asked' \in BOOLEAN
    BY <1>17, Zenon DEF LoopTop
  <2> QED
    BY <1>17, <2>1, <2>2, <2>3, ZenonT(30) DEF LoopTop
<1>18. CASE FrameEnd
  BY <1>18, SMTT(10) DEF FrameEnd, Acts, Reasons, ThreadStates, Executing,
    Parked, CallStates
<1>19. CASE BusAccess
  BY <1>19, SMTT(10) DEF BusAccess, Acts, Reasons, ThreadStates, Executing,
    Parked, CallStates
<1>20. CASE BusHook
  <2>1. mt' \in ThreadStates
    BY <1>20, SetFacts, Zenon DEF BusHook
  <2>2. pending' \in BOOLEAN /\ hit' \in BOOLEAN
    BY <1>20, Zenon DEF BusHook
  <2> QED
    BY <1>20, <2>1, <2>2, ZenonT(30) DEF BusHook
<1>21. CASE Boundary
  <2>1. mt' \in ThreadStates
    BY <1>21, SetFacts, Zenon DEF Boundary, LetGo
  <2>2. left' \in 0..InsnsPerFrame /\ hit' \in BOOLEAN
    BY <1>21, TypeFacts, Zenon DEF Boundary, LetGo
  <2>3. ran' \in 0..(MaxCount + 1)
    BY <1>21, TypeFacts, Zenon DEF Boundary
  <2> QED
    BY <1>21, <2>1, <2>2, <2>3, ZenonT(30) DEF Boundary
<1>22. CASE InstrHook
  <2>1. left > 0 /\ (act = "step" => count >= 1)
    BY <1>22, Zenon DEF InstrHook, Positions, FrameBudget, Accounts, StepAccount
  <2>2. left - 1 \in 0..InsnsPerFrame /\ (act = "step" => count - 1 \in 0..MaxCount)
    BY <2>1, TypeFacts, Zenon
  <2>3. CASE /\ LetGo
             /\ UNCHANGED <<stopped, stop_req, pending, act, count, reason,
                            generation, wanted>>
    <3>1. mt' \in ThreadStates /\ left' \in 0..InsnsPerFrame /\ hit' \in BOOLEAN
      BY <2>2, <2>3, SetFacts, Zenon DEF LetGo
    <3> QED
      BY <1>22, <2>3, <3>1, ZenonT(30) DEF InstrHook
  <2>4. ASSUME NEW hitExec \in BOOLEAN, NEW met \in BOOLEAN, CountDown(hitExec),
               \/ ParkLocked(StopCause(hitExec, met))
               \/ LetGo /\ UNCHANGED <<stopped, stop_req, pending, act, reason,
                                      generation, wanted>>
        PROVE  TypeOK'
    <3>1. count' \in 0..MaxCount
      BY <2>2, <2>4, Zenon DEF CountDown
    <3>2. mt' \in ThreadStates /\ left' \in 0..InsnsPerFrame /\ hit' \in BOOLEAN
      BY <2>2, <2>4, SetFacts, Zenon DEF LetGo, ParkLocked
    <3>3. /\ reason' \in Reasons /\ act' \in Acts
          /\ generation' \in 0..(GenMod - 1)
      BY <2>4, SetFacts, TypeFacts, Zenon DEF ParkLocked, Bump
    <3>4. /\ stopped' \in BOOLEAN /\ stop_req' \in BOOLEAN
          /\ pending' \in BOOLEAN /\ wanted' \in BOOLEAN
      BY <2>4, Zenon DEF ParkLocked
    <3> QED
      BY <1>22, <3>1, <3>2, <3>3, <3>4, ZenonT(30) DEF InstrHook
  <2> QED
    BY <1>22, <2>3, <2>4, Zenon DEF InstrHook
<1>23. CASE ParkLoop
  <2>1. mt' \in ThreadStates
    BY <1>23, SetFacts, Zenon DEF ParkLoop, LetGo
  <2>2. left > 0
    BY <1>23, Zenon DEF ParkLoop, Positions, FrameBudget, Parked
  <2>3. left' \in 0..InsnsPerFrame /\ hit' \in BOOLEAN
    BY <1>23, <2>2, TypeFacts, Zenon DEF ParkLoop, LetGo
  <2> QED
    BY <1>23, <2>1, <2>3, ZenonT(30) DEF ParkLoop
<1>24. CASE SpuriousWake
  BY <1>24, SMTT(10) DEF SpuriousWake, Acts, Reasons, ThreadStates, Executing,
    Parked, CallStates
<1>25. CASE UNCHANGED vars
  BY <1>25, SMTT(10) DEF vars, Acts, Reasons, ThreadStates, Executing, Parked,
    CallStates
<1> QED BY <1>1, <1>2, <1>3, <1>4, <1>5, <1>6, <1>7, <1>8, <1>9, <1>10, <1>11,
  <1>12, <1>13, <1>14, <1>15, <1>16, <1>17, <1>18, <1>19, <1>20, <1>21, <1>22,
  <1>23, <1>24, <1>25, Zenon DEF Next, UserCall, HostCall, MachineThread

LEMMA StepPositions == IInv /\ [Next]_vars => Positions'
<1> SUFFICES ASSUME IInv, [Next]_vars PROVE Positions'
  OBVIOUS
<1> USE DEF IInv, TypeOK, Positions, StoppedMeansParked, NoLostWakeup,
  MustStayParked, Lifecycle, FrameBudget, Parked
<1>1. CASE Attach
  BY <1>1, SMTT(10) DEF Attach, AttachLocked, SyncHooks, Bump, Succ
<1>2. CASE Detach
  BY <1>2, SMTT(10) DEF Detach, SyncHooks, Broadcast, Bump, Succ
<1>3. CASE Stop
  BY <1>3, SMTT(10) DEF Stop
<1>4. CASE Resume
  BY <1>4, SMTT(10) DEF Resume, MayRelease, ReleaseLocked, Bump, Succ,
    Broadcast
<1>5. CASE CallOffStop
  BY <1>5, SMTT(10) DEF CallOffStop, MayRelease
<1>6. CASE RunToGoal
  BY <1>6, SMTT(10) DEF RunToGoal, MayRelease, ReleaseLocked, Bump, Succ,
    Broadcast
<1>7. ASSUME NEW n \in 1..MaxCount, StepCount(n) PROVE Positions'
  BY <1>7, SMTT(10) DEF StepCount, MayRelease, ReleaseLocked, Bump, Succ,
    Broadcast
<1>8. ASSUME NEW w \in BOOLEAN, EditBreakpoints(w) PROVE Positions'
  BY <1>8, SMTT(10) DEF EditBreakpoints, RebuildLocked, SyncHooks, Bump, Succ
<1>9. CASE HostStart
  BY <1>9, SMTT(10) DEF HostStart, CoreStarted, ClearRequests, SyncHooks,
    Bump, Succ
<1>10. CASE HostStartFails
  BY <1>10, SMTT(10) DEF HostStartFails, CoreStopping, ClearRequests,
    SyncHooks, Broadcast, Succ
<1>11. CASE HostStop
  BY <1>11, SMTT(10) DEF HostStop
<1>12. CASE HostReset
  BY <1>12, SMTT(10) DEF HostReset
<1>13. CASE HostStarted
  BY <1>13, SMTT(10) DEF HostStarted
<1>14. CASE HostRelease
  BY <1>14, SMTT(10) DEF HostRelease, CoreStopping, SyncHooks, Broadcast,
    Bump, Succ
<1>15. CASE HostJoin
  BY <1>15, SMTT(10) DEF HostJoin
<1>16. CASE CartUp
  BY <1>16, SMTT(10) DEF CartUp
<1>17. CASE LoopTop
  BY <1>17, SMTT(10) DEF LoopTop
<1>18. CASE FrameEnd
  BY <1>18, SMTT(10) DEF FrameEnd
<1>19. CASE BusAccess
  BY <1>19, SMTT(10) DEF BusAccess
<1>20. CASE BusHook
  BY <1>20, SMTT(10) DEF BusHook
<1>21. CASE Boundary
  BY <1>21, SMTT(10) DEF Boundary, LetGo
<1>22. CASE InstrHook
  BY <1>22, SMTT(10) DEF InstrHook, LetGo, StopCause, CountDown, ParkLocked,
    Bump, Succ
<1>23. CASE ParkLoop
  BY <1>23, SMTT(10) DEF ParkLoop, MustStayParked, LetGo
<1>24. CASE SpuriousWake
  BY <1>24, SMTT(10) DEF SpuriousWake
<1>25. CASE UNCHANGED vars
  BY <1>25, SMTT(10) DEF vars
<1> QED BY <1>1, <1>2, <1>3, <1>4, <1>5, <1>6, <1>7, <1>8, <1>9, <1>10, <1>11,
  <1>12, <1>13, <1>14, <1>15, <1>16, <1>17, <1>18, <1>19, <1>20, <1>21, <1>22,
  <1>23, <1>24, <1>25, Zenon DEF Next, UserCall, HostCall, MachineThread

LEMMA StepLatches == IInv /\ [Next]_vars => Latches'
<1> SUFFICES ASSUME IInv, [Next]_vars PROVE Latches'
  OBVIOUS
<1> USE DEF IInv, TypeOK, Latches, HooksInStep, StopIsArmed,
  ResetStaysInSession, PendingIsCurrent, PendingIsUnparked, Positions,
  StoppedMeansParked, NoLostWakeup, MustStayParked, Lifecycle, FrameBudget,
  Parked
<1>1. CASE Attach
  BY <1>1, SMTT(10) DEF Attach, AttachLocked, SyncHooks, Bump, Succ
<1>2. CASE Detach
  BY <1>2, SMTT(10) DEF Detach, SyncHooks, Broadcast, Bump, Succ
<1>3. CASE Stop
  BY <1>3, SMTT(10) DEF Stop
<1>4. CASE Resume
  BY <1>4, SMTT(10) DEF Resume, MayRelease, ReleaseLocked, Bump, Succ,
    Broadcast
<1>5. CASE CallOffStop
  BY <1>5, SMTT(10) DEF CallOffStop, MayRelease
<1>6. CASE RunToGoal
  BY <1>6, SMTT(10) DEF RunToGoal, MayRelease, ReleaseLocked, Bump, Succ,
    Broadcast
<1>7. ASSUME NEW n \in 1..MaxCount, StepCount(n) PROVE Latches'
  BY <1>7, SMTT(10) DEF StepCount, MayRelease, ReleaseLocked, Bump, Succ,
    Broadcast
<1>8. ASSUME NEW w \in BOOLEAN, EditBreakpoints(w) PROVE Latches'
  BY <1>8, SMTT(10) DEF EditBreakpoints, RebuildLocked, SyncHooks, Bump, Succ
<1>9. CASE HostStart
  BY <1>9, SMTT(10) DEF HostStart, CoreStarted, ClearRequests, SyncHooks,
    Bump, Succ
<1>10. CASE HostStartFails
  BY <1>10, SMTT(10) DEF HostStartFails, CoreStopping, ClearRequests,
    SyncHooks, Broadcast, Succ
<1>11. CASE HostStop
  BY <1>11, SMTT(10) DEF HostStop
<1>12. CASE HostReset
  BY <1>12, SMTT(10) DEF HostReset
<1>13. CASE HostStarted
  BY <1>13, SMTT(10) DEF HostStarted
<1>14. CASE HostRelease
  BY <1>14, SMTT(10) DEF HostRelease, CoreStopping, SyncHooks, Broadcast,
    Bump, Succ
<1>15. CASE HostJoin
  BY <1>15, SMTT(10) DEF HostJoin
<1>16. CASE CartUp
  BY <1>16, SMTT(10) DEF CartUp
<1>17. CASE LoopTop
  BY <1>17, SMTT(10) DEF LoopTop
<1>18. CASE FrameEnd
  BY <1>18, SMTT(10) DEF FrameEnd
<1>19. CASE BusAccess
  BY <1>19, ZenonT(30) DEF BusAccess
<1>20. CASE BusHook
  BY <1>20, SMTT(10) DEF BusHook
<1>21. CASE Boundary
  BY <1>21, SMTT(10) DEF Boundary, LetGo
<1>22. CASE InstrHook
  BY <1>22, SMTT(10) DEF InstrHook, LetGo, StopCause, CountDown, ParkLocked,
    Bump, Succ
<1>23. CASE ParkLoop
  BY <1>23, SMTT(10) DEF ParkLoop, MustStayParked, LetGo
<1>24. CASE SpuriousWake
  BY <1>24, SMTT(10) DEF SpuriousWake
<1>25. CASE UNCHANGED vars
  BY <1>25, SMTT(10) DEF vars
<1> QED BY <1>1, <1>2, <1>3, <1>4, <1>5, <1>6, <1>7, <1>8, <1>9, <1>10, <1>11,
  <1>12, <1>13, <1>14, <1>15, <1>16, <1>17, <1>18, <1>19, <1>20, <1>21, <1>22,
  <1>23, <1>24, <1>25, Zenon DEF Next, UserCall, HostCall, MachineThread

LEMMA StepAccounts == IInv /\ [Next]_vars => Accounts'
<1> SUFFICES ASSUME IInv, [Next]_vars PROVE Accounts'
  OBVIOUS
<1> USE DEF IInv, TypeOK, Accounts, StepIsExact, StepAccount, Latches,
  HooksInStep, Positions, StoppedMeansParked, NoLostWakeup, MustStayParked,
  Lifecycle, FrameBudget, Parked
<1>1. CASE Attach
  BY <1>1, SMTT(10) DEF Attach, AttachLocked, SyncHooks, Bump, Succ
<1>2. CASE Detach
  BY <1>2, SMTT(10) DEF Detach, SyncHooks, Broadcast, Bump, Succ
<1>3. CASE Stop
  BY <1>3, SMTT(10) DEF Stop
<1>4. CASE Resume
  BY <1>4, SMTT(10) DEF Resume, MayRelease, ReleaseLocked, Bump, Succ,
    Broadcast
<1>5. CASE CallOffStop
  BY <1>5, SMTT(10) DEF CallOffStop, MayRelease
<1>6. CASE RunToGoal
  BY <1>6, SMTT(10) DEF RunToGoal, MayRelease, ReleaseLocked, Bump, Succ,
    Broadcast
<1>7. ASSUME NEW n \in 1..MaxCount, StepCount(n) PROVE Accounts'
  BY <1>7, SMTT(10) DEF StepCount, MayRelease, ReleaseLocked, Bump, Succ,
    Broadcast
<1>8. ASSUME NEW w \in BOOLEAN, EditBreakpoints(w) PROVE Accounts'
  BY <1>8, SMTT(10) DEF EditBreakpoints, RebuildLocked, SyncHooks, Bump, Succ
<1>9. CASE HostStart
  BY <1>9, SMTT(10) DEF HostStart, CoreStarted, ClearRequests, SyncHooks,
    Bump, Succ
<1>10. CASE HostStartFails
  BY <1>10, SMTT(10) DEF HostStartFails, CoreStopping, ClearRequests,
    SyncHooks, Broadcast, Succ
<1>11. CASE HostStop
  BY <1>11, SMTT(10) DEF HostStop
<1>12. CASE HostReset
  BY <1>12, SMTT(10) DEF HostReset
<1>13. CASE HostStarted
  BY <1>13, SMTT(10) DEF HostStarted
<1>14. CASE HostRelease
  BY <1>14, SMTT(10) DEF HostRelease, CoreStopping, SyncHooks, Broadcast,
    Bump, Succ
<1>15. CASE HostJoin
  BY <1>15, SMTT(10) DEF HostJoin
<1>16. CASE CartUp
  BY <1>16, SMTT(10) DEF CartUp
<1>17. CASE LoopTop
  BY <1>17, SMTT(10) DEF LoopTop
<1>18. CASE FrameEnd
  BY <1>18, SMTT(10) DEF FrameEnd
<1>19. CASE BusAccess
  BY <1>19, SMTT(10) DEF BusAccess
<1>20. CASE BusHook
  BY <1>20, SMTT(10) DEF BusHook
<1>21. CASE Boundary
  BY <1>21, SMTT(10) DEF Boundary, LetGo
<1>22. CASE InstrHook
  BY <1>22, SMTT(10) DEF InstrHook, LetGo, StopCause, CountDown, ParkLocked,
    Bump, Succ
<1>23. CASE ParkLoop
  BY <1>23, SMTT(10) DEF ParkLoop, MustStayParked, LetGo
<1>24. CASE SpuriousWake
  BY <1>24, SMTT(10) DEF SpuriousWake
<1>25. CASE UNCHANGED vars
  BY <1>25, SMTT(10) DEF vars
<1> QED BY <1>1, <1>2, <1>3, <1>4, <1>5, <1>6, <1>7, <1>8, <1>9, <1>10, <1>11,
  <1>12, <1>13, <1>14, <1>15, <1>16, <1>17, <1>18, <1>19, <1>20, <1>21, <1>22,
  <1>23, <1>24, <1>25, Zenon DEF Next, UserCall, HostCall, MachineThread

LEMMA Invariance == Spec => []IInv
<1>1. IInv /\ [Next]_vars => IInv'
  BY StepTypeOK, StepPositions, StepLatches, StepAccounts, Zenon DEF IInv
<1> QED
  BY InitIInv, <1>1, PTL DEF Spec

-----------------------------------------------------------------------------
(* The safety properties. *)

(* Every variable keeps its type: no step counts below zero, no frame runs
   past its last instruction, the generation stays in its 32 bits. *)
THEOREM TypeCorrect == Spec => []TypeOK
<1>1. IInv => TypeOK
  BY Zenon DEF IInv
<1> QED
  BY Invariance, <1>1, PTL

(* A machine reported as stopped is parked, live and held (astrodebug_stopped,
   astrodebug_cpu_set and astrodebug_write rely on it). *)
THEOREM StoppedIsParked == Spec => []StoppedMeansParked
<1>1. IInv => StoppedMeansParked
  BY Zenon DEF IInv, Positions
<1> QED
  BY Invariance, <1>1, PTL

(* The machine thread never sleeps on d->cv once its reason to is gone. *)
THEOREM WakeupsReachThePark == Spec => []NoLostWakeup
<1>1. IInv => NoLostWakeup
  BY Zenon DEF IInv, Positions
<1> QED
  BY Invariance, <1>1, PTL

(* sync_hooks_locked keeps the core's hooks in step with the engine. *)
THEOREM HooksFollowEngine == Spec => []HooksInStep
<1>1. IInv => HooksInStep
  BY Zenon DEF IInv, Latches
<1> QED
  BY Invariance, <1>1, PTL

(* bus_hook's pending hit never outlives its instruction, machine, attach or
   the last watchpoint. *)
THEOREM PendingIsFresh == Spec => []PendingIsCurrent
<1>1. IInv => PendingIsCurrent
  BY Zenon DEF IInv, Latches
<1> QED
  BY Invariance, <1>1, PTL

(* Neither the hooks nor the pending hit are of an earlier machine or table.   *)
THEOREM NothingIsStale == Spec => []NothingStale
<1>1. HooksInStep /\ PendingIsCurrent => NothingStale
  BY DEF NothingStale
<1> QED
  BY HooksFollowEngine, PendingIsFresh, <1>1, PTL

(* astrodebug_step_count(n) stops after n instructions, whatever n. *)
THEOREM StepsAreExact == Spec => []StepIsExact
<1>1. IInv => StepIsExact
  BY Zenon DEF IInv, Accounts
<1> QED
  BY Invariance, <1>1, PTL

(* astro_host_start forgets a RESET the previous thread did not get to. *)
THEOREM ResetsStayInSession == Spec => []ResetStaysInSession
<1>1. IInv => ResetStaysInSession
  BY Zenon DEF IInv, Latches
<1> QED
  BY Invariance, <1>1, PTL

-----------------------------------------------------------------------------
(* The action properties. *)

(* While a stop is outstanding the machine thread lets no instruction go:
   instr_hook parks at the first boundary after astrodebug_stop. *)
THEOREM StopsArePrompt == Spec => StopIsPrompt
<1>1. IInv /\ [Next]_vars
        => (wanted /\ wanted' /\ mt \notin Parked => left' >= left)
  <2> SUFFICES ASSUME IInv, [Next]_vars, wanted, wanted', mt \notin Parked
               PROVE  left' >= left
    OBVIOUS
  <2> USE DEF IInv, TypeOK, Latches, StopIsArmed, HooksInStep, Parked
  <2>1. CASE UNCHANGED left
    BY <2>1, SMT
  <2>2. CASE LoopTop
    BY <2>2, SMT DEF LoopTop, Positions, FrameBudget
  <2>3. CASE HostStart
    BY <2>3, SMT DEF HostStart, Positions, Lifecycle, FrameBudget
  <2>4. CASE Boundary
    <3>1. instr_hook
      BY <2>4, Zenon DEF Boundary
    <3>2. UNCHANGED left
      BY <2>4, <3>1, Zenon DEF Boundary
    <3> QED
      BY <3>2, SMT
  <2>5. CASE InstrHook
    <3>1. attached /\ m /\ stop_req /\ ~releasing
      BY <2>5, Zenon DEF InstrHook, Positions, Lifecycle
    <3>2. \A hitExec, met : StopCause(hitExec, met) = "pause"
      BY <3>1, Zenon DEF StopCause
    <3>3. UNCHANGED left
      BY <2>5, <3>1, <3>2, Zenon DEF InstrHook, ParkLocked
    <3> QED
      BY <3>3, SMT
  <2>6. CASE ParkLoop
    BY <2>6, Zenon DEF ParkLoop
  <2> QED
    BY <2>1, <2>2, <2>3, <2>4, <2>5, <2>6, ZenonT(30)
    DEF Next, UserCall, HostCall, MachineThread, vars, Attach, Detach, Stop,
      Resume, CallOffStop, RunToGoal, StepCount, ReleaseLocked, EditBreakpoints, RebuildLocked,
      HostStartFails, HostStop, HostReset, HostStarted, HostRelease, HostJoin,
      CartUp, FrameEnd, BusAccess, BusHook, SpuriousWake
<1> QED
  BY Invariance, <1>1, PTL DEF Spec, StopIsPrompt

(* Each change a window shows moves the generation the window polls. *)
THEOREM ChangesAreSeen == Spec => ChangesAreAnnounced
<1>1. IInv /\ [Next]_vars
        => (<<stopped, attached, m>>' # <<stopped, attached, m>>
              => generation' # generation)
  <2> SUFFICES ASSUME IInv, [Next]_vars,
                      <<stopped, attached, m>>' # <<stopped, attached, m>>
               PROVE  generation' # generation
    OBVIOUS
  <2>1. generation \in 0..(GenMod - 1)
    BY Zenon DEF IInv, TypeOK
  <2>2. CASE Bump
    BY <2>1, <2>2, TypeFacts, Zenon DEF Bump
  <2>3. CASE HostStartFails
    BY <2>3, Zenon DEF HostStartFails, CoreStopping, IInv, TypeOK, Positions,
      Lifecycle, StoppedMeansParked
  <2>4. CASE InstrHook
    BY <2>2, <2>4, Zenon DEF InstrHook, ParkLocked
  <2>5. CASE HostStart \/ HostRelease \/ Attach \/ Detach
    BY <2>2, <2>5, Zenon DEF HostStart, CoreStarted, HostRelease, Attach, Detach
  <2>6. CASE Resume \/ RunToGoal \/ \E n \in 1..MaxCount : StepCount(n)
    BY <2>2, <2>6, Zenon DEF Resume, RunToGoal, StepCount, ReleaseLocked
  <2> QED
    BY <2>3, <2>4, <2>5, <2>6, ZenonT(30)
    DEF Next, UserCall, HostCall, MachineThread, vars, Stop, CallOffStop,
      EditBreakpoints, RebuildLocked, HostStop, HostReset, HostStarted, HostJoin, CartUp,
      LoopTop, FrameEnd, BusAccess, BusHook, Boundary, ParkLoop, SpuriousWake
<1> QED
  BY Invariance, <1>1, PTL DEF Spec, ChangesAreAnnounced

-----------------------------------------------------------------------------
(* The engine implements the contract of astrodebug.h: every step of the two
   threads is a step of DebugControl or changes nothing it can see. *)
LEMMA RefineInit == Init => Control!Init
BY TypeFacts, Zenon DEF Init, Control!Init, Mode

LEMMA RefineStep == IInv /\ [Next]_vars => [Control!Next]_(Control!vars)
<1> SUFFICES ASSUME IInv, [Next]_vars PROVE [Control!Next]_(Control!vars)
  OBVIOUS
<1> USE DEF IInv, Mode, Control!vars
<1>1. left' \in 0..InsnsPerFrame
  BY StepTypeOK, Zenon DEF TypeOK
<1>2. CASE Attach
  BY <1>2, Zenon DEF Attach, AttachLocked, Control!Next, Control!Attach
<1>3. CASE Detach
  BY <1>3, ZenonT(30) DEF Detach, Broadcast, Control!Next, Control!Detach
<1>4. CASE Resume \/ RunToGoal \/ \E n \in 1..MaxCount : StepCount(n)
  <2>1. stopped /\ m /\ mt # "none" /\ attached
    BY <1>4, Zenon DEF Resume, RunToGoal, StepCount, Positions,
      StoppedMeansParked, Parked
  <2>2. UNCHANGED <<attached, left, m>> /\ stopped' = FALSE /\ mt' # "none"
    BY <1>4, <2>1, Zenon DEF Resume, RunToGoal, StepCount, ReleaseLocked, Broadcast
  <2> QED
    BY <2>1, <2>2, Zenon DEF Control!Next, Control!Release
<1>5. CASE HostStart
  BY <1>1, <1>5, Zenon DEF HostStart, CoreStarted, Positions, Lifecycle,
    Control!Next, Control!Begin
<1>6. CASE HostRelease
  BY <1>6, Zenon DEF HostRelease, CoreStopping, Broadcast, Positions, Lifecycle,
    Control!Next, Control!Drain
<1>7. CASE HostJoin
  BY <1>7, Zenon DEF HostJoin, Positions, Lifecycle, Control!Next, Control!End
<1>8. CASE HostStartFails
  BY <1>8, Zenon DEF HostStartFails, CoreStopping, Broadcast, Positions, Lifecycle
<1>9. CASE LetGo /\ mt # "none" /\ ~(m /\ stopped) /\ UNCHANGED <<m, attached, stopped>>
  BY <1>1, <1>9, Zenon DEF LetGo, Control!Next, Control!Advance
<1>10. CASE LoopTop
  <2>1. ~stopped
    BY <1>10, Zenon DEF LoopTop, Positions, StoppedMeansParked, Parked
  <2> QED
    BY <1>1, <1>10, <2>1, Zenon DEF LoopTop, Control!Next, Control!Advance
<1>11. CASE Boundary
  <2>1. ~stopped
    BY <1>11, Zenon DEF Boundary, Positions, StoppedMeansParked, Parked
  <2> QED
    BY <1>9, <1>11, <2>1, Zenon DEF Boundary
<1>12. CASE InstrHook
  <2>1. ~stopped
    BY <1>12, Zenon DEF InstrHook, Positions, StoppedMeansParked, Parked
  <2>2. CASE \E why : ParkLocked(why) /\ attached /\ m
    BY <1>12, <2>1, <2>2, Zenon DEF InstrHook, ParkLocked, Control!Next,
      Control!Park
  <2>3. CASE LetGo /\ UNCHANGED stopped
    BY <1>9, <1>12, <2>1, <2>3, Zenon DEF InstrHook
  <2> QED
    BY <1>12, <2>2, <2>3, Zenon DEF InstrHook
<1>13. CASE ParkLoop
  <2>1. MustStayParked \/ ~stopped
    BY Zenon DEF MustStayParked, Positions, StoppedMeansParked
  <2> QED
    BY <1>9, <1>13, <2>1, Zenon DEF ParkLoop
<1>14. CASE UNCHANGED <<m, stopped, attached, left>> /\ mt # "none" /\ mt' # "none"
  BY <1>14, Zenon
<1>15. CASE UNCHANGED <<m, stopped, attached, left, mt>>
  BY <1>15, Zenon
<1>16. CASE CartUp \/ FrameEnd \/ BusAccess \/ BusHook \/ SpuriousWake
  BY <1>14, <1>16, Zenon DEF CartUp, FrameEnd, BusAccess, BusHook, SpuriousWake
<1>17. CASE \/ Stop \/ CallOffStop \/ \E w \in BOOLEAN : EditBreakpoints(w)
            \/ HostStop \/ HostReset \/ HostStarted \/ UNCHANGED vars
  BY <1>15, <1>17, Zenon DEF Stop, CallOffStop, EditBreakpoints, RebuildLocked, HostStop,
    HostReset, HostStarted, vars
<1> QED
  BY <1>2, <1>3, <1>4, <1>5, <1>6, <1>7, <1>8, <1>10, <1>11, <1>12, <1>13,
     <1>16, <1>17, Zenon DEF Next, UserCall, HostCall, MachineThread

(* A window sees only what astrodebug.h promises: a machine that is off,
   running, stopped or draining, stopped only while attached, and advancing
   only while it is not. *)
THEOREM EngineImplementsContract == Spec => ControlSpec
<1> QED
  BY Invariance, RefineInit, RefineStep, PTL DEF Spec, ControlSpec, Control!Spec
=============================================================================
