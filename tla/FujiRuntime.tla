---------------------------- MODULE FujiRuntime ----------------------------
(***************************************************************************)
(* The FujiNet runtime inside the process (core/src/fujinet_runtime.c and  *)
(* its entry, tools/fujinet/support/fujinet_desktop_entry.cpp): the host's *)
(* thread starts and stops it, a thread of its own serves, and a third     *)
(* copies what it prints to a log.                                         *)
(*                                                                         *)
(* The runtime's service loop ends when it sees a shutdown asked for, but  *)
(* a device may block it for as long as it likes: the host waits five      *)
(* seconds and then lets the thread be. A file descriptor is what it       *)
(* leads to: the real streams, or the pipe of the thread that made it.     *)
(***************************************************************************)
EXTENDS Integers, FiniteSets

CONSTANTS
  Host,            \* the thread that starts and stops
  Threads,         \* the runtime's threads; one that has ended may be used again
  Real,            \* the streams the process began with
  NoFd

ASSUME ThreadsAssumption ==
  Host \notin Threads /\ {Real, NoFd} \cap Threads = {} /\ Real # NoFd

VARIABLES
  at,              \* of Host and of each of Threads: the step it is at
  then,            \* what follows a thread's stop_log_capture
  (* fujinet_runtime.c *)
  fujinet_running,
  (* the entry, under g_mutex *)
  g_running, g_setup, g_runtime_thread,
  runtimeThread,   \* the stopping host's local
  shutdown,        \* fnSystem's request
  (* the capture, under g_log_mutex *)
  g_saved, g_pipe, g_log_thread,
  taken,           \* stop_log_capture's locals
  (* the system *)
  stdout,          \* where the two streams lead
  writable,        \* pipes whose write end g_log_write_fd was made of is open
  loggers          \* pipes a log thread reads

state == <<fujinet_running, g_running, g_setup, g_runtime_thread, runtimeThread, shutdown>>
capture == <<g_saved, g_pipe, g_log_thread, taken, stdout, writable, loggers>>
runtimeVars == <<at, then, state, capture>>

Actors == Threads \cup {Host}
Fds == Threads \cup {Real, NoFd}
Nothing == [saved |-> NoFd, pipe |-> NoFd, thread |-> NoFd]

RuntimeTypeOK ==
  /\ at[Host] \in {"idle", "setup", "stop", "join", "take", "restore", "log", "clear"}
  /\ \A t \in Threads : at[t] \in {"gone", "take", "restore", "log", "open", "redirect",
                                   "spawn", "setup", "serve", "blocked", "close", "end"}
  /\ then \in [Threads -> {"open", "end", "fail"}]
  /\ {fujinet_running, g_running, shutdown} \subseteq BOOLEAN
  /\ g_setup \in {"pending", "complete", "failed"}
  /\ {g_runtime_thread, runtimeThread} \subseteq Threads \cup {NoFd}
  /\ {g_saved, g_pipe, g_log_thread, stdout} \subseteq Fds
  /\ taken \in [Actors -> [saved : Fds, pipe : Fds, thread : Fds]]
  /\ writable \subseteq Threads /\ loggers \subseteq Threads

RuntimeInit ==
  /\ at = [a \in Actors |-> IF a = Host THEN "idle" ELSE "gone"]
  /\ then = [t \in Threads |-> "open"]
  /\ fujinet_running = FALSE
  /\ g_running = FALSE /\ g_setup = "pending"
  /\ g_runtime_thread = NoFd /\ runtimeThread = NoFd
  /\ shutdown = FALSE
  /\ g_saved = NoFd /\ g_pipe = NoFd /\ g_log_thread = NoFd
  /\ taken = [a \in Actors |-> Nothing]
  /\ stdout = Real /\ writable = {} /\ loggers = {}

Alive == {t \in Threads : at[t] # "gone"}

Go(a, from, to) == at[a] = from /\ at' = [at EXCEPT ![a] = to]

-----------------------------------------------------------------------------
(* stop_log_capture, by the host or by a thread of the runtime. *)

\* The descriptors and the log thread are taken ...
Take(a, to) ==
  /\ Go(a, "take", to)
  /\ taken' = [taken EXCEPT ![a] = [saved |-> g_saved, pipe |-> g_pipe,
                                    thread |-> g_log_thread]]
  /\ g_saved' = NoFd /\ g_pipe' = NoFd /\ g_log_thread' = NoFd
  /\ UNCHANGED <<then, state, stdout, writable, loggers>>

\* ... the streams put back and the pipe's write end closed ...
Restore(a, to) ==
  /\ Go(a, "restore", to)
  /\ stdout' = IF taken[a].saved = NoFd THEN stdout ELSE taken[a].saved
  /\ writable' = writable \ {taken[a].pipe}
  /\ UNCHANGED <<then, state, g_saved, g_pipe, g_log_thread, taken, loggers>>

\* ... the log thread joined.
JoinLog(a, to) ==
  /\ Go(a, "log", to)
  /\ taken[a].thread \notin loggers
  /\ taken' = [taken EXCEPT ![a] = Nothing]
  /\ UNCHANGED <<then, state, g_saved, g_pipe, g_log_thread, stdout, writable, loggers>>

StopLogCapture(a, to) ==
  Take(a, "restore") \/ Restore(a, "log") \/ JoinLog(a, to)

\* The log thread reads until nobody can write.
LogEnds(p) ==
  /\ p \in loggers /\ p \notin writable /\ stdout # p
  /\ loggers' = loggers \ {p}
  /\ UNCHANGED <<at, then, state, g_saved, g_pipe, g_log_thread, taken, stdout, writable>>

-----------------------------------------------------------------------------
(* start_log_capture, after a stop_log_capture. *)

OpenPipe(t) ==
  /\ Go(t, "open", "redirect")
  /\ g_saved' = stdout /\ g_pipe' = t
  /\ writable' = writable \cup {t}
  /\ UNCHANGED <<then, state, g_log_thread, taken, stdout, loggers>>

\* Two descriptors may not be had, and the runtime goes on without a log.
NoPipe(t) ==
  /\ Go(t, "open", "setup")
  /\ UNCHANGED <<then, state, capture>>

\* dup2, of a descriptor that somebody else's stop may have closed
RedirectStreams(t) ==
  /\ Go(t, "redirect", "spawn")
  /\ stdout' = IF t \in writable THEN t ELSE stdout
  /\ UNCHANGED <<then, state, g_saved, g_pipe, g_log_thread, taken, writable, loggers>>

SpawnLog(t) ==
  /\ Go(t, "spawn", "setup")
  /\ loggers' = loggers \cup {t}
  /\ g_log_thread' = t
  /\ UNCHANGED <<then, state, g_saved, g_pipe, taken, stdout, writable>>

-----------------------------------------------------------------------------
(* The runtime's thread. *)

\* main_setup
SetUp(t) ==
  /\ Go(t, "setup", "serve")
  /\ g_running' = TRUE /\ g_setup' = "complete"
  /\ UNCHANGED <<then, fujinet_running, g_runtime_thread, runtimeThread, shutdown,
                 capture>>

\* Faulty: the streams are left in the pipe.
FailCaptured(t) ==
  /\ Go(t, "setup", "gone")
  /\ g_running' = FALSE /\ g_setup' = "failed"
  /\ UNCHANGED <<then, fujinet_running, g_runtime_thread, runtimeThread, shutdown,
                 capture>>

\* ... throws, or the runtime's directory is not there: g_mutex is held until the
\* capture is over
Fail(t) ==
  /\ Go(t, "setup", "take")
  /\ then' = [then EXCEPT ![t] = "fail"]
  /\ UNCHANGED <<state, capture>>

Failed(t) ==
  /\ at[t] = "end" /\ then[t] = "fail"
  /\ at' = [at EXCEPT ![t] = "gone"]
  /\ g_running' = FALSE /\ g_setup' = "failed"
  /\ UNCHANGED <<then, fujinet_running, g_runtime_thread, runtimeThread, shutdown,
                 capture>>

\* A device's call blocks the loop, and may be done one day.
Block(t) == Go(t, "serve", "blocked") /\ UNCHANGED <<then, state, capture>>
Unblock(t) == Go(t, "blocked", "serve") /\ UNCHANGED <<then, state, capture>>

\* fn_service_loop sees the request
LeaveLoop(t) ==
  /\ Go(t, "serve", "close")
  /\ shutdown
  /\ UNCHANGED <<then, state, capture>>

\* main_shutdown_handler, and the request is cleared
ShutDown(t) ==
  /\ Go(t, "close", "take")
  /\ then' = [then EXCEPT ![t] = "end"]
  /\ shutdown' = FALSE
  /\ UNCHANGED <<fujinet_running, g_running, g_setup, g_runtime_thread, runtimeThread,
                 capture>>

Ended(t) ==
  /\ at[t] = "end" /\ then[t] = "end"
  /\ at' = [at EXCEPT ![t] = "gone"]
  /\ g_running' = FALSE
  /\ UNCHANGED <<then, fujinet_running, g_setup, g_runtime_thread, runtimeThread,
                 shutdown, capture>>

Captures(t) ==
  \/ StopLogCapture(t, IF then[t] = "open" THEN "open" ELSE "end")
  \/ OpenPipe(t) \/ NoPipe(t) \/ RedirectStreams(t) \/ SpawnLog(t)

Runs(t) ==
  Captures(t) \/ SetUp(t) \/ Fail(t) \/ Failed(t) \/ LeaveLoop(t) \/ ShutDown(t) \/ Ended(t)

-----------------------------------------------------------------------------
(* The host. *)

\* fujinet_start, and the entry's start: one that runs is taken for started,
\* whatever was asked of it
StartRunning ==
  /\ at[Host] = "idle" /\ ~fujinet_running
  /\ g_running
  /\ fujinet_running' = TRUE
  /\ UNCHANGED <<at, then, g_running, g_setup, g_runtime_thread, runtimeThread, shutdown,
                 capture>>

StartRuntime(t) ==
  /\ at[Host] = "idle" /\ ~fujinet_running
  /\ ~g_running /\ t \notin Alive
  /\ shutdown' = FALSE
  /\ g_setup' = "pending"
  /\ g_runtime_thread' = t
  /\ at' = [at EXCEPT ![Host] = "setup", ![t] = "take"]
  /\ then' = [then EXCEPT ![t] = "open"]
  /\ UNCHANGED <<fujinet_running, g_running, runtimeThread, capture>>

\* the wait for the setup's end, either of which the start reports
Started ==
  /\ Go(Host, "setup", "idle")
  /\ g_setup = "complete"
  /\ fujinet_running' = TRUE
  /\ UNCHANGED <<then, g_running, g_setup, g_runtime_thread, runtimeThread, shutdown,
                 capture>>

StartFailed ==
  /\ Go(Host, "setup", "idle")
  /\ g_setup = "failed"
  /\ g_runtime_thread' = NoFd
  /\ UNCHANGED <<then, fujinet_running, g_running, g_setup, runtimeThread, shutdown,
                 capture>>

\* fujinet_stop, and the entry's stop: nothing to do ...
StopNothing ==
  /\ at[Host] = "idle" /\ fujinet_running
  /\ ~g_running /\ g_runtime_thread = NoFd
  /\ fujinet_running' = FALSE
  /\ UNCHANGED <<at, then, g_running, g_setup, g_runtime_thread, runtimeThread, shutdown,
                 capture>>

\* ... or a request, and the wait for its thread
StopRuntime ==
  /\ Go(Host, "idle", "stop") /\ fujinet_running
  /\ g_runtime_thread # NoFd
  /\ fujinet_running' = FALSE
  /\ shutdown' = TRUE
  /\ runtimeThread' = g_runtime_thread /\ g_runtime_thread' = NoFd
  /\ UNCHANGED <<then, g_running, g_setup, capture>>

\* ... which is nobody's any more when an earlier stop has let it be
StopAgain ==
  /\ Go(Host, "idle", "take") /\ fujinet_running
  /\ g_running /\ g_runtime_thread = NoFd
  /\ fujinet_running' = FALSE
  /\ shutdown' = TRUE
  /\ UNCHANGED <<then, g_running, g_setup, g_runtime_thread, runtimeThread, capture>>

\* g_stop_condition is signalled
Stopped ==
  /\ Go(Host, "stop", "join")
  /\ ~g_running
  /\ UNCHANGED <<then, state, capture>>

\* Faulty: the thread is joined, however long that takes.
WaitOn ==
  /\ Go(Host, "stop", "join")
  /\ UNCHANGED <<then, state, capture>>

\* five seconds have passed: the thread is let be, and g_running left set
Detach ==
  /\ Go(Host, "stop", "idle")
  /\ g_running
  /\ runtimeThread' = NoFd
  /\ UNCHANGED <<then, fujinet_running, g_running, g_setup, g_runtime_thread, shutdown,
                 capture>>

Join ==
  /\ Go(Host, "join", "take")
  /\ runtimeThread \notin Alive
  /\ UNCHANGED <<then, state, capture>>

\* the end of a stop that did not time out
Clear ==
  /\ Go(Host, "clear", "idle")
  /\ shutdown' = FALSE /\ g_running' = FALSE /\ runtimeThread' = NoFd
  /\ UNCHANGED <<then, fujinet_running, g_setup, g_runtime_thread, capture>>

Calls == StartRunning \/ (\E t \in Threads : StartRuntime(t)) \/ StopNothing \/ StopRuntime
Waits == Started \/ StartFailed \/ Stopped \/ Detach \/ Join
         \/ StopLogCapture(Host, "clear") \/ Clear

-----------------------------------------------------------------------------
\* With a host that stops no runtime it has let be ...
Orderly ==
  \/ Calls \/ Waits
  \/ \E t \in Threads : Runs(t) \/ Block(t) \/ Unblock(t) \/ LogEnds(t)

\* ... and the host there is
RuntimeNext == Orderly \/ StopAgain

\* Threads run, five seconds pass, a setup ends. No call that blocks need return,
\* and the user owes no call.
RuntimeFairness ==
  /\ WF_runtimeVars(Waits)
  /\ \A t \in Threads : WF_runtimeVars(Runs(t)) /\ WF_runtimeVars(LogEnds(t))

RuntimeSpec == RuntimeInit /\ [][RuntimeNext]_runtimeVars
OrderlySpec == RuntimeInit /\ [][Orderly]_runtimeVars /\ RuntimeFairness

-----------------------------------------------------------------------------
\* "a subsequent start must not spawn a second thread on top of it"
OneRuntime == Cardinality(Alive) <= 1

\* What serves prints to the log, if a pipe was to be had, and the streams are put
\* back, the pipe closed and its reader gone when the runtime is, also one that
\* failed or that a stop let be.
CaptureFollows ==
  /\ \A t \in Threads : at[t] \in {"serve", "blocked"} /\ g_pipe # NoFd =>
       stdout = t /\ g_pipe = t /\ g_saved = Real /\ t \in loggers /\ g_log_thread = t
  /\ (Alive = {} /\ at[Host] \in {"idle", "join"}) =>
       stdout = Real /\ g_saved = NoFd /\ g_pipe = NoFd /\ g_log_thread = NoFd
       /\ writable = {} /\ loggers = {}

\* "a wedged FujiNet runtime cannot hang the whole host process": a start or a
\* stop returns, whatever blocks the runtime.
CallsReturn == at[Host] # "idle" ~> at[Host] = "idle"
=============================================================================
