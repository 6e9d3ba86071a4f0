--------------------------- MODULE FujiNet_proofs ----------------------------
(***************************************************************************)
(* Theorems about FujiRuntime, for every set of threads its runtimes are    *)
(* started on, and about Cart, for every set of images, whatever their      *)
(* kinds, pages and claims are, within CartAssumptions.                     *)
(*                                                                         *)
(* Cart's invariant IInv adds to the properties which image the bank        *)
(* selects are of (ServingIsPlanned), that a transaction only runs on a     *)
(* live mailbox (BusyIsLive), what is staged and since when                 *)
(* (StagingIsReady), and what a stream's buffer holds: the chunks that were *)
(* sent of the image that it pushes (BufferIsPushed). RuntimeInv says of    *)
(* the one thread that is alive what it has of the streams at each of its   *)
(* steps (CaptureOf), and what the host knows of it (HostKnows). And about  *)
(* FujiTrace, for every set of packets and length of the trace: TraceInv    *)
(* says what is held back (TraceOK), that every packet is counted           *)
(* (WireIsTold), and when a list may be left as it is (ListIsOf).           *)
(***************************************************************************)
EXTENDS Cart, FujiRuntime, FujiTrace, WellFoundedInduction, FiniteSetTheorems,
        SequenceTheorems, TLAPS

(* The runtime. *)

HostSteps == {"idle", "setup", "stop", "join", "take", "restore", "log", "clear"}
AliveSteps == {"take", "restore", "log", "open", "redirect", "spawn", "setup", "serve",
               "blocked", "close", "end"}
Steps == HostSteps \cup AliveSteps \cup {"gone"}

(* Of a thread that has yet to serve, or that failed to. *)
Prepares(t) ==
  \/ at[t] \in {"open", "redirect", "spawn", "setup"}
  \/ at[t] \in {"take", "restore", "log"} /\ then[t] \in {"open", "fail"}
  \/ at[t] = "end" /\ then[t] = "fail"

(* A runtime that is not running yet has a host that waits for it, and the     *)
(* host that has seen it stop has nobody to wait for.                          *)
HostKnows ==
  /\ \A t \in Alive : IF Prepares(t) THEN at[Host] = "setup" /\ g_setup = "pending"
                                     ELSE g_running
  /\ at[Host] \in {"join", "take", "restore", "log", "clear"} => Alive = {}

AtMostOne == \A t, u \in Alive : t = u

(* The capture, when there is none and when t has it. *)
Clean ==
  /\ stdout = Real /\ g_saved = NoFd /\ g_pipe = NoFd /\ g_log_thread = NoFd
  /\ writable = {} /\ loggers = {}

Captured(t) ==
  /\ stdout = t /\ g_saved = Real /\ g_pipe = t /\ g_log_thread = t
  /\ writable = {t} /\ loggers = {t}

(* It has a pipe and no log thread yet. *)
HasPipe(t) ==
  /\ g_saved = Real /\ g_pipe = t /\ g_log_thread = NoFd
  /\ writable = {t} /\ loggers = {}

(* It has taken its capture from the entry to undo it. *)
HasTaken(t) ==
  /\ g_saved = NoFd /\ g_pipe = NoFd /\ g_log_thread = NoFd
  /\ taken[t] = [saved |-> Real, pipe |-> t, thread |-> t]

(* Of the one that is alive, by the step it is at. *)
CaptureOf(t) ==
  /\ at[t] \in {"take", "setup", "serve", "blocked", "close"} => Clean \/ Captured(t)
  /\ at[t] = "restore" =>
       \/ Clean /\ taken[t] = Nothing
       \/ HasTaken(t) /\ stdout = t /\ writable = {t} /\ loggers = {t}
  /\ at[t] = "log" =>
       \/ Clean /\ taken[t] = Nothing
       \/ HasTaken(t) /\ stdout = Real /\ writable = {} /\ loggers \subseteq {t}
  /\ at[t] \in {"open", "end"} => Clean
  /\ at[t] = "redirect" => HasPipe(t) /\ stdout = Real
  /\ at[t] = "spawn" => HasPipe(t) /\ stdout = t

RuntimeInv ==
  /\ RuntimeTypeOK /\ at \in [Actors -> Steps]
  /\ HostKnows /\ AtMostOne /\ \A t \in Alive : CaptureOf(t)
  /\ Alive = {} => Clean
  /\ taken[Host] = Nothing
-----------------------------------------------------------------------------
(* What a step of the one thread that is alive leaves to show. *)
LEMMA ThreadGoes ==
  ASSUME RuntimeInv, NEW t \in Threads, NEW from \in AliveSteps, NEW to \in AliveSteps,
         Go(t, from, to)
  PROVE  /\ Alive = {t} /\ Alive' = {t} /\ at[t] = from /\ at'[t] = to
         /\ at[Host] \in HostSteps /\ at'[Host] = at[Host]
         /\ at' \in [Actors -> Steps] /\ \A u \in Threads \ {t} : at'[u] = "gone"
         /\ CaptureOf(t)
         /\ IF Prepares(t) THEN at[Host] = "setup" /\ g_setup = "pending" ELSE g_running
<1>1. t # Host /\ t \in Actors /\ Host \in Actors /\ at \in [Actors -> Steps]
  BY ThreadsAssumption DEF Actors, RuntimeInv
<1>2. at[t] = from /\ at' = [at EXCEPT ![t] = to]
  BY DEF Go
<1>3. t \in Alive
  BY <1>2 DEF Alive, AliveSteps
<1>4. Alive = {t}
  BY <1>3 DEF RuntimeInv, AtMostOne
<1>5. \A u \in Threads \ {t} : at[u] = "gone"
  BY <1>4 DEF Alive
<1>6. at'[t] = to /\ at' \in [Actors -> Steps]
  BY <1>1, <1>2 DEF Steps
<1>7. at'[Host] = at[Host] /\ \A u \in Threads \ {t} : at'[u] = "gone"
  BY <1>1, <1>2, <1>5 DEF Actors
<1>8. Alive' = {t}
  BY <1>6, <1>7 DEF Alive, AliveSteps
<1>9. at[Host] \in HostSteps
  BY DEF RuntimeInv, RuntimeTypeOK, HostSteps
<1> QED
  BY <1>2, <1>3, <1>4, <1>6, <1>7, <1>8, <1>9 DEF RuntimeInv, HostKnows

LEMMA ThreadKeeps ==
  ASSUME RuntimeInv, NEW t \in Threads, NEW from \in AliveSteps, NEW to \in AliveSteps,
         Go(t, from, to),
         then' \in [Threads -> {"open", "end", "fail"}],
         {fujinet_running', g_running', shutdown'} \subseteq BOOLEAN,
         g_setup' \in {"pending", "complete", "failed"},
         UNCHANGED <<g_runtime_thread, runtimeThread>>,
         {g_saved', g_pipe', g_log_thread', stdout'} \subseteq Fds,
         taken' \in [Actors -> [saved : Fds, pipe : Fds, thread : Fds]],
         taken'[Host] = Nothing,
         writable' \subseteq Threads, loggers' \subseteq Threads,
         CaptureOf(t)',
         IF Prepares(t)' THEN at[Host] = "setup" /\ g_setup' = "pending" ELSE g_running'
  PROVE  RuntimeInv'
<1>1. /\ Alive = {t} /\ Alive' = {t} /\ at'[t] = to
      /\ at[Host] \in HostSteps /\ at'[Host] = at[Host]
      /\ at' \in [Actors -> Steps] /\ \A u \in Threads \ {t} : at'[u] = "gone"
  BY ThreadGoes
<1>2. RuntimeTypeOK'
  <2>1. at'[Host] \in HostSteps /\ \A u \in Threads : at'[u] \in AliveSteps \cup {"gone"}
    BY <1>1
  <2>2. {g_runtime_thread', runtimeThread'} \subseteq Threads \cup {NoFd}
    BY DEF RuntimeInv, RuntimeTypeOK
  <2> QED
    BY <2>1, <2>2 DEF RuntimeTypeOK, HostSteps, AliveSteps
<1>3. AtMostOne' /\ (\A u \in Alive : CaptureOf(u))' /\ (Alive = {} => Clean)'
  BY <1>1 DEF AtMostOne
<1>4. HostKnows'
  <2>1. at[Host] \notin {"join", "take", "restore", "log", "clear"}
    BY <1>1 DEF RuntimeInv, HostKnows
  <2> QED
    BY <1>1, <2>1 DEF HostKnows
<1> QED
  BY <1>1, <1>2, <1>3, <1>4 DEF RuntimeInv
(* A thread's step that leaves the rest of the host's state alone. *)
StateFacts ==
  /\ then \in [Threads -> {"open", "end", "fail"}]
  /\ fujinet_running \in BOOLEAN /\ g_running \in BOOLEAN /\ shutdown \in BOOLEAN
  /\ g_setup \in {"pending", "complete", "failed"}

CaptureFacts ==
  /\ g_saved \in Fds /\ g_pipe \in Fds /\ g_log_thread \in Fds /\ stdout \in Fds
  /\ taken \in [Actors -> [saved : Fds, pipe : Fds, thread : Fds]]
  /\ taken[Host] = Nothing
  /\ writable \subseteq Threads /\ loggers \subseteq Threads

LEMMA Facts ==
  ASSUME RuntimeInv
  PROVE  /\ StateFacts /\ CaptureFacts /\ Real \in Fds /\ NoFd \in Fds /\ Host \in Actors
         /\ \A t \in Threads : t \in Fds /\ t \in Actors /\ t # Host /\ t # Real /\ t # NoFd
         /\ Real # NoFd
<1>1. StateFacts
  BY DEF StateFacts, RuntimeInv, RuntimeTypeOK
<1>2. CaptureFacts
  BY DEF CaptureFacts, RuntimeInv, RuntimeTypeOK
<1> QED
  BY <1>1, <1>2, ThreadsAssumption DEF Fds, Actors

LEMMA ThreadTakes == ASSUME RuntimeInv, NEW t \in Threads, Take(t, "restore") PROVE RuntimeInv'
<1>1. Go(t, "take", "restore")
  BY DEF Take
<1>2. "take" \in AliveSteps /\ "restore" \in AliveSteps
  BY DEF AliveSteps
<1>3. /\ at[t] = "take" /\ at'[t] = "restore" /\ CaptureOf(t)
      /\ IF Prepares(t) THEN at[Host] = "setup" /\ g_setup = "pending" ELSE g_running
  BY <1>1, <1>2, ThreadGoes
<1>4. /\ taken' = [taken EXCEPT ![t] = [saved |-> g_saved, pipe |-> g_pipe, thread |-> g_log_thread]]
      /\ g_saved' = NoFd /\ g_pipe' = NoFd /\ g_log_thread' = NoFd
      /\ UNCHANGED <<then, state, stdout, writable, loggers>>
  BY DEF Take
<1>5. CaptureOf(t)'
  <2>1. taken'[t] = [saved |-> g_saved, pipe |-> g_pipe, thread |-> g_log_thread]
    BY <1>4, Facts DEF CaptureFacts
  <2>2. CASE Clean
    BY <1>3, <1>4, <2>1, <2>2 DEF CaptureOf, Clean, Nothing
  <2>3. CASE Captured(t)
    BY <1>3, <1>4, <2>1, <2>3 DEF CaptureOf, Captured, HasTaken
  <2> QED
    BY <1>3, <2>2, <2>3 DEF CaptureOf
<1>6. taken' \in [Actors -> [saved : Fds, pipe : Fds, thread : Fds]] /\ taken'[Host] = Nothing
  BY <1>4, Facts DEF CaptureFacts
<1>7. IF Prepares(t)' THEN at[Host] = "setup" /\ g_setup' = "pending" ELSE g_running'
  BY <1>3, <1>4 DEF Prepares, state
<1> QED
  BY <1>1, <1>2, <1>4, <1>5, <1>6, <1>7, Facts, ThreadKeeps DEF StateFacts, CaptureFacts, state

LEMMA ThreadRestores == ASSUME RuntimeInv, NEW t \in Threads, Restore(t, "log") PROVE RuntimeInv'
<1>1. Go(t, "restore", "log")
  BY DEF Restore
<1>2. "restore" \in AliveSteps /\ "log" \in AliveSteps
  BY DEF AliveSteps
<1>3. /\ at[t] = "restore" /\ at'[t] = "log" /\ CaptureOf(t)
      /\ IF Prepares(t) THEN at[Host] = "setup" /\ g_setup = "pending" ELSE g_running
  BY <1>1, <1>2, ThreadGoes
<1>4. /\ stdout' = IF taken[t].saved = NoFd THEN stdout ELSE taken[t].saved
      /\ writable' = writable \ {taken[t].pipe}
      /\ UNCHANGED <<then, state, g_saved, g_pipe, g_log_thread, taken, loggers>>
  BY DEF Restore
<1>5. CaptureOf(t)'
  <2>1. CASE Clean /\ taken[t] = Nothing
    BY <1>3, <1>4, <2>1 DEF CaptureOf, Clean, Nothing
  <2>2. CASE HasTaken(t) /\ stdout = t /\ writable = {t} /\ loggers = {t}
    <3>1. stdout' = Real /\ writable' = {}
      BY <1>4, <2>2, ThreadsAssumption DEF HasTaken
    <3> QED
      BY <1>3, <1>4, <2>2, <3>1 DEF CaptureOf, HasTaken
  <2> QED
    BY <1>3, <2>1, <2>2 DEF CaptureOf
<1>6. stdout' \in Fds
  BY <1>4, Facts DEF CaptureFacts
<1>7. IF Prepares(t)' THEN at[Host] = "setup" /\ g_setup' = "pending" ELSE g_running'
  BY <1>3, <1>4 DEF Prepares, state
<1>8. writable' \subseteq Threads
  BY <1>4, Facts DEF CaptureFacts
<1> QED
  BY <1>1, <1>2, <1>4, <1>5, <1>6, <1>7, <1>8, Facts, ThreadKeeps DEF StateFacts, CaptureFacts, state

LEMMA ThreadJoinsLog ==
  ASSUME RuntimeInv, NEW t \in Threads,
         JoinLog(t, IF then[t] = "open" THEN "open" ELSE "end")
  PROVE  RuntimeInv'
<1> DEFINE to == IF then[t] = "open" THEN "open" ELSE "end"
<1>1. Go(t, "log", to)
  BY DEF JoinLog
<1>2. "log" \in AliveSteps /\ to \in AliveSteps
  BY DEF AliveSteps
<1>3. /\ at[t] = "log" /\ at'[t] = to /\ CaptureOf(t)
      /\ IF Prepares(t) THEN at[Host] = "setup" /\ g_setup = "pending" ELSE g_running
  BY <1>1, <1>2, ThreadGoes
<1>4. /\ taken[t].thread \notin loggers
      /\ taken' = [taken EXCEPT ![t] = Nothing]
      /\ UNCHANGED <<then, state, g_saved, g_pipe, g_log_thread, stdout, writable, loggers>>
  BY DEF JoinLog
<1>5. CaptureOf(t)'
  <2>1. Clean
    <3>1. CASE HasTaken(t) /\ stdout = Real /\ writable = {} /\ loggers \subseteq {t}
      BY <1>4, <3>1 DEF HasTaken, Clean
    <3> QED
      BY <1>3, <3>1 DEF CaptureOf
  <2> QED
    BY <1>3, <1>4, <2>1 DEF CaptureOf, Clean
<1>6. taken' \in [Actors -> [saved : Fds, pipe : Fds, thread : Fds]] /\ taken'[Host] = Nothing
  BY <1>4, Facts DEF CaptureFacts, Nothing
<1>7. IF Prepares(t)' THEN at[Host] = "setup" /\ g_setup' = "pending" ELSE g_running'
  <2>1. then[t] \in {"open", "end", "fail"}
    BY Facts DEF StateFacts
  <2> QED
    BY <1>3, <1>4, <2>1 DEF Prepares, state
<1> HIDE DEF to
<1> QED
  BY <1>1, <1>2, <1>4, <1>5, <1>6, <1>7, Facts, ThreadKeeps DEF StateFacts, CaptureFacts, state

LEMMA PipeOpens == ASSUME RuntimeInv, NEW t \in Threads, OpenPipe(t) PROVE RuntimeInv'
<1>1. Go(t, "open", "redirect")
  BY DEF OpenPipe
<1>2. "open" \in AliveSteps /\ "redirect" \in AliveSteps
  BY DEF AliveSteps
<1>3. /\ at[t] = "open" /\ at'[t] = "redirect" /\ CaptureOf(t)
      /\ IF Prepares(t) THEN at[Host] = "setup" /\ g_setup = "pending" ELSE g_running
  BY <1>1, <1>2, ThreadGoes
<1>4. /\ g_saved' = stdout /\ g_pipe' = t /\ writable' = writable \cup {t}
      /\ UNCHANGED <<then, state, g_log_thread, taken, stdout, loggers>>
  BY DEF OpenPipe
<1>5. CaptureOf(t)'
  BY <1>3, <1>4 DEF CaptureOf, Clean, HasPipe
<1>6. {g_saved', g_pipe'} \subseteq Fds /\ writable' \subseteq Threads
  BY <1>4, Facts DEF CaptureFacts
<1>7. IF Prepares(t)' THEN at[Host] = "setup" /\ g_setup' = "pending" ELSE g_running'
  BY <1>3, <1>4 DEF Prepares, state
<1> QED
  BY <1>1, <1>2, <1>4, <1>5, <1>6, <1>7, Facts, ThreadKeeps DEF StateFacts, CaptureFacts, state

LEMMA PipeIsRefused == ASSUME RuntimeInv, NEW t \in Threads, NoPipe(t) PROVE RuntimeInv'
<1>1. Go(t, "open", "setup")
  BY DEF NoPipe
<1>2. "open" \in AliveSteps /\ "setup" \in AliveSteps
  BY DEF AliveSteps
<1>3. /\ at[t] = "open" /\ at'[t] = "setup" /\ CaptureOf(t)
      /\ IF Prepares(t) THEN at[Host] = "setup" /\ g_setup = "pending" ELSE g_running
  BY <1>1, <1>2, ThreadGoes
<1>4. UNCHANGED <<then, state, capture>>
  BY DEF NoPipe
<1>5. CaptureOf(t)'
  BY <1>3, <1>4 DEF CaptureOf, Clean, capture
<1>6. CaptureFacts'
  BY <1>4, Facts DEF CaptureFacts, capture
<1>7. IF Prepares(t)' THEN at[Host] = "setup" /\ g_setup' = "pending" ELSE g_running'
  BY <1>3, <1>4 DEF Prepares, state
<1> QED
  BY <1>1, <1>2, <1>4, <1>5, <1>6, <1>7, Facts, ThreadKeeps DEF StateFacts, CaptureFacts, state

LEMMA StreamsAreRedirected == ASSUME RuntimeInv, NEW t \in Threads, RedirectStreams(t) PROVE RuntimeInv'
<1>1. Go(t, "redirect", "spawn")
  BY DEF RedirectStreams
<1>2. "redirect" \in AliveSteps /\ "spawn" \in AliveSteps
  BY DEF AliveSteps
<1>3. /\ at[t] = "redirect" /\ at'[t] = "spawn" /\ CaptureOf(t)
      /\ IF Prepares(t) THEN at[Host] = "setup" /\ g_setup = "pending" ELSE g_running
  BY <1>1, <1>2, ThreadGoes
<1>4. /\ stdout' = IF t \in writable THEN t ELSE stdout
      /\ UNCHANGED <<then, state, g_saved, g_pipe, g_log_thread, taken, writable, loggers>>
  BY DEF RedirectStreams
<1>5. CaptureOf(t)'
  BY <1>3, <1>4 DEF CaptureOf, HasPipe
<1>6. stdout' \in Fds
  BY <1>4, Facts DEF CaptureFacts
<1>7. IF Prepares(t)' THEN at[Host] = "setup" /\ g_setup' = "pending" ELSE g_running'
  BY <1>3, <1>4 DEF Prepares, state
<1> QED
  BY <1>1, <1>2, <1>4, <1>5, <1>6, <1>7, Facts, ThreadKeeps DEF StateFacts, CaptureFacts, state

LEMMA LogSpawns == ASSUME RuntimeInv, NEW t \in Threads, SpawnLog(t) PROVE RuntimeInv'
<1>1. Go(t, "spawn", "setup")
  BY DEF SpawnLog
<1>2. "spawn" \in AliveSteps /\ "setup" \in AliveSteps
  BY DEF AliveSteps
<1>3. /\ at[t] = "spawn" /\ at'[t] = "setup" /\ CaptureOf(t)
      /\ IF Prepares(t) THEN at[Host] = "setup" /\ g_setup = "pending" ELSE g_running
  BY <1>1, <1>2, ThreadGoes
<1>4. /\ loggers' = loggers \cup {t} /\ g_log_thread' = t
      /\ UNCHANGED <<then, state, g_saved, g_pipe, taken, stdout, writable>>
  BY DEF SpawnLog
<1>5. CaptureOf(t)'
  BY <1>3, <1>4 DEF CaptureOf, HasPipe, Captured
<1>6. g_log_thread' \in Fds /\ loggers' \subseteq Threads
  BY <1>4, Facts DEF CaptureFacts
<1>7. IF Prepares(t)' THEN at[Host] = "setup" /\ g_setup' = "pending" ELSE g_running'
  BY <1>3, <1>4 DEF Prepares, state
<1> QED
  BY <1>1, <1>2, <1>4, <1>5, <1>6, <1>7, Facts, ThreadKeeps DEF StateFacts, CaptureFacts, state

LEMMA SetUpKeeps == ASSUME RuntimeInv, NEW t \in Threads, SetUp(t) PROVE RuntimeInv'
<1>1. Go(t, "setup", "serve")
  BY DEF SetUp
<1>2. "setup" \in AliveSteps /\ "serve" \in AliveSteps
  BY DEF AliveSteps
<1>3. /\ at[t] = "setup" /\ at'[t] = "serve" /\ CaptureOf(t)
      /\ IF Prepares(t) THEN at[Host] = "setup" /\ g_setup = "pending" ELSE g_running
  BY <1>1, <1>2, ThreadGoes
<1>4. /\ g_running' = TRUE /\ g_setup' = "complete"
      /\ UNCHANGED <<then, fujinet_running, g_runtime_thread, runtimeThread, shutdown, capture>>
  BY DEF SetUp
<1>5. CaptureOf(t)'
  BY <1>3, <1>4 DEF CaptureOf, Clean, Captured, capture
<1>6. CaptureFacts'
  BY <1>4, Facts DEF CaptureFacts, capture
<1>7. IF Prepares(t)' THEN at[Host] = "setup" /\ g_setup' = "pending" ELSE g_running'
  BY <1>3, <1>4 DEF Prepares, state
<1> QED
  BY <1>1, <1>2, <1>4, <1>5, <1>6, <1>7, Facts, ThreadKeeps DEF StateFacts, CaptureFacts, state

LEMMA FailKeeps == ASSUME RuntimeInv, NEW t \in Threads, Fail(t) PROVE RuntimeInv'
<1>1. Go(t, "setup", "take")
  BY DEF Fail
<1>2. "setup" \in AliveSteps /\ "take" \in AliveSteps
  BY DEF AliveSteps
<1>3. /\ at[t] = "setup" /\ at'[t] = "take" /\ CaptureOf(t)
      /\ IF Prepares(t) THEN at[Host] = "setup" /\ g_setup = "pending" ELSE g_running
  BY <1>1, <1>2, ThreadGoes
<1>4. then' = [then EXCEPT ![t] = "fail"] /\ UNCHANGED <<state, capture>>
  BY DEF Fail
<1>5. CaptureOf(t)'
  BY <1>3, <1>4 DEF CaptureOf, Clean, Captured, capture
<1>6. CaptureFacts'
  BY <1>4, Facts DEF CaptureFacts, capture
<1>7. IF Prepares(t)' THEN at[Host] = "setup" /\ g_setup' = "pending" ELSE g_running'
  <2>1. then'[t] = "fail"
    BY <1>4, Facts DEF StateFacts
  <2> QED
    BY <1>3, <1>4, <2>1 DEF Prepares, state
<1> QED
  BY <1>1, <1>2, <1>4, <1>5, <1>6, <1>7, Facts, ThreadKeeps DEF StateFacts, CaptureFacts, state

LEMMA BlockKeeps == ASSUME RuntimeInv, NEW t \in Threads, Block(t) PROVE RuntimeInv'
<1>1. Go(t, "serve", "blocked")
  BY DEF Block
<1>2. "serve" \in AliveSteps /\ "blocked" \in AliveSteps
  BY DEF AliveSteps
<1>3. /\ at[t] = "serve" /\ at'[t] = "blocked" /\ CaptureOf(t)
      /\ IF Prepares(t) THEN at[Host] = "setup" /\ g_setup = "pending" ELSE g_running
  BY <1>1, <1>2, ThreadGoes
<1>4. UNCHANGED <<then, state, capture>>
  BY DEF Block
<1>5. CaptureOf(t)'
  BY <1>3, <1>4 DEF CaptureOf, Clean, Captured, capture
<1>6. CaptureFacts'
  BY <1>4, Facts DEF CaptureFacts, capture
<1>7. IF Prepares(t)' THEN at[Host] = "setup" /\ g_setup' = "pending" ELSE g_running'
  BY <1>3, <1>4 DEF Prepares, state
<1> QED
  BY <1>1, <1>2, <1>4, <1>5, <1>6, <1>7, Facts, ThreadKeeps DEF StateFacts, CaptureFacts, state

LEMMA UnblockKeeps == ASSUME RuntimeInv, NEW t \in Threads, Unblock(t) PROVE RuntimeInv'
<1>1. Go(t, "blocked", "serve")
  BY DEF Unblock
<1>2. "blocked" \in AliveSteps /\ "serve" \in AliveSteps
  BY DEF AliveSteps
<1>3. /\ at[t] = "blocked" /\ at'[t] = "serve" /\ CaptureOf(t)
      /\ IF Prepares(t) THEN at[Host] = "setup" /\ g_setup = "pending" ELSE g_running
  BY <1>1, <1>2, ThreadGoes
<1>4. UNCHANGED <<then, state, capture>>
  BY DEF Unblock
<1>5. CaptureOf(t)'
  BY <1>3, <1>4 DEF CaptureOf, Clean, Captured, capture
<1>6. CaptureFacts'
  BY <1>4, Facts DEF CaptureFacts, capture
<1>7. IF Prepares(t)' THEN at[Host] = "setup" /\ g_setup' = "pending" ELSE g_running'
  BY <1>3, <1>4 DEF Prepares, state
<1> QED
  BY <1>1, <1>2, <1>4, <1>5, <1>6, <1>7, Facts, ThreadKeeps DEF StateFacts, CaptureFacts, state

LEMMA LeaveLoopKeeps == ASSUME RuntimeInv, NEW t \in Threads, LeaveLoop(t) PROVE RuntimeInv'
<1>1. Go(t, "serve", "close")
  BY DEF LeaveLoop
<1>2. "serve" \in AliveSteps /\ "close" \in AliveSteps
  BY DEF AliveSteps
<1>3. /\ at[t] = "serve" /\ at'[t] = "close" /\ CaptureOf(t)
      /\ IF Prepares(t) THEN at[Host] = "setup" /\ g_setup = "pending" ELSE g_running
  BY <1>1, <1>2, ThreadGoes
<1>4. UNCHANGED <<then, state, capture>>
  BY DEF LeaveLoop
<1>5. CaptureOf(t)'
  BY <1>3, <1>4 DEF CaptureOf, Clean, Captured, capture
<1>6. CaptureFacts'
  BY <1>4, Facts DEF CaptureFacts, capture
<1>7. IF Prepares(t)' THEN at[Host] = "setup" /\ g_setup' = "pending" ELSE g_running'
  BY <1>3, <1>4 DEF Prepares, state
<1> QED
  BY <1>1, <1>2, <1>4, <1>5, <1>6, <1>7, Facts, ThreadKeeps DEF StateFacts, CaptureFacts, state

LEMMA ShutDownKeeps == ASSUME RuntimeInv, NEW t \in Threads, ShutDown(t) PROVE RuntimeInv'
<1>1. Go(t, "close", "take")
  BY DEF ShutDown
<1>2. "close" \in AliveSteps /\ "take" \in AliveSteps
  BY DEF AliveSteps
<1>3. /\ at[t] = "close" /\ at'[t] = "take" /\ CaptureOf(t)
      /\ IF Prepares(t) THEN at[Host] = "setup" /\ g_setup = "pending" ELSE g_running
  BY <1>1, <1>2, ThreadGoes
<1>4. /\ then' = [then EXCEPT ![t] = "end"] /\ shutdown' = FALSE
      /\ UNCHANGED <<fujinet_running, g_running, g_setup, g_runtime_thread, runtimeThread, capture>>
  BY DEF ShutDown
<1>5. CaptureOf(t)'
  BY <1>3, <1>4 DEF CaptureOf, Clean, Captured, capture
<1>6. CaptureFacts'
  BY <1>4, Facts DEF CaptureFacts, capture
<1>7. IF Prepares(t)' THEN at[Host] = "setup" /\ g_setup' = "pending" ELSE g_running'
  <2>1. then'[t] = "end"
    BY <1>4, Facts DEF StateFacts
  <2> QED
    BY <1>3, <1>4, <2>1 DEF Prepares
<1> QED
  BY <1>1, <1>2, <1>4, <1>5, <1>6, <1>7, Facts, ThreadKeeps DEF StateFacts, CaptureFacts, state
-----------------------------------------------------------------------------
(* The last step of a thread: what it captured has been undone. *)
LEMMA ThreadEnds ==
  ASSUME RuntimeInv, NEW t \in Threads, at[t] = "end", at' = [at EXCEPT ![t] = "gone"],
         UNCHANGED <<then, fujinet_running, g_runtime_thread, runtimeThread, shutdown, capture>>,
         g_running' = FALSE, g_setup' \in {"pending", "complete", "failed"}
  PROVE  RuntimeInv'
<1>1. t # Host /\ t \in Actors /\ Host \in Actors /\ at \in [Actors -> Steps]
  BY ThreadsAssumption DEF Actors, RuntimeInv
<1>2. t \in Alive
  BY DEF Alive
<1>3. \A u \in Threads \ {t} : at[u] = "gone"
  BY <1>2 DEF Alive, RuntimeInv, AtMostOne
<1>4. at' \in [Actors -> Steps] /\ at'[Host] = at[Host] /\ \A u \in Threads : at'[u] = "gone"
  <2>1. at'[t] = "gone" /\ \A u \in Actors \ {t} : at'[u] = at[u]
    BY <1>1
  <2>2. Threads \subseteq Actors /\ "gone" \in Steps
    BY DEF Actors, Steps
  <2> QED
    BY <1>1, <1>3, <2>1, <2>2
<1>5. Alive' = {}
  BY <1>4 DEF Alive
<1>6. Clean'
  <2>1. Clean
    BY <1>2 DEF RuntimeInv, CaptureOf
  <2> QED
    BY <2>1 DEF Clean, capture
<1>7. RuntimeTypeOK'
  BY <1>4 DEF RuntimeInv, RuntimeTypeOK, capture
<1>8. HostKnows' /\ AtMostOne' /\ (\A u \in Alive : CaptureOf(u))'
  BY <1>5 DEF HostKnows, AtMostOne
<1>9. taken'[Host] = Nothing
  BY DEF RuntimeInv, capture
<1> QED
  BY <1>4, <1>6, <1>7, <1>8, <1>9 DEF RuntimeInv

LEMMA LogEndsKeeps == ASSUME RuntimeInv, NEW p \in Threads, LogEnds(p) PROVE RuntimeInv'
<1>1. /\ p \in loggers /\ p \notin writable /\ stdout # p /\ loggers' = loggers \ {p}
      /\ UNCHANGED <<at, then, state, g_saved, g_pipe, g_log_thread, taken, stdout, writable>>
  BY DEF LogEnds
<1>2. Alive' = Alive
  BY <1>1 DEF Alive
<1>3. RuntimeTypeOK' /\ at' \in [Actors -> Steps] /\ taken'[Host] = Nothing
  BY <1>1 DEF RuntimeInv, RuntimeTypeOK, state
<1>4. HostKnows' /\ AtMostOne'
  BY <1>1, <1>2 DEF RuntimeInv, HostKnows, AtMostOne, Prepares, state
<1>5. ASSUME NEW t \in Alive
      PROVE  CaptureOf(t)'
  <2>1. ~Clean /\ ~Captured(t) /\ ~HasPipe(t)
    BY <1>1 DEF Clean, Captured, HasPipe
  <2>2. CaptureOf(t) /\ at[t] \in AliveSteps
    BY <1>5 DEF RuntimeInv, RuntimeTypeOK, Alive, AliveSteps
  <2>3. at[t] = "log" /\ HasTaken(t) /\ stdout = Real /\ writable = {} /\ loggers \subseteq {t}
    BY <1>1, <2>1, <2>2 DEF CaptureOf, AliveSteps
  <2> QED
    BY <1>1, <2>3 DEF CaptureOf, HasTaken
<1>6. Alive # {}
  BY <1>1 DEF RuntimeInv, Clean
<1> QED
  BY <1>2, <1>3, <1>4, <1>5, <1>6 DEF RuntimeInv

-----------------------------------------------------------------------------
(* A step of the host that leaves the threads and their capture alone. *)
LEMMA HostMoves ==
  ASSUME RuntimeInv, NEW to \in HostSteps, at' = [at EXCEPT ![Host] = to],
         UNCHANGED then
  PROVE  /\ at' \in [Actors -> Steps] /\ at'[Host] = to /\ Alive' = Alive
         /\ \A t \in Threads : at'[t] = at[t] /\ (Prepares(t)' <=> Prepares(t))
<1>1. Host \in Actors /\ Host \notin Threads /\ Threads \subseteq Actors /\ at \in [Actors -> Steps]
  BY ThreadsAssumption DEF Actors, RuntimeInv
<1>2. at'[Host] = to /\ \A t \in Threads : at'[t] = at[t]
  BY <1>1
<1>3. at' \in [Actors -> Steps]
  BY <1>1 DEF Steps
<1> QED
  BY <1>2, <1>3 DEF Alive, Prepares

LEMMA HostKeeps ==
  ASSUME RuntimeInv, NEW to \in HostSteps, at' = [at EXCEPT ![Host] = to], UNCHANGED then,
         {fujinet_running', g_running', shutdown'} \subseteq BOOLEAN,
         {g_runtime_thread', runtimeThread'} \subseteq Threads \cup {NoFd},
         UNCHANGED <<g_setup, capture>>,
         g_running' = g_running \/ Alive = {},
         to \in {"join", "take", "restore", "log", "clear"} => Alive = {},
         to = "setup" \/ at[Host] # "setup" \/ g_setup # "pending"
  PROVE  RuntimeInv'
<1>1. /\ at' \in [Actors -> Steps] /\ at'[Host] = to /\ Alive' = Alive
      /\ \A t \in Threads : at'[t] = at[t] /\ (Prepares(t)' <=> Prepares(t))
  BY HostMoves
<1>2. RuntimeTypeOK'
  BY <1>1 DEF RuntimeInv, RuntimeTypeOK, capture, HostSteps
<1>3. HostKnows'
  <2>1. ASSUME NEW t \in Alive
        PROVE  IF Prepares(t)' THEN at'[Host] = "setup" /\ g_setup' = "pending" ELSE g_running'
    BY <1>1, <2>1 DEF RuntimeInv, HostKnows, Alive
  <2> QED
    BY <1>1, <2>1 DEF HostKnows
<1>4. AtMostOne' /\ (Alive = {} => Clean)' /\ taken'[Host] = Nothing
  BY <1>1 DEF RuntimeInv, AtMostOne, Clean, capture
<1>5. ASSUME NEW t \in Alive
      PROVE  CaptureOf(t)'
  <2>1. at'[t] = at[t] /\ CaptureOf(t)
    BY <1>1 DEF RuntimeInv, Alive
  <2> QED
    BY <2>1 DEF CaptureOf, Clean, Captured, HasPipe, HasTaken, capture
<1> QED
  BY <1>1, <1>2, <1>3, <1>4, <1>5 DEF RuntimeInv

(* A call of the host that does not move it. *)
LEMMA HostStays ==
  ASSUME RuntimeInv, UNCHANGED at
  PROVE  /\ at' = [at EXCEPT ![Host] = at[Host]]
         /\ at[Host] \in HostSteps
         /\ at[Host] \in {"join", "take", "restore", "log", "clear"} => Alive = {}
BY ThreadsAssumption DEF RuntimeInv, RuntimeTypeOK, HostSteps, HostKnows, Actors

LEMMA StartKeeps == ASSUME RuntimeInv, NEW t \in Threads, StartRuntime(t) PROVE RuntimeInv'
<1>1. /\ at[Host] = "idle" /\ ~g_running /\ shutdown' = FALSE /\ g_setup' = "pending"
      /\ g_runtime_thread' = t
      /\ at' = [at EXCEPT ![Host] = "setup", ![t] = "take"]
      /\ then' = [then EXCEPT ![t] = "open"]
      /\ UNCHANGED <<fujinet_running, g_running, runtimeThread, capture>>
  BY DEF StartRuntime
<1>2. Alive = {}
  BY <1>1 DEF RuntimeInv, HostKnows
<1>3. /\ t # Host /\ t \in Actors /\ Host \in Actors /\ Threads \subseteq Actors
      /\ at \in [Actors -> Steps] /\ Host \notin Threads
  BY ThreadsAssumption DEF Actors, RuntimeInv
<1>4. /\ at'[Host] = "setup" /\ at'[t] = "take"
      /\ \A u \in Threads \ {t} : at'[u] = at[u]
  BY <1>1, <1>3
<1>5. \A u \in Threads : at[u] = "gone"
  BY <1>2 DEF Alive
<1>6. Alive' = {t}
  BY <1>4, <1>5 DEF Alive
<1>7. at' \in [Actors -> Steps]
  BY <1>1, <1>3 DEF Steps, HostSteps, AliveSteps
<1>8. then'[t] = "open" /\ then' \in [Threads -> {"open", "end", "fail"}]
  BY <1>1, Facts DEF StateFacts
<1>9. RuntimeTypeOK'
  BY <1>1, <1>4, <1>5, <1>8 DEF RuntimeInv, RuntimeTypeOK, capture
<1>10. HostKnows' /\ AtMostOne'
  BY <1>1, <1>4, <1>6, <1>8 DEF HostKnows, AtMostOne, Prepares
<1>11. Clean' /\ taken'[Host] = Nothing
  BY <1>1, <1>2 DEF RuntimeInv, Clean, capture
<1>12. \A u \in Alive' : CaptureOf(u)'
  BY <1>4, <1>6, <1>11 DEF CaptureOf, Clean
<1> QED
  BY <1>6, <1>7, <1>9, <1>10, <1>11, <1>12 DEF RuntimeInv

LEMMA CallsKeep == ASSUME RuntimeInv, Calls PROVE RuntimeInv'
<1>1. CASE StartRunning
  <2>1. /\ UNCHANGED <<at, then, g_running, g_setup, g_runtime_thread, runtimeThread, shutdown, capture>>
        /\ fujinet_running' = TRUE /\ at[Host] = "idle"
    BY <1>1 DEF StartRunning
  <2> QED
    BY <2>1, HostStays, HostKeeps DEF RuntimeInv, RuntimeTypeOK
<1>2. CASE StopNothing
  <2>1. /\ UNCHANGED <<at, then, g_running, g_setup, g_runtime_thread, runtimeThread, shutdown, capture>>
        /\ fujinet_running' = FALSE /\ at[Host] = "idle"
    BY <1>2 DEF StopNothing
  <2> QED
    BY <2>1, HostStays, HostKeeps DEF RuntimeInv, RuntimeTypeOK
<1>3. CASE StopRuntime
  <2>1. /\ at[Host] = "idle" /\ at' = [at EXCEPT ![Host] = "stop"]
        /\ fujinet_running' = FALSE /\ shutdown' = TRUE
        /\ runtimeThread' = g_runtime_thread /\ g_runtime_thread' = NoFd
        /\ UNCHANGED <<then, g_running, g_setup, capture>>
    BY <1>3 DEF StopRuntime, Go
  <2>2. "stop" \in HostSteps
    BY DEF HostSteps
  <2> QED
    BY <2>1, <2>2, HostKeeps DEF RuntimeInv, RuntimeTypeOK
<1> QED
  BY <1>1, <1>2, <1>3, StartKeeps DEF Calls

LEMMA HostStopsCapture ==
  ASSUME RuntimeInv, StopLogCapture(Host, "clear")
  PROVE  RuntimeInv'
<1>1. PICK from \in {"take", "restore", "log"}, to \in {"restore", "log", "clear"} : Go(Host, from, to)
  BY DEF StopLogCapture, Take, Restore, JoinLog
<1>2. at[Host] = from /\ at' = [at EXCEPT ![Host] = to] /\ to \in HostSteps
  BY <1>1 DEF Go, HostSteps
<1>3. Alive = {} /\ Clean /\ taken[Host] = Nothing
  BY <1>2 DEF RuntimeInv, HostKnows
<1>4. UNCHANGED <<then, state>>
  BY DEF StopLogCapture, Take, Restore, JoinLog
<1>5. UNCHANGED capture
  <2>1. taken = [taken EXCEPT ![Host] = Nothing]
    BY <1>3, Facts DEF CaptureFacts
  <2>2. writable \ {taken[Host].pipe} = writable /\ taken[Host].saved = NoFd
    BY <1>3 DEF Clean, Nothing
  <2>3. CASE Take(Host, "restore")
    BY <1>3, <2>1, <2>3 DEF Take, Clean, Nothing, capture
  <2>4. CASE Restore(Host, "log")
    BY <2>2, <2>4 DEF Restore, capture
  <2>5. CASE JoinLog(Host, "clear")
    BY <2>1, <2>5 DEF JoinLog, capture
  <2> QED
    BY <2>3, <2>4, <2>5 DEF StopLogCapture
<1> QED
  BY <1>2, <1>3, <1>4, <1>5, HostKeeps DEF RuntimeInv, RuntimeTypeOK, state

LEMMA WaitsKeep == ASSUME RuntimeInv, Waits PROVE RuntimeInv'
<1>h. {"idle", "join", "take"} \subseteq HostSteps
  BY DEF HostSteps
<1>1. CASE Started
  <2>1. /\ at[Host] = "setup" /\ at' = [at EXCEPT ![Host] = "idle"] /\ g_setup = "complete"
        /\ fujinet_running' = TRUE
        /\ UNCHANGED <<then, g_running, g_setup, g_runtime_thread, runtimeThread, shutdown, capture>>
    BY <1>1 DEF Started, Go
  <2> QED
    BY <1>h, <2>1, HostKeeps DEF RuntimeInv, RuntimeTypeOK
<1>2. CASE StartFailed
  <2>1. /\ at[Host] = "setup" /\ at' = [at EXCEPT ![Host] = "idle"] /\ g_setup = "failed"
        /\ g_runtime_thread' = NoFd
        /\ UNCHANGED <<then, fujinet_running, g_running, g_setup, runtimeThread, shutdown, capture>>
    BY <1>2 DEF StartFailed, Go
  <2> QED
    BY <1>h, <2>1, HostKeeps DEF RuntimeInv, RuntimeTypeOK
<1>3. CASE Stopped
  <2>1. /\ at[Host] = "stop" /\ at' = [at EXCEPT ![Host] = "join"] /\ ~g_running
        /\ UNCHANGED <<then, state, capture>>
    BY <1>3 DEF Stopped, Go
  <2>2. Alive = {}
    BY <2>1 DEF RuntimeInv, HostKnows
  <2> QED
    BY <1>h, <2>1, <2>2, HostKeeps DEF RuntimeInv, RuntimeTypeOK, state
<1>4. CASE Detach
  <2>1. /\ at[Host] = "stop" /\ at' = [at EXCEPT ![Host] = "idle"] /\ runtimeThread' = NoFd
        /\ UNCHANGED <<then, fujinet_running, g_running, g_setup, g_runtime_thread, shutdown, capture>>
    BY <1>4 DEF Detach, Go
  <2> QED
    BY <1>h, <2>1, HostKeeps DEF RuntimeInv, RuntimeTypeOK
<1>5. CASE Join
  <2>1. /\ at[Host] = "join" /\ at' = [at EXCEPT ![Host] = "take"]
        /\ UNCHANGED <<then, state, capture>>
    BY <1>5 DEF Join, Go
  <2>2. Alive = {}
    BY <2>1 DEF RuntimeInv, HostKnows
  <2> QED
    BY <1>h, <2>1, <2>2, HostKeeps DEF RuntimeInv, RuntimeTypeOK, state
<1>6. CASE Clear
  <2>1. /\ at[Host] = "clear" /\ at' = [at EXCEPT ![Host] = "idle"]
        /\ shutdown' = FALSE /\ g_running' = FALSE /\ runtimeThread' = NoFd
        /\ UNCHANGED <<then, fujinet_running, g_setup, g_runtime_thread, capture>>
    BY <1>6 DEF Clear, Go
  <2>2. Alive = {}
    BY <2>1 DEF RuntimeInv, HostKnows
  <2> QED
    BY <1>h, <2>1, <2>2, HostKeeps DEF RuntimeInv, RuntimeTypeOK
<1> QED
  BY <1>1, <1>2, <1>3, <1>4, <1>5, <1>6, HostStopsCapture DEF Waits

-----------------------------------------------------------------------------
LEMMA RuntimeInitInv == RuntimeInit => RuntimeInv
<1> SUFFICES ASSUME RuntimeInit
             PROVE  RuntimeInv
  OBVIOUS
<1>1. Host \in Actors /\ Threads \subseteq Actors /\ Host \notin Threads
  BY ThreadsAssumption DEF Actors
<1>2. at[Host] = "idle" /\ \A t \in Threads : at[t] = "gone"
  BY <1>1 DEF RuntimeInit
<1>3. Alive = {}
  BY <1>2 DEF Alive
<1>4. at \in [Actors -> Steps]
  BY DEF RuntimeInit, Steps, HostSteps
<1>5. taken \in [Actors -> [saved : Fds, pipe : Fds, thread : Fds]] /\ taken[Host] = Nothing
  BY <1>1 DEF RuntimeInit, Nothing, Fds
<1>6. RuntimeTypeOK
  BY <1>2, <1>5 DEF RuntimeInit, RuntimeTypeOK, Fds
<1>7. HostKnows /\ AtMostOne
  BY <1>3 DEF HostKnows, AtMostOne
<1>8. Clean
  BY DEF RuntimeInit, Clean
<1> QED
  BY <1>3, <1>4, <1>5, <1>6, <1>7, <1>8 DEF RuntimeInv

LEMMA OrderlyKeeps == RuntimeInv /\ [Orderly]_runtimeVars => RuntimeInv'
<1> SUFFICES ASSUME RuntimeInv, [Orderly]_runtimeVars
             PROVE  RuntimeInv'
  OBVIOUS
<1>1. CASE UNCHANGED runtimeVars
  BY <1>1 DEF runtimeVars, state, capture, RuntimeInv, RuntimeTypeOK, HostKnows, AtMostOne,
     Alive, Prepares, CaptureOf, Clean, Captured, HasPipe, HasTaken
<1>2. ASSUME NEW t \in Threads, Runs(t)
      PROVE  RuntimeInv'
  <2>1. CASE Captures(t)
    BY <2>1, ThreadTakes, ThreadRestores, ThreadJoinsLog, PipeOpens, PipeIsRefused,
       StreamsAreRedirected, LogSpawns DEF Captures, StopLogCapture
  <2>2. CASE Failed(t)
    BY <2>2, ThreadEnds DEF Failed
  <2>3. CASE Ended(t)
    BY <2>3, ThreadEnds DEF Ended, RuntimeInv, RuntimeTypeOK
  <2> QED
    BY <1>2, <2>1, <2>2, <2>3, SetUpKeeps, FailKeeps, LeaveLoopKeeps, ShutDownKeeps DEF Runs
<1> QED
  BY <1>1, <1>2, CallsKeep, WaitsKeep, BlockKeeps, UnblockKeeps, LogEndsKeeps DEF Orderly

LEMMA RuntimeInvariance == OrderlySpec => []RuntimeInv
<1> QED
  BY RuntimeInitInv, OrderlyKeeps, PTL DEF OrderlySpec

(* The host's, the runtime's and the capture's variables keep their types. *)
THEOREM RuntimeTypesOK == OrderlySpec => []RuntimeTypeOK
<1>1. RuntimeInv => RuntimeTypeOK
  BY DEF RuntimeInv
<1> QED
  BY RuntimeInvariance, <1>1, PTL

(* A start does not put a second runtime on top of one that a stop let be, so *)
(* long as the host stops no runtime it no longer has.                        *)
THEOREM RuntimeIsAlone == OrderlySpec => []OneRuntime
<1>1. RuntimeInv => OneRuntime
  <2> SUFFICES ASSUME RuntimeInv
               PROVE  Cardinality(Alive) <= 1
    BY DEF OneRuntime
  <2>1. CASE Alive = {}
    BY <2>1, FS_EmptySet
  <2>2. CASE Alive # {}
    <3>1. PICK t \in Alive : TRUE
      BY <2>2
    <3>2. Alive = {t}
      BY <3>1 DEF RuntimeInv, AtMostOne
    <3>3. Cardinality({t}) = 1
      BY FS_Singleton
    <3> QED
      BY <3>2, <3>3
  <2> QED
    BY <2>1, <2>2
<1> QED
  BY RuntimeInvariance, <1>1, PTL

(* The streams lead to the log of the runtime that serves, and are back where *)
(* they were, with the pipe and its reader gone, when there is none: however  *)
(* many threads runtimes are started on, whichever fail, are let be or get no *)
(* pipe.                                                                      *)
THEOREM CaptureIsUndone == OrderlySpec => []CaptureFollows
<1>1. RuntimeInv => CaptureFollows
  <2> SUFFICES ASSUME RuntimeInv
               PROVE  CaptureFollows
    OBVIOUS
  <2>1. ASSUME NEW t \in Threads, at[t] \in {"serve", "blocked"}, g_pipe # NoFd
        PROVE  stdout = t /\ g_pipe = t /\ g_saved = Real /\ t \in loggers /\ g_log_thread = t
    <3>1. t \in Alive
      BY <2>1 DEF Alive
    <3>2. Captured(t)
      BY <2>1, <3>1 DEF RuntimeInv, CaptureOf, Clean
    <3> QED
      BY <3>2 DEF Captured
  <2>2. Alive = {} => Clean
    BY DEF RuntimeInv
  <2> QED
    BY <2>1, <2>2 DEF CaptureFollows, Clean
<1> QED
  BY RuntimeInvariance, <1>1, PTL

-----------------------------------------------------------------------------
(* The cartridge. *)

(* The selects that the window's image has are of that image, and a mailbox *)
(* that is live is not banked away.                                        *)
ServingIsPlanned ==
  /\ started =>
       /\ window \in Images
       /\ hot => image = window
       /\ app_npages # 0 => image = window /\ app_npages = Pages[window]
       /\ mailbox_live => ~hot
  /\ ~started =>
       /\ ~hot /\ app_npages = 0 /\ ~mailbox_live
       /\ \A h \in Halves : bank[h] = InWindow(h)

(* The mailbox is live for as long as a transaction runs. *)
BusyIsLive == busy => started /\ mailbox_live

(* What waits can be served, and has the mailbox's registers if it claims   *)
(* them, its own bytes otherwise.                                          *)
StagingIsReady ==
  /\ swap_armed => have_staged
  /\ have_staged =>
       /\ started
       /\ staged \in Images
       /\ staged_image = IF Kind[staged] = "flat" THEN NoImage ELSE staged
       /\ ~Claims[staged] => staged_regs = Own

(* The first n chunks of an image, as they arrive. *)
ChunksUpTo(i, n) == [k \in 1..n |-> [of |-> i, n |-> k]]

(* A stream under way has received what was sent of it and nothing else. *)
BufferIsPushed ==
  \A s \in Streams :
    \/ pushing[s] = NotPushing
    \/ pushing[s].of \in Images /\ rx[s] = ChunksUpTo(pushing[s].of, pushing[s].n)

IInv ==
  /\ CartTypeOK
  /\ ServingIsPlanned /\ BusyIsLive /\ StagingIsReady /\ BufferIsPushed
  /\ OneImageServed /\ PublishedIsVisible

USE DEF serving, staging, mail, cartVars

-----------------------------------------------------------------------------
(* The pieces. *)

LEMMA TypeFacts ==
  ASSUME CartAssumptions
  PROVE  /\ Own \in [Regs -> Values] /\ 0 \in 0..Chunks /\ Chunks \in Nat
         /\ NotPushing \in [of : Images \cup {NoImage}, n : 0..Chunks]
         /\ \A n \in 0..Chunks : n < Chunks => n + 1 \in 0..Chunks /\ n + 1 \in 1..Chunks
         /\ \A k \in Nat : InWindow(k) \in Source /\ InImage(k) \in Source
BY DEF CartAssumptions, Own, Regs, Values, NotPushing, InWindow, InImage, Source

(* What is published is a register's value. *)
LEMMA PokeType ==
  ASSUME CartTypeOK, NEW r \in Regs, NEW v \in Values, CartPoke(r, v)
  PROVE  regs' \in [Regs -> Values] /\ staged_regs' \in [Regs -> Values]
BY DEF CartTypeOK, CartPoke

LEMMA ServingType ==
  ASSUME CartAssumptions, NEW i \in Images, ApplyServing(i)
  PROVE  bank' \in [Halves -> Source] /\ hot' \in BOOLEAN /\ app_npages' \in Nat
<1>1. /\ \A h \in Halves : h \in Nat
      /\ Pages[i] \in Nat
  BY DEF Halves, CartAssumptions
<1>2. bank' \in [Halves -> Source]
  <2>1. CASE Kind[i] = "app"
    BY <1>1, <2>1, TypeFacts DEF ApplyServing
  <2>2. CASE Kind[i] = "game"
    BY <1>1, <2>2, TypeFacts DEF ApplyServing
  <2>3. CASE Kind[i] \notin {"app", "game"}
    BY <1>1, <2>3, TypeFacts DEF ApplyServing
  <2> QED BY <2>1, <2>2, <2>3
<1> QED BY <1>1, <1>2 DEF ApplyServing

(* A buffer that is pushed whole is of the image pushed. *)
LEMMA PlannedFacts ==
  ASSUME CartAssumptions, CartTypeOK, BufferIsPushed, pushing[0].n = Chunks
  PROVE  Planned \in Images /\ Planned = pushing[0].of /\ rx[0] = Whole(Planned)
<1>1. 0 \in Streams /\ 1 \in 1..Chunks /\ pushing[0] # NotPushing
  BY DEF Streams, CartAssumptions, NotPushing
<1>2. pushing[0].of \in Images /\ rx[0] = ChunksUpTo(pushing[0].of, Chunks)
  BY <1>1 DEF BufferIsPushed
<1>3. Planned = pushing[0].of
  BY <1>1, <1>2 DEF Planned, ChunksUpTo
<1> QED BY <1>2, <1>3 DEF ChunksUpTo, Whole

-----------------------------------------------------------------------------
(* The invariant at the start. *)
LEMMA InitInv == ASSUME CartAssumptions, CartInit PROVE IInv
<1>1. CartTypeOK
  <2>1. <<>> \in Seq(Chunk)
    OBVIOUS
  <2>2. bank \in [Halves -> Source]
    BY DEF CartInit, Halves, Source, InWindow
  <2>3. pushing \in [Streams -> [of : Images \cup {NoImage}, n : 0..Chunks]]
    BY TypeFacts DEF CartInit
  <2> QED BY <2>1, <2>2, <2>3, TypeFacts DEF CartInit, CartTypeOK
<1> QED
  BY <1>1 DEF CartInit, IInv, ServingIsPlanned, BusyIsLive, StagingIsReady, BufferIsPushed,
              OneImageServed, PublishedIsVisible

-----------------------------------------------------------------------------
(* Types. *)
LEMMA StepTypeOK ==
  ASSUME CartAssumptions, CartTypeOK, ServingIsPlanned, StagingIsReady, BufferIsPushed, [CartNext]_cartVars
  PROVE  CartTypeOK'
<1> USE TypeFacts
<1>1. ASSUME NEW i \in Images, CartStart(i) PROVE CartTypeOK'
  <2>1. /\ bank' \in [Halves -> Source] /\ hot' \in BOOLEAN /\ app_npages' \in Nat
        /\ image' \in Images \cup {NoImage} /\ mailbox_live' \in BOOLEAN
    BY <1>1, ServingType DEF CartStart, CartTypeOK, CartAssumptions
  <2>2. regs' \in [Regs -> Values]
    BY <1>1 DEF CartStart, Regs, Values
  <2> QED BY <1>1, <2>1, <2>2 DEF CartStart, CartTypeOK
<1>2. CASE CartStop
  <2>1. <<>> \in Seq(Chunk)
    OBVIOUS
  <2>2. bank' \in [Halves -> Source]
    BY <1>2 DEF CartStop, Halves, Source, InWindow
  <2> QED BY <1>2, <2>1, <2>2 DEF CartStop, CartTypeOK
<1>3. CASE Transact
  BY <1>3 DEF Transact, CartTypeOK
<1>4. ASSUME NEW v \in {"up", "down"}, TransactDone(v) PROVE CartTypeOK'
  <2>1. regs' \in [Regs -> Values] /\ staged_regs' \in [Regs -> Values]
    BY <1>4, PokeType DEF TransactDone, Regs, Values
  <2>2. pushing' \in [Streams -> [of : Images \cup {NoImage}, n : 0..Chunks]]
    BY <1>4 DEF TransactDone, CartTypeOK
  <2> QED BY <1>4, <2>1, <2>2 DEF TransactDone, CartTypeOK
<1>5. ASSUME NEW s \in Streams, NEW i \in Images, StreamOpen(s, i) PROVE CartTypeOK'
  <2>1. regs' \in [Regs -> Values] /\ staged_regs' \in [Regs -> Values]
    BY <1>5, PokeType DEF StreamOpen, Regs, Values, CartTypeOK
  <2>2. rx' \in [Streams -> Seq(Chunk)]
    BY <1>5 DEF StreamOpen, CartTypeOK
  <2>3. pushing' \in [Streams -> [of : Images \cup {NoImage}, n : 0..Chunks]]
    BY <1>5 DEF StreamOpen, CartTypeOK
  <2> QED BY <1>5, <2>1, <2>2, <2>3 DEF StreamOpen, CartTypeOK
<1>6. ASSUME NEW s \in Streams, StreamWrite(s) PROVE CartTypeOK'
  <2>1. NextChunk(s) \in Chunk
    BY <1>6 DEF StreamWrite, NextChunk, Chunk, CartTypeOK
  <2>2. rx' \in [Streams -> Seq(Chunk)]
    BY <1>6, <2>1 DEF StreamWrite, CartTypeOK
  <2>3. pushing' \in [Streams -> [of : Images \cup {NoImage}, n : 0..Chunks]]
    BY <1>6 DEF StreamWrite, ChunkSent, CartTypeOK
  <2> QED BY <1>6, <2>2, <2>3 DEF StreamWrite, CartTypeOK
<1>7. ASSUME NEW s \in Streams, NEW aborted \in BOOLEAN, StreamDropped(s, aborted) PROVE CartTypeOK'
  <2>1. regs' \in [Regs -> Values] /\ staged_regs' \in [Regs -> Values]
    BY <1>7, PokeType DEF StreamDropped, Regs, Values, CartTypeOK
  <2>2. rx' \in [Streams -> Seq(Chunk)]
    BY <1>7 DEF StreamDropped, CartTypeOK
  <2>3. pushing' \in [Streams -> [of : Images \cup {NoImage}, n : 0..Chunks]]
    BY <1>7 DEF StreamDropped, CartTypeOK
  <2> QED BY <1>7, <2>1, <2>2, <2>3 DEF StreamDropped, CartTypeOK
<1>8. CASE StreamRefused
  <2>1. regs' \in [Regs -> Values] /\ staged_regs' \in [Regs -> Values]
    BY <1>8, PokeType DEF StreamRefused, Regs, Values
  <2> QED BY <1>8, <2>1 DEF StreamRefused, CartTypeOK
<1>9. CASE StreamUnmapped
  <2>1. regs' \in [Regs -> Values] /\ staged_regs' \in [Regs -> Values]
    BY <1>9, PokeType DEF StreamUnmapped, Regs, Values
  <2>2. /\ rx' \in [Streams -> Seq(Chunk)]
        /\ pushing' \in [Streams -> [of : Images \cup {NoImage}, n : 0..Chunks]]
    BY <1>9 DEF StreamUnmapped, CartTypeOK, Streams
  <2> QED BY <1>9, <2>1, <2>2 DEF StreamUnmapped, CartTypeOK
<1>10. CASE StreamStaged
  <2>1. Planned \in Images
    BY <1>10, PlannedFacts DEF StreamStaged
  <2>2. regs' \in [Regs -> Values] /\ staged_regs' \in [Regs -> Values]
    BY <1>10 DEF StreamStaged, CartTypeOK, Regs, Values, Own
  <2>3. /\ rx' \in [Streams -> Seq(Chunk)]
        /\ pushing' \in [Streams -> [of : Images \cup {NoImage}, n : 0..Chunks]]
    BY <1>10 DEF StreamStaged, CartTypeOK, Streams
  <2> QED BY <1>10, <2>1, <2>2, <2>3 DEF StreamStaged, CartTypeOK
<1>11. CASE ArmSwap
  BY <1>11 DEF ArmSwap, CartTypeOK
<1>12. CASE DoSwap
  <2>1. /\ bank' \in [Halves -> Source] /\ hot' \in BOOLEAN /\ app_npages' \in Nat
        /\ mailbox_live' \in BOOLEAN
    BY <1>12, ServingType DEF DoSwap, StagingIsReady, CartAssumptions
  <2>2. Painted \in [Regs -> Values]
    BY DEF Painted, Regs, Values, CartTypeOK
  <2> QED BY <1>12, <2>1, <2>2 DEF DoSwap, CartTypeOK
<1>13. ASSUME NEW page \in Nat, BankSelect(page) \/ BankHot(page) PROVE CartTypeOK'
  BY <1>13 DEF BankSelect, BankHot, CartTypeOK
<1>14. CASE UNCHANGED cartVars
  BY <1>14 DEF CartTypeOK
<1>15. \A i \in Images : \A page \in 0..(Pages[i] - 1) : page \in Nat
  BY DEF CartAssumptions
<1> QED
  BY <1>1, <1>2, <1>3, <1>4, <1>5, <1>6, <1>7, <1>8, <1>9, <1>10, <1>11, <1>12, <1>13, <1>14,
     <1>15 DEF CartNext, Link, Bus

-----------------------------------------------------------------------------
(* What is served. *)

(* An image that starts or is swapped in is served whole, from its front. *)
LEMMA ServedFromFront ==
  ASSUME CartAssumptions, NEW i \in Images, ApplyServing(i), window' = i, started',
         image' = IF Kind[i] = "flat" THEN NoImage ELSE i, mailbox_live' = Claims[i]
  PROVE  ServingIsPlanned' /\ OneImageServed' /\ (mailbox_live' => bank'[1] = InWindow(1))
<1>1. Kind[i] = "app" => Kind[i] # "game" /\ Kind[i] # "flat"
  OBVIOUS
<1>2. Kind[i] = "game" => Kind[i] # "flat" /\ ~Claims[i]
  BY DEF CartAssumptions
<1>3. Pages[i] \in Nat \ {0, 1}
  BY DEF CartAssumptions
<1>4. CASE Kind[i] = "app"
  <2>1. bank' = [h \in Halves |-> IF h = 0 THEN InImage(0) ELSE InWindow(1)]
    BY <1>4 DEF ApplyServing
  <2>2. OneImageServed'
    BY <1>1, <1>3, <1>4, <2>1 DEF OneImageServed, InImage, InWindow, Halves
  <2>3. ~hot' /\ app_npages' = Pages[i] /\ image' = window'
    BY <1>1, <1>4 DEF ApplyServing
  <2>4. bank'[1] = InWindow(1)
    BY <2>1 DEF Halves
  <2>5. ServingIsPlanned'
    BY <2>3 DEF ServingIsPlanned
  <2> QED BY <2>2, <2>4, <2>5
<1>5. CASE Kind[i] = "game"
  <2>1. bank' = [h \in Halves |-> InImage(h)]
    BY <1>1, <1>5 DEF ApplyServing
  <2>2. OneImageServed'
    BY <1>2, <1>3, <1>5, <2>1 DEF OneImageServed, InImage, InWindow, Halves
  <2> QED BY <1>1, <1>2, <1>5, <2>1, <2>2 DEF ServingIsPlanned, ApplyServing
<1>6. CASE Kind[i] \notin {"app", "game"}
  <2>1. bank' = [h \in Halves |-> InWindow(h)]
    BY <1>6 DEF ApplyServing
  <2>2. OneImageServed'
    BY <2>1 DEF OneImageServed, InWindow, Halves
  <2> QED BY <1>6, <2>1, <2>2 DEF ServingIsPlanned, ApplyServing, Halves
<1> QED BY <1>4, <1>5, <1>6

(* Most steps leave alone what is served. *)
LEMMA ServingStutter ==
  ASSUME ServingIsPlanned, OneImageServed, UNCHANGED <<started, serving>>
  PROVE  ServingIsPlanned' /\ OneImageServed'
BY DEF ServingIsPlanned, OneImageServed

LEMMA StepServing ==
  ASSUME CartAssumptions, IInv, [CartNext]_cartVars
  PROVE  ServingIsPlanned' /\ OneImageServed'
<1>1. ASSUME NEW i \in Images, CartStart(i) PROVE ServingIsPlanned' /\ OneImageServed'
  <2>1. CASE Kind[i] = "nomap"
    <3>1. /\ started' /\ window' = i /\ ~mailbox_live' /\ bank' = bank
          /\ ~hot' /\ app_npages' = 0 /\ ~started
      BY <1>1, <2>1 DEF CartStart, IInv, ServingIsPlanned
    <3>2. \A h \in Halves : bank[h] = InWindow(h)
      BY <1>1 DEF CartStart, IInv, ServingIsPlanned
    <3> QED BY <1>1, <3>1, <3>2 DEF ServingIsPlanned, OneImageServed, InWindow, Halves
  <2>2. CASE Kind[i] # "nomap"
    BY <1>1, <2>2, ServedFromFront DEF CartStart
  <2> QED BY <2>1, <2>2
<1>2. CASE CartStop
  BY <1>2 DEF CartStop, ServingIsPlanned, OneImageServed
<1>3. CASE DoSwap
  BY <1>3, ServedFromFront DEF DoSwap, IInv, StagingIsReady
<1>4. ASSUME NEW i \in Images, NEW page \in 0..(Pages[i] - 1), BankSelect(page)
      PROVE  ServingIsPlanned' /\ OneImageServed'
  <2>1. /\ app_npages # 0 /\ page \in Nat /\ page < app_npages
    BY <1>4 DEF BankSelect, IInv, CartTypeOK, CartAssumptions
  <2>2. started /\ image = window /\ app_npages = Pages[window]
    BY <2>1, <1>4 DEF BankSelect, IInv, ServingIsPlanned
  <2>3. \A h \in Halves : bank'[h] = IF h = 0 THEN InImage(page) ELSE bank[h]
    BY <1>4 DEF BankSelect, IInv, CartTypeOK, Halves
  <2>4. ASSUME NEW h \in Halves
        PROVE  \/ bank'[h] = InWindow(h)
               \/ bank'[h].src = "image" /\ image = window /\ bank'[h].page < Pages[window]
    <3>1. CASE h = 0
      BY <2>1, <2>2, <2>3, <3>1 DEF InImage
    <3>2. CASE h # 0
      BY <2>2, <2>3, <3>2 DEF IInv, OneImageServed
    <3> QED BY <3>1, <3>2
  <2>5. OneImageServed'
    BY <1>4, <2>4 DEF BankSelect, OneImageServed
  <2> QED BY <1>4, <2>2, <2>3, <2>5 DEF BankSelect, IInv, ServingIsPlanned
<1>5. ASSUME NEW i \in Images, NEW page \in 0..(Pages[i] - 1), BankHot(page)
      PROVE  ServingIsPlanned' /\ OneImageServed'
  <2>1. started /\ image = window /\ page < Pages[window]
    BY <1>5 DEF BankHot, IInv, ServingIsPlanned
  <2>2. \A h \in Halves : bank'[h] = IF h = 1 THEN InImage(page) ELSE bank[h]
    BY <1>5 DEF BankHot, IInv, CartTypeOK, Halves
  <2>3. ASSUME NEW h \in Halves
        PROVE  \/ bank'[h] = InWindow(h)
               \/ bank'[h].src = "image" /\ image = window /\ bank'[h].page < Pages[window]
    <3>1. CASE h = 1
      BY <2>1, <2>2, <3>1 DEF InImage
    <3>2. CASE h # 1
      BY <2>1, <2>2, <3>2 DEF IInv, OneImageServed
    <3> QED BY <3>1, <3>2
  <2>4. OneImageServed'
    BY <1>5, <2>3 DEF BankHot, OneImageServed
  <2> QED BY <1>5, <2>1, <2>4 DEF BankHot, IInv, ServingIsPlanned
<1>6. CASE Link \/ Transact \/ UNCHANGED cartVars
  <2>1. UNCHANGED <<started, serving>>
    BY <1>6 DEF Link, Transact, TransactDone, StreamOpen, StreamWrite, StreamDropped,
                StreamRefused, StreamUnmapped, StreamStaged, ArmSwap
  <2> QED BY <2>1, ServingStutter DEF IInv
<1> QED BY <1>1, <1>2, <1>3, <1>4, <1>5, <1>6 DEF CartNext, Bus

-----------------------------------------------------------------------------
(* The mailbox: what fujimail published, and the registers that are staged.  *)

MailInv == BusyIsLive /\ StagingIsReady /\ PublishedIsVisible

(* A register is published while the mailbox is live: the console sees it,   *)
(* and so will the image that waits, if it claims the mailbox.              *)
LEMMA PokeIsVisible ==
  ASSUME IInv, busy, NEW r \in Regs, NEW v \in Values, CartPoke(r, v),
         UNCHANGED <<started, serving, staging>>,
         Painted' = [Painted EXCEPT ![r] = v]
  PROVE  StagingIsReady' /\ PublishedIsVisible'
<1>1. started /\ mailbox_live /\ regs = Painted /\ bank[1] = InWindow(1)
  BY DEF IInv, BusyIsLive, PublishedIsVisible
<1>2. regs' = Painted'
  BY <1>1 DEF CartPoke
<1>3. PublishedIsVisible'
  BY <1>1, <1>2 DEF PublishedIsVisible
<1>4. have_staged /\ ~Claims[staged] => staged_regs' = staged_regs
  BY DEF CartPoke
<1> QED BY <1>3, <1>4 DEF IInv, StagingIsReady

LEMMA PaintedFollows ==
  ASSUME CartTypeOK
  PROVE  /\ status' = status => Painted' = [Painted EXCEPT !["boot"] = boot']
         /\ boot' = boot => Painted' = [Painted EXCEPT !["status"] = status']
BY DEF Painted, Regs, CartTypeOK

LEMMA StepMail == ASSUME CartAssumptions, IInv, ServingIsPlanned', [CartNext]_cartVars PROVE MailInv'
<1> USE DEF MailInv
<1> USE DEF Regs, Values
<1>1. ASSUME NEW i \in Images, CartStart(i) PROVE MailInv'
  <2>1. ~have_staged /\ ~busy /\ ~swap_armed
    BY <1>1 DEF CartStart, IInv, StagingIsReady, BusyIsLive
  <2>2. BusyIsLive' /\ StagingIsReady'
    BY <1>1, <2>1 DEF CartStart, BusyIsLive, StagingIsReady
  <2>3. mailbox_live' => bank'[1] = InWindow(1)
    BY <1>1, ServedFromFront DEF CartStart
  <2>4. boot' = "idle" /\ status' = "down"
    BY <1>1 DEF CartStart
  <2>5. mailbox_live' => regs' = Painted'
    BY <1>1, <2>4 DEF CartStart, Painted
  <2>6. ~mailbox_live' => regs' = Own
    BY <1>1 DEF CartStart
  <2> QED BY <2>2, <2>3, <2>5, <2>6 DEF PublishedIsVisible
<1>2. CASE CartStop
  BY <1>2 DEF CartStop, BusyIsLive, StagingIsReady, PublishedIsVisible
<1>3. CASE Transact
  BY <1>3 DEF Transact, IInv, BusyIsLive, StagingIsReady, PublishedIsVisible, Painted
<1>4. ASSUME NEW v \in {"up", "down"}, TransactDone(v) PROVE MailInv'
  <2>1. Painted' = [Painted EXCEPT !["status"] = v]
    BY <1>4, PaintedFollows DEF TransactDone, IInv
  <2> QED BY <1>4, <2>1, PokeIsVisible DEF TransactDone, BusyIsLive
<1>5. ASSUME NEW s \in Streams, NEW i \in Images, StreamOpen(s, i) PROVE MailInv'
  <2>1. BusyIsLive'
    BY <1>5 DEF StreamOpen, IInv, BusyIsLive
  <2>2. CASE boot' = "xfer" /\ CartPoke("boot", "xfer")
    <3>1. Painted' = [Painted EXCEPT !["boot"] = "xfer"]
      BY <1>5, <2>2, PaintedFollows DEF StreamOpen, IInv
    <3> QED BY <1>5, <2>1, <2>2, <3>1, PokeIsVisible DEF StreamOpen
  <2>3. CASE UNCHANGED <<boot, regs, staged_regs>>
    BY <1>5, <2>1, <2>3 DEF StreamOpen, IInv, StagingIsReady, PublishedIsVisible, Painted
  <2> QED BY <1>5, <2>2, <2>3 DEF StreamOpen
<1>6. ASSUME NEW s \in Streams, StreamWrite(s) PROVE MailInv'
  BY <1>6 DEF StreamWrite, IInv, BusyIsLive, StagingIsReady, PublishedIsVisible, Painted
<1>7. ASSUME NEW s \in Streams, NEW aborted \in BOOLEAN, StreamDropped(s, aborted) PROVE MailInv'
  <2>1. BusyIsLive'
    BY <1>7 DEF StreamDropped, IInv, BusyIsLive
  <2>2. CASE boot' = "failed" /\ CartPoke("boot", "failed")
    <3>1. Painted' = [Painted EXCEPT !["boot"] = "failed"]
      BY <1>7, <2>2, PaintedFollows DEF StreamDropped, IInv
    <3> QED BY <1>7, <2>1, <2>2, <3>1, PokeIsVisible DEF StreamDropped
  <2>3. CASE UNCHANGED <<boot, regs, staged_regs>>
    BY <1>7, <2>1, <2>3 DEF StreamDropped, IInv, StagingIsReady, PublishedIsVisible, Painted
  <2> QED BY <1>7, <2>2, <2>3 DEF StreamDropped
<1>8. CASE StreamRefused
  <2>1. Painted' = [Painted EXCEPT !["boot"] = "failed"]
    BY <1>8, PaintedFollows DEF StreamRefused, IInv
  <2> QED BY <1>8, <2>1, PokeIsVisible DEF StreamRefused, IInv, BusyIsLive
<1>9. CASE StreamUnmapped
  <2>1. Painted' = [Painted EXCEPT !["boot"] = "failed"]
    BY <1>9, PaintedFollows DEF StreamUnmapped, IInv
  <2> QED BY <1>9, <2>1, PokeIsVisible DEF StreamUnmapped, IInv, BusyIsLive
<1>10. CASE StreamStaged
  <2>1. started /\ mailbox_live /\ regs = Painted /\ bank[1] = InWindow(1)
    BY <1>10 DEF StreamStaged, IInv, BusyIsLive, PublishedIsVisible
  <2>2. Painted' = [Painted EXCEPT !["boot"] = "ready"]
    BY <1>10, PaintedFollows DEF StreamStaged, IInv
  <2>3. PublishedIsVisible'
    BY <1>10, <2>1, <2>2 DEF StreamStaged, PublishedIsVisible
  <2>4. Planned \in Images
    BY <1>10, PlannedFacts DEF StreamStaged, IInv
  <2>5. StagingIsReady'
    BY <1>10, <2>1, <2>4 DEF StreamStaged, StagingIsReady
  <2> QED BY <1>10, <2>1, <2>3, <2>5 DEF StreamStaged, BusyIsLive
<1>11. CASE ArmSwap
  BY <1>11 DEF ArmSwap, IInv, BusyIsLive, StagingIsReady, PublishedIsVisible, Painted
<1>12. CASE DoSwap
  <2>1. staged \in Images /\ (~Claims[staged] => staged_regs = Own)
    BY <1>12 DEF DoSwap, IInv, StagingIsReady
  <2>2. mailbox_live' => bank'[1] = InWindow(1)
    BY <1>12, <2>1, ServedFromFront DEF DoSwap, IInv, StagingIsReady
  <2>3. mailbox_live' = Claims[staged] /\ Painted' = Painted
    BY <1>12 DEF DoSwap, Painted
  <2>4. PublishedIsVisible'
    BY <1>12, <2>1, <2>2, <2>3 DEF DoSwap, PublishedIsVisible
  <2> QED BY <1>12, <2>4 DEF DoSwap, BusyIsLive, StagingIsReady
<1>13. ASSUME NEW page \in Nat, BankSelect(page) \/ BankHot(page) PROVE MailInv'
  <2>1. bank'[1] = IF BankHot(page) THEN bank'[1] ELSE bank[1]
    BY <1>13 DEF BankSelect, IInv, CartTypeOK, Halves
  <2>2. mailbox_live /\ started => ~BankHot(page)
    BY DEF BankHot, IInv, ServingIsPlanned
  <2>3. PublishedIsVisible'
    BY <1>13, <2>1, <2>2 DEF BankSelect, BankHot, IInv, PublishedIsVisible, Painted
  <2> QED BY <1>13, <2>3 DEF BankSelect, BankHot, IInv, BusyIsLive, StagingIsReady
<1>14. CASE UNCHANGED cartVars
  BY <1>14 DEF IInv, BusyIsLive, StagingIsReady, PublishedIsVisible, Painted
<1>15. \A i \in Images : \A page \in 0..(Pages[i] - 1) : page \in Nat
  BY DEF CartAssumptions
<1> QED
  BY <1>1, <1>2, <1>3, <1>4, <1>5, <1>6, <1>7, <1>8, <1>9, <1>10, <1>11, <1>12, <1>13, <1>14,
     <1>15 DEF CartNext, Link, Bus

-----------------------------------------------------------------------------
(* The buffers. *)

LEMMA SameInterval == ASSUME NEW m \in Nat, NEW n \in Nat, 1..m = 1..n PROVE m = n
<1>1. m \in 1..m \/ m = 0
  OBVIOUS
<1>2. n \in 1..n \/ n = 0
  OBVIOUS
<1>3. m <= n
  BY <1>1
<1>4. n <= m
  BY <1>2
<1> QED BY <1>3, <1>4

LEMMA ReceivedOneMore ==
  ASSUME NEW i \in Images, NEW n \in Nat
  PROVE  Append(ChunksUpTo(i, n), [of |-> i, n |-> n + 1]) = ChunksUpTo(i, n + 1)
<1> DEFINE S == [of : Images, n : Nat]
           r == ChunksUpTo(i, n)
<1>1. r \in [1..n -> S]
  BY DEF ChunksUpTo
<1>2. r \in Seq(S)
  BY <1>1, SeqDef
<1>3. DOMAIN r = 1..Len(r) /\ Len(r) \in Nat
  BY <1>2, LenProperties
<1>4. DOMAIN r = 1..n
  BY DEF ChunksUpTo
<1> HIDE DEF r, S
<1>5. Len(r) = n
  BY <1>3, <1>4, SameInterval
<1>6. Append(r, [of |-> i, n |-> n + 1])
        = [k \in 1..(n + 1) |-> IF k = n + 1 THEN [of |-> i, n |-> n + 1] ELSE r[k]]
  BY <1>2, <1>5
<1>7. \A k \in 1..(n + 1) : k # n + 1 => r[k] = [of |-> i, n |-> k]
  BY DEF r, ChunksUpTo
<1> QED BY <1>6, <1>7 DEF r, ChunksUpTo
LEMMA StepBuffer == ASSUME CartAssumptions, IInv, [CartNext]_cartVars PROVE BufferIsPushed'
<1> SUFFICES ASSUME NEW s \in Streams
             PROVE  \/ pushing'[s] = NotPushing
                    \/ /\ pushing'[s].of \in Images
                       /\ rx'[s] = ChunksUpTo(pushing'[s].of, pushing'[s].n)
  BY DEF BufferIsPushed
<1>1. \/ pushing[s] = NotPushing
      \/ pushing[s].of \in Images /\ rx[s] = ChunksUpTo(pushing[s].of, pushing[s].n)
  BY DEF IInv, BufferIsPushed
<1>2. \/ pushing' = [t \in Streams |-> NotPushing]
      \/ pushing'[s] = NotPushing
      \/ pushing'[s] = pushing[s] /\ rx'[s] = rx[s]
      \/ \E i \in Images : StreamOpen(s, i)
      \/ StreamWrite(s)
  BY DEF IInv, CartTypeOK, CartNext, Link, Bus, CartStart, CartStop, Transact, TransactDone, StreamOpen,
         StreamWrite, StreamDropped, StreamRefused, StreamUnmapped, StreamStaged, ArmSwap, DoSwap,
         BankSelect, BankHot, ChunkSent, Streams
<1>3. ASSUME NEW i \in Images, StreamOpen(s, i)
      PROVE  pushing'[s].of \in Images /\ rx'[s] = ChunksUpTo(pushing'[s].of, pushing'[s].n)
  <2>1. pushing'[s] = [of |-> i, n |-> 0] /\ rx'[s] = <<>>
    BY <1>3 DEF StreamOpen, IInv, CartTypeOK
  <2>2. ChunksUpTo(i, 0) = <<>>
    BY DEF ChunksUpTo
  <2> QED BY <2>1, <2>2
<1>4. CASE StreamWrite(s)
  <2>1. pushing[s].of \in Images /\ pushing[s].n \in Nat
    BY <1>1, <1>4 DEF StreamWrite, NotPushing, IInv, CartTypeOK
  <2> DEFINE i == pushing[s].of
             n == pushing[s].n
  <2>2. rx[s] = ChunksUpTo(i, n)
    BY <1>1, <1>4, <2>1 DEF StreamWrite, NotPushing, CartAssumptions
  <2>3. pushing'[s].of = i /\ pushing'[s].n = n + 1
    BY <1>4 DEF StreamWrite, ChunkSent, IInv, CartTypeOK
  <2>4. rx'[s] = Append(ChunksUpTo(i, n), [of |-> i, n |-> n + 1])
    BY <1>4, <2>2 DEF StreamWrite, NextChunk, IInv, CartTypeOK
  <2>6. Append(ChunksUpTo(i, n), [of |-> i, n |-> n + 1]) = ChunksUpTo(i, n + 1)
    BY <2>1, ReceivedOneMore
  <2> QED BY <2>1, <2>3, <2>4, <2>6
<1> QED BY <1>1, <1>2, <1>3, <1>4

-----------------------------------------------------------------------------
(* The theorems. *)

LEMMA StepInv == ASSUME CartAssumptions, IInv, [CartNext]_cartVars PROVE IInv'
<1>1. CartTypeOK'
  BY StepTypeOK DEF IInv
<1>2. ServingIsPlanned' /\ OneImageServed'
  BY StepServing
<1>3. MailInv'
  BY <1>2, StepMail
<1>4. BufferIsPushed'
  BY StepBuffer
<1> QED BY <1>1, <1>2, <1>3, <1>4 DEF IInv, MailInv

LEMMA InvHolds == ASSUME CartAssumptions PROVE CartSpec => []IInv
<1>1. CartInit => IInv
  BY InitInv
<1>2. IInv /\ [CartNext]_cartVars => IInv'
  BY StepInv
<1> QED BY <1>1, <1>2, PTL DEF CartSpec

(* What fujinet_cart.c keeps has its type: in particular the image that is  *)
(* staged is one, whatever the link sent.                                   *)
THEOREM CartTypesOK == ASSUME CartAssumptions PROVE CartSpec => []CartTypeOK
<1>1. IInv => CartTypeOK
  BY DEF IInv
<1> QED BY <1>1, InvHolds, PTL

(* At every read the console is served one image, in both halves and every   *)
(* bank, and finds what fujimail published last in the mailbox of an image   *)
(* that has one (astro_cart_read, do_swap, cart_poke).                       *)
THEOREM CartServesWhatItHolds == ASSUME CartAssumptions PROVE CartSpec => []ServesWhatItHolds
<1>1. IInv => ServesWhatItHolds
  BY DEF IInv, ServesWhatItHolds
<1> QED BY <1>1, InvHolds, PTL

(* An image is staged only when its stream's buffer holds all of it, in      *)
(* order, and nothing else (c_stream_open, c_stream_write, c_stream_close).  *)
THEOREM CartStagedIsWhole == ASSUME CartAssumptions PROVE CartSpec => StagedIsWhole
<1>1. ASSUME IInv, [CartNext]_cartVars
      PROVE  [boot' = "ready" /\ boot # "ready" => rx[0] = Whole(staged')]_cartVars
  <2>1. boot' = "ready" /\ boot # "ready" => StreamStaged
    BY <1>1 DEF CartNext, Link, Bus, CartStart, CartStop, Transact, TransactDone, StreamOpen,
                StreamWrite, StreamDropped, StreamRefused, StreamUnmapped, ArmSwap, DoSwap,
                BankSelect, BankHot
  <2>2. StreamStaged => rx[0] = Whole(staged')
    BY <1>1, PlannedFacts DEF StreamStaged, IInv
  <2> QED BY <2>1, <2>2
<1> QED BY <1>1, InvHolds, PTL DEF CartSpec, StagedIsWhole

(* The cartridge is a slot: one image at a time is served, whole, and the    *)
(* next takes its place in one step, when the console asked for it.          *)
THEOREM CartImplementsCartSlot == ASSUME CartAssumptions PROVE CartSpec => SlotSpec
<1>1. CartInit => Slot!Init
  BY DEF CartInit, Slot!Init
<1>2. ASSUME IInv, [CartNext]_cartVars PROVE [Slot!Next]_(Slot!vars)
  <2> USE DEF Slot!vars, Slot!Next
  <2>1. ASSUME NEW i \in Images, CartStart(i) PROVE Slot!Insert
    BY <1>2, <2>1 DEF CartStart, Slot!Insert, IInv, StagingIsReady
  <2>2. CASE CartStop
    BY <2>2 DEF CartStop, Slot!Remove
  <2>3. CASE StreamStaged
    <3>1. Planned \in Images
      BY <1>2, <2>3, PlannedFacts DEF StreamStaged, IInv
    <3>2. started /\ window \in Images
      BY <1>2, <2>3 DEF StreamStaged, IInv, BusyIsLive, ServingIsPlanned
    <3> QED BY <2>3, <3>1, <3>2 DEF StreamStaged, Slot!Receive, CartAssumptions
  <2>4. CASE ArmSwap
    BY <1>2, <2>4 DEF ArmSwap, Slot!Ask, IInv, StagingIsReady, CartAssumptions
  <2>5. CASE DoSwap
    BY <1>2, <2>5 DEF DoSwap, Slot!Swap, IInv, StagingIsReady
  <2>6. CASE UNCHANGED <<started, window, have_staged, staged, swap_armed>>
    BY <2>6
  <2> QED
    BY <1>2, <2>1, <2>2, <2>3, <2>4, <2>5, <2>6
    DEF CartNext, Link, Bus, Transact, TransactDone, StreamOpen, StreamWrite, StreamDropped,
        StreamRefused, StreamUnmapped, BankSelect, BankHot
<1> QED BY <1>1, <1>2, InvHolds, PTL DEF CartSpec, SlotSpec, Slot!Spec

-----------------------------------------------------------------------------
(* FujiTrace. Its Slip, Frames and Times are folds over a sequence: a fold   *)
(* is given a run, whose element k is what it makes of the first k, and what *)
(* the run does at every k follows from the well-foundedness of the numbers. *)

LEMMA LeastNumber ==
  ASSUME NEW T \in SUBSET Nat, T # {}
  PROVE  \E n \in T : \A m \in T : n <= m
<1>1. IsWellFoundedOn(OpToRel(<, Nat), Nat)
  BY NatLessThanWellFounded
<1>2. PICK x \in T : \A y \in T : ~(<<y, x>> \in OpToRel(<, Nat))
  BY <1>1, WFMin
<1>3. ASSUME NEW y \in T PROVE x <= y
  <2>1. ~(y < x)
    BY <1>2 DEF OpToRel
  <2> QED
    BY <2>1
<1> QED
  BY <1>3

(* Induction up to n, over a set of numbers. *)
LEMMA Inductive ==
  ASSUME NEW n \in Nat, NEW S, 0 \in S, \A k \in 1..n : k - 1 \in S => k \in S
  PROVE  0..n \subseteq S
<1> DEFINE T == (0..n) \ S
<1>1. SUFFICES ASSUME T # {} PROVE FALSE
  OBVIOUS
<1>2. T \in SUBSET Nat
  OBVIOUS
<1>3. PICK x \in T : \A y \in T : x <= y
  <2> HIDE DEF T
  <2> QED
    BY <1>1, <1>2, LeastNumber
<1>4. x \in 1..n /\ x - 1 \notin T
  BY <1>3
<1> QED
  BY <1>4

LEMMA MaxOfSegment ==
  ASSUME NEW k \in Nat, k # 0
  PROVE  Max(1..k) = k /\ (1..k) \ {k} = 1..(k - 1)
<1>1. \A x \in 1..k : (\A y \in 1..k : x >= y) => x = k
  OBVIOUS
<1>2. \E x \in 1..k : \A y \in 1..k : x >= y
  OBVIOUS
<1> QED
  BY <1>1, <1>2 DEF Max

LEMMA MaxOfSubset ==
  ASSUME NEW n \in Nat, NEW s \in SUBSET (1..(n + 1)), n + 1 \in s
  PROVE  Max(s) = n + 1 /\ s \ {Max(s)} \in SUBSET (1..n)
<1>1. \A x \in s : (\A y \in s : x >= y) => x = n + 1
  OBVIOUS
<1>2. \E x \in s : \A y \in s : x >= y
  OBVIOUS
<1>3. Max(s) = n + 1
  BY <1>1, <1>2 DEF Max
<1> QED
  BY <1>3

(* What MapThenFoldSet chooses, when the elements are taken in order: it     *)
(* exists whenever the operation stays in a set.                             *)
IsFold(it, n, base, Op) ==
  \A s \in SUBSET (1..n) :
    it[s] = IF s = {} THEN base ELSE Op[<<Max(s), it[s \ {Max(s)}]>>]

LEMMA MaxIsIn ==
  ASSUME NEW n \in Nat, NEW s \in SUBSET (1..n), s # {}
  PROVE  Max(s) \in s
<1> DEFINE T == {n - x : x \in s}
<1>1. T \in SUBSET Nat /\ T # {}
  <2>1. \A x \in s : n - x \in Nat
    OBVIOUS
  <2>2. PICK x \in s : n - x \in T
    OBVIOUS
  <2> QED
    BY <2>1, <2>2
<1>2. PICK m \in T : \A y \in T : m <= y
  <2> HIDE DEF T
  <2> QED
    BY <1>1, LeastNumber
<1>3. \E x \in s : \A y \in s : x >= y
  BY <1>2
<1> QED
  BY <1>3 DEF Max

LEMMA FoldExists ==
  ASSUME NEW n \in Nat, NEW A, NEW base \in A, NEW Op \in [(1..n) \X A -> A]
  PROVE  \E it \in [SUBSET (1..n) -> A] : IsFold(it, n, base, Op)
<1> DEFINE S == {k \in 0..n : \E it \in [SUBSET (1..k) -> A] : IsFold(it, k, base, Op)}
<1>1. 0 \in S
  <2> DEFINE it0 == [s \in SUBSET (1..0) |-> base]
  <2>1. SUBSET (1..0) = {{}}
    OBVIOUS
  <2>2. IsFold(it0, 0, base, Op)
    BY <2>1 DEF IsFold
  <2> QED
    BY <2>2
<1>2. ASSUME NEW k \in 1..n, k - 1 \in S PROVE k \in S
  <2>1. PICK it \in [SUBSET (1..(k - 1)) -> A] : IsFold(it, k - 1, base, Op)
    BY <1>2
  <2> DEFINE ext == [s \in SUBSET (1..k) |-> IF k \in s THEN Op[<<k, it[s \ {k}]>>] ELSE it[s]]
  <2>2. ASSUME NEW s \in SUBSET (1..k)
        PROVE  /\ ext[s] \in A
               /\ ext[s] = IF s = {} THEN base ELSE Op[<<Max(s), ext[s \ {Max(s)}]>>]
    <3>1. CASE k \in s
      <4>1. Max(s) = k /\ s \ {k} \in SUBSET (1..(k - 1))
        BY <3>1, MaxOfSubset
      <4>2. ext[s \ {k}] = it[s \ {k}]
        BY <4>1
      <4> QED
        BY <3>1, <4>1, <4>2
    <3>2. CASE k \notin s
      <4>1. s \in SUBSET (1..(k - 1)) /\ ext[s] = it[s]
        BY <3>2
      <4>2. it[s] = IF s = {} THEN base ELSE Op[<<Max(s), it[s \ {Max(s)}]>>]
        BY <2>1, <4>1 DEF IsFold
      <4>3. ext[s \ {Max(s)}] = it[s \ {Max(s)}]
        BY <3>2, <4>1
      <4> QED
        BY <4>1, <4>2, <4>3
    <3> QED
      BY <3>1, <3>2
  <2>3. ext = [s \in SUBSET (1..k) |-> ext[s]]
    OBVIOUS
  <2> HIDE DEF ext
  <2>4. ext \in [SUBSET (1..k) -> A] /\ IsFold(ext, k, base, Op)
    BY <2>2, <2>3 DEF IsFold
  <2> QED
    BY <2>4
<1>3. n \in S
  <2> HIDE DEF S
  <2> QED
    BY <1>1, <1>2, Inductive
<1> QED
  BY <1>3

(* Decoding. *)

Bytes == Seq(Nat)
Start == [acc |-> <<>>, esc |-> FALSE, frames |-> <<>>]
States == [acc : Bytes, esc : BOOLEAN, frames : Seq(Bytes)]

LEMMA UnslipType == ASSUME NEW s \in States, NEW b \in Nat PROVE Unslip(s, b) \in States
<1>0. s.acc \in Bytes /\ s.frames \in Seq(Bytes) /\ s = [acc |-> s.acc, esc |-> s.esc, frames |-> s.frames]
  BY DEF States
<1>1. CASE b = END
  <2>1. Unslip(s, b) = [acc |-> <<>>, esc |-> FALSE,
                    frames |-> IF s.acc = <<>> THEN s.frames ELSE Append(s.frames, s.acc)]
    BY <1>1 DEF Unslip, END, ESC
  <2>2. (IF s.acc = <<>> THEN s.frames ELSE Append(s.frames, s.acc)) \in Seq(Bytes)
    BY <1>0
  <2>3. <<>> \in Bytes
    BY DEF Bytes
  <2> QED BY <2>1, <2>2, <2>3 DEF States
<1>2. CASE b # END /\ s.esc
  <2> DEFINE c == CASE b = ESC_END -> END [] b = ESC_ESC -> ESC [] OTHER -> b
  <2>1. Unslip(s, b) = [s EXCEPT !.acc = Append(@, c), !.esc = FALSE]
    BY <1>2 DEF Unslip
  <2>2. c \in Nat
    BY DEF END, ESC, ESC_END, ESC_ESC
  <2> HIDE DEF c
  <2>3. Append(s.acc, c) \in Bytes
    BY <1>0, <2>2 DEF Bytes
  <2> QED BY <2>1, <2>2, <2>3 DEF States
<1>3. CASE b = ESC /\ ~s.esc
  <2>1. Unslip(s, b) = [s EXCEPT !.esc = TRUE]
    BY <1>3 DEF Unslip, END, ESC
  <2> QED BY <2>1 DEF States
<1>4. CASE b # END /\ b # ESC /\ ~s.esc
  <2>1. Unslip(s, b) = [s EXCEPT !.acc = Append(@, b)]
    BY <1>4 DEF Unslip
  <2>3. Append(s.acc, b) \in Bytes
    BY <1>0 DEF Bytes
  <2> QED BY <2>1, <2>3 DEF States
<1> QED
  BY <1>1, <1>2, <1>3, <1>4

(* The decoder's states, a byte after the other. *)
LEMMA FramesRun ==
  ASSUME NEW s \in Bytes
  PROVE  \E r : /\ r[0] = Start /\ Frames(s) = r[Len(s)].frames
                /\ \A k \in 1..Len(s) : r[k] = Unslip(r[k - 1], s[k])
<1> DEFINE n == Len(s)
           Op == [x \in (1..n) \X States |-> Unslip(x[2], s[x[1]])]
           Eq(it) == it = [S \in SUBSET (DOMAIN s) |->
                             IF S = {} THEN Start ELSE Unslip(it[S \ {Max(S)}], s[Max(S)])]
           iter == CHOOSE it : Eq(it)
<1>1. n \in Nat /\ DOMAIN s = 1..n /\ \A k \in 1..n : s[k] \in Nat
  BY DEF Bytes
<1>2. Op \in [(1..n) \X States -> States]
  BY <1>1, UnslipType
<1>3. Start \in States
  BY DEF Start, States, Bytes
<1>4. PICK it \in [SUBSET (1..n) -> States] : IsFold(it, n, Start, Op)
  <2> HIDE DEF Op, n
  <2> QED BY <1>1, <1>2, <1>3, FoldExists
<1>5. Eq(it)
  <2>1. ASSUME NEW S \in SUBSET (1..n), S # {}
        PROVE  it[S] = Unslip(it[S \ {Max(S)}], s[Max(S)])
    <3>1. Max(S) \in 1..n /\ S \ {Max(S)} \in SUBSET (1..n)
      BY <2>1, <1>1, MaxIsIn
    <3>2. it[S] = Op[<<Max(S), it[S \ {Max(S)}]>>] /\ S \ {Max(S)} \in SUBSET (1..n)
      BY <1>4, <2>1 DEF IsFold
    <3> QED BY <1>1, <3>1, <3>2
  <2>2. it[{}] = Start
    BY <1>4 DEF IsFold
  <2> QED
    BY <2>1, <2>2, <1>1
<1>6. Eq(iter)
  BY <1>5
<1>7. Frames(s) = iter[DOMAIN s].frames
  BY DEF Frames, FoldLeft, MapThenFoldSet, Start
<1> DEFINE r == [k \in 0..n |-> iter[1..k]]
<1>8. r[0] = Start /\ r[n] = iter[DOMAIN s]
  <2>1. iter[{}] = Start
    BY <1>6
  <2> HIDE DEF iter
  <2> QED
    BY <1>1, <2>1
<1>9. ASSUME NEW k \in 1..n PROVE r[k] = Unslip(r[k - 1], s[k])
  <2>1. 1..k \in SUBSET (DOMAIN s) /\ 1..k # {} /\ Max(1..k) = k /\ (1..k) \ {k} = 1..(k - 1)
    BY <1>1, MaxOfSegment
  <2>2. iter[1..k] = Unslip(iter[(1..k) \ {Max(1..k)}], s[Max(1..k)])
    BY <1>6, <2>1
  <2> HIDE DEF iter
  <2> QED
    BY <1>1, <2>1, <2>2
<1> QED
  <2> HIDE DEF r
  <2> QED
    BY <1>7, <1>8, <1>9

(* Encoding: what stands for a byte, and the bytes written so far. *)
Esc(b) == CASE b = END -> <<ESC, ESC_END>>
            [] b = ESC -> <<ESC, ESC_ESC>>
            [] OTHER -> <<b>>

LEMMA EscType == ASSUME NEW b \in Nat PROVE Esc(b) \in Bytes
BY DEF Esc, Bytes, ESC, ESC_END, ESC_ESC

LEMMA SlipRun ==
  ASSUME NEW s \in Bytes
  PROVE  \E r : /\ r[0] = <<>> /\ Slip(s) = <<END>> \o r[Len(s)] \o <<END>>
                /\ \A k \in 1..Len(s) : r[k] = r[k - 1] \o Esc(s[k])
<1> DEFINE n == Len(s)
           Op == [x \in (1..n) \X Bytes |-> x[2] \o Esc(s[x[1]])]
           Eq(it) == it = [S \in SUBSET (DOMAIN s) |->
                             IF S = {} THEN <<>> ELSE it[S \ {Max(S)}] \o Esc(s[Max(S)])]
           iter == CHOOSE it : Eq(it)
<1>1. n \in Nat /\ DOMAIN s = 1..n /\ \A k \in 1..n : s[k] \in Nat
  BY DEF Bytes
<1>2. Op \in [(1..n) \X Bytes -> Bytes]
  <2>1. \A t \in Bytes, u \in Bytes : t \o u \in Bytes
    BY DEF Bytes
  <2> QED
    BY <1>1, <2>1, EscType
<1>3. <<>> \in Bytes
  BY DEF Bytes
<1>4. PICK it \in [SUBSET (1..n) -> Bytes] : IsFold(it, n, <<>>, Op)
  <2> HIDE DEF Op, n
  <2> QED BY <1>1, <1>2, <1>3, FoldExists
<1>5. Eq(it)
  <2>1. ASSUME NEW S \in SUBSET (1..n), S # {}
        PROVE  it[S] = it[S \ {Max(S)}] \o Esc(s[Max(S)])
    <3>1. Max(S) \in 1..n /\ S \ {Max(S)} \in SUBSET (1..n)
      BY <2>1, <1>1, MaxIsIn
    <3>2. it[S] = Op[<<Max(S), it[S \ {Max(S)}]>>]
      BY <1>4, <2>1 DEF IsFold
    <3> QED BY <1>1, <3>1, <3>2
  <2>2. it[{}] = <<>>
    BY <1>4 DEF IsFold
  <2> QED
    BY <2>1, <2>2, <1>1
<1>6. Eq(iter)
  BY <1>5
<1>7. Slip(s) = <<END>> \o iter[DOMAIN s] \o <<END>>
  BY DEF Slip, FoldLeft, MapThenFoldSet, Esc
<1> DEFINE r == [k \in 0..n |-> iter[1..k]]
<1>8. r[0] = <<>> /\ r[n] = iter[DOMAIN s]
  <2>1. iter[{}] = <<>>
    BY <1>6
  <2> HIDE DEF iter
  <2> QED
    BY <1>1, <2>1
<1>9. ASSUME NEW k \in 1..n PROVE r[k] = r[k - 1] \o Esc(s[k])
  <2>1. 1..k \in SUBSET (DOMAIN s) /\ 1..k # {} /\ Max(1..k) = k /\ (1..k) \ {k} = 1..(k - 1)
    BY <1>1, MaxOfSegment
  <2>2. iter[1..k] = iter[(1..k) \ {Max(1..k)}] \o Esc(s[Max(1..k)])
    BY <1>6, <2>1
  <2>3. r[k] = iter[1..k] /\ r[k - 1] = iter[1..(k - 1)]
    <3> HIDE DEF iter
    <3> QED
      BY <1>1
  <2> HIDE DEF iter, r
  <2> QED
    BY <2>1, <2>2, <2>3
<1> QED
  <2> HIDE DEF r
  <2> QED
    BY <1>7, <1>8, <1>9

(* The decoder in a frame, and after an escape in it. *)
At(acc) == [acc |-> acc, esc |-> FALSE, frames |-> <<>>]
InEscape(acc) == [acc |-> acc, esc |-> TRUE, frames |-> <<>>]

LEMMA UnslipStep ==
  ASSUME NEW acc \in Bytes
  PROVE  /\ Unslip(At(acc), END).frames = (IF acc = <<>> THEN <<>> ELSE <<acc>>)
         /\ Unslip(At(<<>>), END) = At(<<>>)
         /\ Unslip(At(acc), ESC) = InEscape(acc)
         /\ \A b \in Nat \ {END, ESC} : Unslip(At(acc), b) = At(Append(acc, b))
         /\ Unslip(InEscape(acc), ESC_END) = At(Append(acc, END))
         /\ Unslip(InEscape(acc), ESC_ESC) = At(Append(acc, ESC))
<1> USE DEF END, ESC, ESC_END, ESC_ESC, At, InEscape
<1>1. Unslip(At(acc), END).frames = (IF acc = <<>> THEN <<>> ELSE <<acc>>)
  BY DEF Unslip
<1>2. Unslip(At(<<>>), END) = At(<<>>)
  BY DEF Unslip
<1>3. Unslip(At(acc), ESC) = InEscape(acc)
  <2>1. Unslip(At(acc), ESC) = [At(acc) EXCEPT !.esc = TRUE]
    BY DEF Unslip
  <2> QED
    BY <2>1
<1>4. ASSUME NEW b \in Nat \ {END, ESC} PROVE Unslip(At(acc), b) = At(Append(acc, b))
  <2>1. Unslip(At(acc), b) = [At(acc) EXCEPT !.acc = Append(@, b)]
    BY DEF Unslip
  <2> QED
    BY <2>1
<1>5. Unslip(InEscape(acc), ESC_END) = At(Append(acc, END))
  <2>1. Unslip(InEscape(acc), ESC_END)
          = [InEscape(acc) EXCEPT !.acc = Append(@, END), !.esc = FALSE]
    BY DEF Unslip
  <2> QED
    BY <2>1
<1>6. Unslip(InEscape(acc), ESC_ESC) = At(Append(acc, ESC))
  <2>1. Unslip(InEscape(acc), ESC_ESC)
          = [InEscape(acc) EXCEPT !.acc = Append(@, ESC), !.esc = FALSE]
    BY DEF Unslip
  <2> QED
    BY <2>1
<1> QED
  BY <1>1, <1>2, <1>3, <1>4, <1>5, <1>6

(* Sequences each of which begins with the one before. *)
Grows(r, n) ==
  /\ \A k \in 0..n : r[k] \in Bytes
  /\ \A k \in 1..n : /\ Len(r[k - 1]) <= Len(r[k])
                     /\ \A j \in 1..Len(r[k - 1]) : r[k][j] = r[k - 1][j]

LEMMA RunKeepsItsStart ==
  ASSUME NEW n \in Nat, NEW r, Grows(r, n)
  PROVE  \A k \in 0..n : /\ Len(r[k]) <= Len(r[n])
                         /\ \A j \in 1..Len(r[k]) : r[n][j] = r[k][j]
<1> USE DEF Grows
<1> DEFINE S == {m \in 0..n : \A k \in 0..m : /\ Len(r[k]) <= Len(r[m])
                                             /\ \A j \in 1..Len(r[k]) : r[m][j] = r[k][j]}
<1>1. 0 \in S
  OBVIOUS
<1>2. ASSUME NEW m \in 1..n, m - 1 \in S PROVE m \in S
  <2> SUFFICES ASSUME NEW k \in 0..m
               PROVE  Len(r[k]) <= Len(r[m]) /\ \A j \in 1..Len(r[k]) : r[m][j] = r[k][j]
    OBVIOUS
  <2>1. CASE k = m
    BY <2>1 DEF Bytes
  <2>2. CASE k # m
    <3>1. k \in 0..(m - 1) /\ k \in 0..n /\ m - 1 \in 0..n
      BY <2>2
    <3>2. Len(r[k]) <= Len(r[m - 1]) /\ \A j \in 1..Len(r[k]) : r[m - 1][j] = r[k][j]
      BY <1>2, <3>1
    <3>3. Len(r[k]) \in Nat /\ Len(r[m - 1]) \in Nat /\ Len(r[m]) \in Nat
      BY <3>1 DEF Bytes
    <3> QED
      BY <3>2, <3>3
  <2> QED
    BY <2>1, <2>2
<1>3. n \in S
  <2> HIDE DEF S
  <2>1. 0..n \subseteq S
    BY <1>1, <1>2, Inductive
  <2> QED
    BY <2>1
<1>4. \A m \in S : \A k \in 0..m : /\ Len(r[k]) <= Len(r[m])
                                   /\ \A j \in 1..Len(r[k]) : r[m][j] = r[k][j]
  OBVIOUS
<1> HIDE DEF S
<1> QED
  BY <1>3, <1>4

(* The decoder u has read e after L bytes of a frame. *)
Reads(u, L, e) == \A j \in 1..Len(e) : u[1 + L + j] = Unslip(u[L + j], e[j])

(* What stands for one byte decodes to it.                                   *)
LEMMA EscapeStep ==
  ASSUME NEW b \in Nat, NEW acc \in Bytes, NEW L \in Nat, NEW u, u[1 + L] = At(acc),
         Reads(u, L, Esc(b))
  PROVE  u[1 + L + Len(Esc(b))] = At(Append(acc, b))
<1> DEFINE e == Esc(b)
<1>0. e = Esc(b) /\ \A j \in 1..Len(e) : u[1 + L + j] = Unslip(u[L + j], e[j])
  BY DEF Reads
<1> HIDE DEF e
<1>1. CASE b = END
  <2>1. e = <<ESC, ESC_END>>
    BY <1>0, <1>1 DEF Esc, END, ESC
  <2>2. Len(e) = 2 /\ 1 \in 1..Len(e) /\ 2 \in 1..Len(e) /\ e[1] = ESC /\ e[2] = ESC_END
    BY <2>1
  <2>3. u[1 + L + 1] = Unslip(u[L + 1], ESC) /\ u[1 + L + 2] = Unslip(u[L + 2], ESC_END)
    BY <1>0, <2>2
  <2>4. L + 1 = 1 + L /\ 1 + L + 1 = L + 2
    OBVIOUS
  <2>5. u[1 + L + 1] = InEscape(acc)
    BY <2>3, <2>4, UnslipStep
  <2>6. u[1 + L + 2] = At(Append(acc, END))
    BY <2>3, <2>4, <2>5, UnslipStep
  <2> QED
    BY <1>0, <1>1, <2>2, <2>6
<1>2. CASE b = ESC
  <2>1. e = <<ESC, ESC_ESC>>
    BY <1>0, <1>2 DEF Esc, END, ESC
  <2>2. Len(e) = 2 /\ 1 \in 1..Len(e) /\ 2 \in 1..Len(e) /\ e[1] = ESC /\ e[2] = ESC_ESC
    BY <2>1
  <2>3. u[1 + L + 1] = Unslip(u[L + 1], ESC) /\ u[1 + L + 2] = Unslip(u[L + 2], ESC_ESC)
    BY <1>0, <2>2
  <2>4. L + 1 = 1 + L /\ 1 + L + 1 = L + 2
    OBVIOUS
  <2>5. u[1 + L + 1] = InEscape(acc)
    BY <2>3, <2>4, UnslipStep
  <2>6. u[1 + L + 2] = At(Append(acc, ESC))
    BY <2>3, <2>4, <2>5, UnslipStep
  <2> QED
    BY <1>0, <1>2, <2>2, <2>6
<1>3. CASE b \notin {END, ESC}
  <2>1. e = <<b>>
    BY <1>0, <1>3 DEF Esc
  <2>2. Len(e) = 1 /\ 1 \in 1..Len(e) /\ e[1] = b
    BY <2>1
  <2>3. u[1 + L + 1] = Unslip(u[L + 1], b)
    BY <1>0, <2>2
  <2>4. L + 1 = 1 + L
    OBVIOUS
  <2>5. b \in Nat \ {END, ESC}
    BY <1>3
  <2>6. Unslip(At(acc), b) = At(Append(acc, b))
    BY <2>5, UnslipStep
  <2> QED
    BY <1>0, <2>2, <2>3, <2>4, <2>6
<1> QED
  BY <1>0, <1>1, <1>2, <1>3

(* The frames of what a packet was encoded to are that packet. *)
LEMMA Decodes ==
  ASSUME NEW d \in Bytes, d # <<>>, NEW n \in Nat, n = Len(d)
  PROVE  Frames(Slip(d)) = <<d>>
<1>1. \A k \in 1..n : d[k] \in Nat
  BY DEF Bytes
<1>2. PICK r : /\ r[0] = <<>> /\ Slip(d) = <<END>> \o r[n] \o <<END>>
               /\ \A k \in 1..n : r[k] = r[k - 1] \o Esc(d[k])
  BY SlipRun
<1>0. \A t \in Bytes, k \in 1..n : /\ t \o Esc(d[k]) \in Bytes /\ Len(t) <= Len(t \o Esc(d[k]))
                                  /\ \A j \in 1..Len(t) : (t \o Esc(d[k]))[j] = t[j]
  <2>1. \A t \in Bytes, e \in Bytes : /\ t \o e \in Bytes /\ Len(t) <= Len(t \o e)
                                     /\ \A j \in 1..Len(t) : (t \o e)[j] = t[j]
    BY DEF Bytes
  <2> QED
    BY <1>1, <2>1, EscType
<1>3. \A k \in 0..n : r[k] \in Bytes
  <2> DEFINE S == {k \in 0..n : r[k] \in Bytes}
  <2>1. 0 \in S
    <3>1. <<>> \in Bytes
      BY DEF Bytes
    <3> QED
      BY <1>1, <1>2, <3>1
  <2>2. ASSUME NEW k \in 1..n, k - 1 \in S PROVE k \in S
    <3>1. r[k - 1] \in Bytes
      BY <2>2
    <3>2. r[k] = r[k - 1] \o Esc(d[k])
      BY <1>1, <1>2
    <3>3. r[k] \in Bytes
      BY <1>0, <3>1, <3>2
    <3>4. k \in 0..n
      OBVIOUS
    <3> QED
      BY <3>3, <3>4, Zenon
  <2>3. 0..n \subseteq S
    <3> HIDE DEF S
    <3> QED
      BY <1>1, <2>1, <2>2, Inductive
  <2> QED
    BY <2>3
<1>4. \A k \in 0..n : Len(r[k]) <= Len(r[n]) /\ \A j \in 1..Len(r[k]) : r[n][j] = r[k][j]
  <2>1. ASSUME NEW k \in 1..n
        PROVE  /\ Len(r[k - 1]) <= Len(r[k])
               /\ \A j \in 1..Len(r[k - 1]) : r[k][j] = r[k - 1][j]
    <3>1. r[k - 1] \in Bytes
      BY <1>3
    <3>2. r[k] = r[k - 1] \o Esc(d[k])
      BY <1>2
    <3> QED
      BY <1>0, <3>1, <3>2
  <2> QED
    <3>1. Grows(r, n)
      BY <1>3, <2>1 DEF Grows
    <3> QED
      BY <3>1, RunKeepsItsStart
<1> DEFINE T == r[n]
           B == Slip(d)
<1>5. /\ T \in Bytes /\ Len(T) \in Nat /\ B \in Bytes /\ Len(B) = Len(T) + 2
      /\ B[1] = END /\ B[Len(T) + 2] = END /\ \A j \in 1..Len(T) : B[j + 1] = T[j]
  <2>1. T \in Bytes
    BY <1>3
  <2>2. B = <<END>> \o T \o <<END>>
    BY <1>2
  <2> HIDE DEF B, T
  <2> QED
    BY <2>1, <2>2 DEF Bytes, END
<1>6. PICK u : /\ u[0] = Start /\ Frames(B) = u[Len(B)].frames
               /\ \A k \in 1..Len(B) : u[k] = Unslip(u[k - 1], B[k])
  <2> HIDE DEF B
  <2> QED
    BY <1>5, FramesRun
<1> HIDE DEF B, T
<1>7. u[1] = At(<<>>)
  <2>1. At(<<>>) = Start
    BY DEF At, Start
  <2>2. <<>> \in Bytes
    BY DEF Bytes
  <2>3. u[1] = Unslip(u[0], B[1])
    BY <1>5, <1>6
  <2> QED
    BY <1>5, <1>6, <2>1, <2>2, <2>3, UnslipStep
<1> DEFINE R == {k \in 0..n : u[1 + Len(r[k])] = At(SubSeq(d, 1, k))}
<1>8. 0 \in R
  <2>1. SubSeq(d, 1, 0) = <<>> /\ Len(r[0]) = 0
    BY <1>2 DEF Bytes
  <2>2. 1 + Len(r[0]) = 1 /\ 0 \in 0..n
    BY <2>1
  <2> QED
    BY <1>7, <2>1, <2>2, Zenon
<1>9. ASSUME NEW k \in 1..n, k - 1 \in R PROVE k \in R
  <2>1. PICK L \in Nat : L = Len(r[k - 1])
    BY <1>3 DEF Bytes
  <2>2. u[1 + L] = At(SubSeq(d, 1, k - 1))
    BY <1>9, <2>1
  <2>3. PICK e \in Bytes : e = Esc(d[k])
    BY <1>1, EscType
  <2>4. r[k] = r[k - 1] \o e
    BY <1>2, <2>3
  <2>5. /\ r[k - 1] \in Bytes /\ r[k] \in Bytes /\ Len(r[k]) <= Len(T)
        /\ \A j \in 1..Len(r[k]) : T[j] = r[k][j]
    <3>1. k \in 0..n /\ k - 1 \in 0..n
      OBVIOUS
    <3> QED
      BY <1>3, <1>4, <3>1 DEF T
  <2>6. Len(e) \in Nat /\ Len(r[k]) = L + Len(e) /\ \A j \in 1..Len(e) : r[k][L + j] = e[j]
    <3>1. PICK t \in Seq(Nat) : t = r[k - 1]
      BY <2>5 DEF Bytes
    <3>2. e \in Seq(Nat) /\ L = Len(t) /\ r[k] = t \o e
      BY <2>1, <2>4, <3>1 DEF Bytes
    <3>3. Len(e) \in Nat /\ Len(t \o e) = Len(t) + Len(e)
      BY <3>2
    <3>4. \A j \in 1..Len(e) : (t \o e)[Len(t) + j] = e[j]
      BY <3>2
    <3> QED
      BY <3>2, <3>3, <3>4
  <2>7. ASSUME NEW j \in 1..Len(e) PROVE u[1 + L + j] = Unslip(u[L + j], e[j])
    <3>1. /\ L + j \in 1..Len(r[k]) /\ L + j \in 1..Len(T) /\ 1 + L + j \in 1..Len(B)
          /\ 1 + L + j - 1 = L + j /\ 1 + L + j = L + j + 1
      <4>1. j \in 1..Len(e) /\ Len(e) \in Nat /\ Len(r[k]) = L + Len(e) /\ Len(r[k]) <= Len(T)
        BY <2>5, <2>6
      <4>2. Len(T) \in Nat /\ Len(B) = Len(T) + 2
        BY <1>5
      <4> QED
        BY <4>1, <4>2
    <3>2. B[1 + L + j] = T[L + j]
      BY <1>5, <3>1
    <3>3. T[L + j] = e[j]
      BY <2>5, <2>6, <3>1
    <3> QED
      BY <1>6, <3>1, <3>2, <3>3
  <2>8. SubSeq(d, 1, k - 1) \in Bytes /\ Append(SubSeq(d, 1, k - 1), d[k]) = SubSeq(d, 1, k)
    BY <1>1 DEF Bytes
  <2>9. u[1 + L + Len(e)] = At(SubSeq(d, 1, k))
    <3>1. d[k] \in Nat
      BY <1>1
    <3>2. u[1 + L + Len(e)] = At(Append(SubSeq(d, 1, k - 1), d[k]))
      <4>1. Reads(u, L, Esc(d[k]))
        BY <2>3, <2>7 DEF Reads
      <4>2. u[1 + L + Len(Esc(d[k]))] = At(Append(SubSeq(d, 1, k - 1), d[k]))
        BY <2>2, <2>8, <3>1, <4>1, EscapeStep
      <4> QED
        BY <2>3, <4>2
    <3> QED
      BY <2>8, <3>2
  <2>10. k \in 0..n /\ 1 + L + Len(e) = 1 + Len(r[k])
    BY <2>6
  <2> QED
    BY <2>9, <2>10, Zenon
<1>10. n \in R
  <2> HIDE DEF R
  <2>1. 0..n \subseteq R
    BY <1>8, <1>9, Inductive
  <2> QED
    BY <2>1
<1>11. u[Len(B)] = Unslip(At(d), END)
  <2>1. SubSeq(d, 1, n) = d
    BY <1>1 DEF Bytes
  <2>2. u[1 + Len(T)] = At(d)
    BY <1>10, <2>1 DEF T
  <2> QED
    BY <1>5, <1>6, <2>2
<1> QED
  BY <1>6, <1>11, UnslipStep DEF B

(* Counting. An entry of a packet weighs what it repeats; Times is the sum   *)
(* of the weights, and r in Sums(r, p, s) the sums of the first k of s.      *)

Entry == {e \in [to_host : BOOLEAN, data : Sent \cup Received, repeat : Nat, serial : Nat] :
            Key(e) \in Packets}
Weight(p, e) == IF Key(e) = p THEN e.repeat ELSE 0

LEMMA WeightType == ASSUME NEW p, NEW e \in Entry PROVE Weight(p, e) \in Nat
BY DEF Weight, Entry

Sums(r, p, s) ==
  /\ r[0] = 0 /\ Times(p, s) = r[Len(s)]
  /\ \A k \in 1..Len(s) : r[k] = r[k - 1] + Weight(p, s[k])
  /\ \A k \in 0..Len(s) : r[k] \in Nat

LEMMA TimesRunOf ==
  ASSUME NEW p, NEW s \in Seq(Entry), NEW n \in Nat, n = Len(s)
  PROVE  \E r : Sums(r, p, s)
<1> DEFINE Op == [x \in (1..n) \X Nat |-> x[2] + Weight(p, s[x[1]])]
           Eq(it) == it = [S \in SUBSET (DOMAIN s) |->
                             IF S = {} THEN 0 ELSE it[S \ {Max(S)}] + Weight(p, s[Max(S)])]
           iter == CHOOSE it : Eq(it)
<1>1. DOMAIN s = 1..n /\ \A k \in 1..n : s[k] \in Entry
  OBVIOUS
<1>2. Op \in [(1..n) \X Nat -> Nat]
  <2>1. \A k \in 1..n : Weight(p, s[k]) \in Nat
    BY <1>1, WeightType
  <2> QED
    BY <2>1
<1>4. PICK it \in [SUBSET (1..n) -> Nat] : IsFold(it, n, 0, Op)
  <2> HIDE DEF Op
  <2> QED BY <1>2, FoldExists
<1>5. Eq(it)
  <2>1. ASSUME NEW S \in SUBSET (1..n), S # {}
        PROVE  it[S] = it[S \ {Max(S)}] + Weight(p, s[Max(S)])
    <3>1. Max(S) \in 1..n /\ S \ {Max(S)} \in SUBSET (1..n)
      BY <2>1, MaxIsIn
    <3>2. it[S] = Op[<<Max(S), it[S \ {Max(S)}]>>]
      BY <1>4, <2>1 DEF IsFold
    <3>3. it[S \ {Max(S)}] \in Nat
      BY <3>1
    <3> QED BY <3>1, <3>2, <3>3
  <2>2. it[{}] = 0
    BY <1>4 DEF IsFold
  <2> QED
    BY <2>1, <2>2, <1>1
<1>6. Eq(iter)
  BY <1>5
<1>7. Times(p, s) = iter[DOMAIN s]
  BY DEF Times, FoldLeft, MapThenFoldSet, Weight
<1> DEFINE r == [k \in 0..n |-> iter[1..k]]
<1>8. r[0] = 0 /\ r[n] = iter[DOMAIN s]
  <2>1. iter[{}] = 0
    BY <1>6
  <2> HIDE DEF iter
  <2> QED
    BY <1>1, <2>1
<1>9. ASSUME NEW k \in 1..n PROVE r[k] = r[k - 1] + Weight(p, s[k])
  <2>1. 1..k \in SUBSET (DOMAIN s) /\ 1..k # {} /\ Max(1..k) = k /\ (1..k) \ {k} = 1..(k - 1)
    BY <1>1, MaxOfSegment
  <2>2. iter[1..k] = iter[(1..k) \ {Max(1..k)}] + Weight(p, s[Max(1..k)])
    BY <1>6, <2>1
  <2>3. r[k] = iter[1..k] /\ r[k - 1] = iter[1..(k - 1)]
    <3> HIDE DEF iter
    <3> QED
      BY <1>1
  <2> HIDE DEF iter, r
  <2> QED
    BY <2>1, <2>2, <2>3
<1> HIDE DEF r
<1>10. \A k \in 0..n : r[k] \in Nat
  <2> DEFINE S == {k \in 0..n : r[k] \in Nat}
  <2>1. 0 \in S
    BY <1>8
  <2>2. ASSUME NEW k \in 1..n, k - 1 \in S PROVE k \in S
    <3>1. r[k - 1] \in Nat /\ Weight(p, s[k]) \in Nat /\ k \in 0..n
      BY <1>1, <2>2, WeightType
    <3>2. r[k] \in Nat
      BY <1>9, <3>1
    <3> QED
      BY <3>1, <3>2, Zenon
  <2>3. 0..n \subseteq S
    <3> HIDE DEF S
    <3> QED
      BY <2>1, <2>2, Inductive
  <2> QED
    BY <2>3
<1>11. Sums(r, p, s)
  BY <1>7, <1>8, <1>9, <1>10 DEF Sums
<1> QED
  BY <1>11

LEMMA TimesRun == ASSUME NEW p, NEW s \in Seq(Entry) PROVE \E r : Sums(r, p, s)
<1>1. PICK n \in Nat : n = Len(s)
  OBVIOUS
<1> QED
  BY <1>1, TimesRunOf

LEMMA TimesType == ASSUME NEW p, NEW s \in Seq(Entry) PROVE Times(p, s) \in Nat
<1>1. PICK r : Sums(r, p, s)
  BY TimesRun
<1> QED
  BY <1>1 DEF Sums

LEMMA TimesOfNone == ASSUME NEW p PROVE Times(p, <<>>) = 0
<1>1. <<>> \in Seq(Entry) /\ Len(<<>>) = 0
  OBVIOUS
<1>2. PICK r : Sums(r, p, <<>>)
  BY <1>1, TimesRun
<1> QED
  BY <1>1, <1>2 DEF Sums

LEMMA TimesAppend ==
  ASSUME NEW p, NEW s \in Seq(Entry), NEW e \in Entry
  PROVE  Times(p, Append(s, e)) = Times(p, s) + Weight(p, e)
<1>1. PICK n \in Nat : n = Len(s)
  OBVIOUS
<1>2. Append(s, e) \in Seq(Entry) /\ Len(Append(s, e)) = n + 1
  BY <1>1
<1>3. PICK r : Sums(r, p, s)
  BY TimesRun
<1>4. PICK q : Sums(q, p, Append(s, e))
  BY <1>2, TimesRun
<1> DEFINE S == {k \in 0..n : q[k] = r[k]}
<1>5. 0 \in S
  BY <1>3, <1>4 DEF Sums
<1>6. ASSUME NEW k \in 1..n, k - 1 \in S PROVE k \in S
  <2>1. Append(s, e)[k] = s[k] /\ k \in 0..n /\ k \in 1..Len(Append(s, e))
    BY <1>1, <1>2
  <2>2. q[k] = r[k]
    BY <1>1, <1>3, <1>4, <1>6, <2>1 DEF Sums
  <2> QED
    BY <2>1, <2>2, Zenon
<1>7. 0..n \subseteq S
  <2> HIDE DEF S
  <2> QED
    BY <1>5, <1>6, Inductive
<1>8. q[n] = r[n]
  BY <1>7
<1>9. Append(s, e)[n + 1] = e /\ n + 1 \in 1..Len(Append(s, e)) /\ n + 1 - 1 = n
  BY <1>1, <1>2
<1> QED
  BY <1>1, <1>2, <1>3, <1>4, <1>8, <1>9 DEF Sums

LEMMA TimesTail ==
  ASSUME NEW p, NEW s \in Seq(Entry), s # <<>>
  PROVE  Times(p, s) = Times(p, Tail(s)) + Weight(p, s[1])
<1>1. PICK n \in Nat : n = Len(Tail(s))
  OBVIOUS
<1>2. Tail(s) \in Seq(Entry) /\ Len(s) = n + 1 /\ s[1] \in Entry
  BY <1>1
<1>3. PICK r : Sums(r, p, s)
  BY TimesRun
<1>4. PICK q : Sums(q, p, Tail(s))
  BY <1>2, TimesRun
<1> DEFINE S == {k \in 0..n : r[k + 1] = q[k] + Weight(p, s[1])}
<1>5. 0 \in S
  <2>1. r[0 + 1] = r[0] + Weight(p, s[1]) /\ Weight(p, s[1]) \in Nat
    BY <1>2, <1>3, WeightType DEF Sums
  <2>2. r[0] = 0 /\ q[0] = 0 /\ 0 \in 0..n
    BY <1>3, <1>4 DEF Sums
  <2> QED
    BY <2>1, <2>2
<1>6. ASSUME NEW k \in 1..n, k - 1 \in S PROVE k \in S
  <2>1. Tail(s)[k] = s[k + 1] /\ k \in 0..n /\ k + 1 \in 1..Len(s) /\ s[k + 1] \in Entry
    BY <1>1, <1>2
  <2>2. r[k + 1] = r[k] + Weight(p, s[k + 1])
    BY <1>3, <2>1 DEF Sums
  <2>3. q[k] = q[k - 1] + Weight(p, s[k + 1]) /\ q[k - 1] \in Nat
    BY <1>1, <1>4, <2>1 DEF Sums
  <2>4. r[k] = q[k - 1] + Weight(p, s[1])
    BY <1>6
  <2>5. Weight(p, s[1]) \in Nat /\ Weight(p, s[k + 1]) \in Nat
    BY <1>2, <2>1, WeightType
  <2>6. r[k + 1] = q[k] + Weight(p, s[1])
    BY <2>2, <2>3, <2>4, <2>5
  <2> QED
    BY <2>1, <2>6, Zenon
<1>7. 0..n \subseteq S
  <2> HIDE DEF S
  <2> QED
    BY <1>5, <1>6, Inductive
<1>8. r[n + 1] = q[n] + Weight(p, s[1])
  BY <1>7
<1> QED
  BY <1>1, <1>2, <1>3, <1>4, <1>8 DEF Sums

(* An entry changed changes the sum by as much.                              *)
LEMMA TimesChanged ==
  ASSUME NEW p, NEW s \in Seq(Entry), NEW i \in 1..Len(s), NEW e \in Entry
  PROVE  Times(p, [s EXCEPT ![i] = e]) = Times(p, s) - Weight(p, s[i]) + Weight(p, e)
<1>1. PICK n \in Nat : n = Len(s)
  OBVIOUS
<1>2. PICK t \in Seq(Entry) : t = [s EXCEPT ![i] = e]
  BY ExceptSeq
<1>3. PICK r : Sums(r, p, s)
  BY TimesRun
<1>4. PICK q : Sums(q, p, t)
  BY TimesRun
<1>5. Len(t) = n /\ t[i] = e /\ \A k \in 1..n : k # i => t[k] = s[k]
  BY <1>1, <1>2
<1>6. PICK d \in Int : d = Weight(p, e) - Weight(p, s[i])
  <2>1. Weight(p, e) \in Nat /\ Weight(p, s[i]) \in Nat
    BY WeightType
  <2> QED
    BY <2>1
<1> DEFINE S == {k \in 0..n : q[k] = r[k] + (IF i <= k THEN d ELSE 0)}
<1>7. 0 \in S
  BY <1>3, <1>4 DEF Sums
<1>8. ASSUME NEW k \in 1..n, k - 1 \in S PROVE k \in S
  <2>1. k \in 0..n /\ s[k] \in Entry /\ Weight(p, s[k]) \in Nat /\ Weight(p, e) \in Nat
    BY <1>1, WeightType
  <2>2. q[k] = q[k - 1] + Weight(p, t[k]) /\ r[k] = r[k - 1] + Weight(p, s[k]) /\ r[k - 1] \in Nat
    BY <1>1, <1>3, <1>4, <1>5 DEF Sums
  <2>3. q[k - 1] = r[k - 1] + (IF i <= k - 1 THEN d ELSE 0)
    BY <1>8
  <2>4. CASE k = i
    BY <1>5, <1>6, <2>1, <2>2, <2>3, <2>4
  <2>5. CASE k # i
    <3>1. t[k] = s[k] /\ (i <= k <=> i <= k - 1)
      BY <1>5, <2>5
    <3>2. q[k] = r[k] + (IF i <= k THEN d ELSE 0)
      BY <1>6, <2>1, <2>2, <2>3, <3>1
    <3> QED
      BY <2>1, <3>2
  <2> QED
    BY <2>4, <2>5
<1>9. 0..n \subseteq S
  <2> HIDE DEF S
  <2> QED
    BY <1>7, <1>8, Inductive
<1>10. q[n] = r[n] + d
  BY <1>1, <1>9
<1>11. Weight(p, e) \in Nat /\ Weight(p, s[i]) \in Nat
  BY WeightType
<1> QED
  BY <1>1, <1>2, <1>3, <1>4, <1>5, <1>6, <1>10, <1>11 DEF Sums

(* Folding. *)

Traces == [ring : Seq(Entry), pending : Entry \cup {NoEntry}, serial : Nat,
           fallen : [Packets -> Nat]]

(* An exchange held back repeats the last but one.                           *)
TraceOK(t) ==
  /\ t \in Traces /\ Len(t.ring) <= TraceMax
  /\ t.pending # NoEntry =>
       /\ Len(t.ring) >= 2 /\ t.pending.repeat = 1
       /\ Key(t.pending) = Key(t.ring[Len(t.ring) - 1])

Counted(p, t) == Times(p, t.ring) + t.fallen[p]
HeldBack(t) == IF t.pending = NoEntry THEN <<>> ELSE <<t.pending>>

LEMMA TimesOfOne == ASSUME NEW p, NEW e \in Entry PROVE Times(p, <<e>>) = Weight(p, e)
<1>1. <<>> \in Seq(Entry) /\ Append(<<>>, e) = <<e>>
  OBVIOUS
<1>2. Times(p, <<e>>) = 0 + Weight(p, e)
  BY <1>1, TimesAppend, TimesOfNone
<1> QED
  BY <1>2, WeightType

LEMMA EntryFacts ==
  ASSUME NEW e \in Entry
  PROVE  /\ e # NoEntry /\ Key(e) \in Packets /\ e.repeat \in Nat /\ e.serial \in Nat
         /\ Bumped(e) \in Entry /\ Key(Bumped(e)) = Key(e) /\ Bumped(e).repeat = e.repeat + 1
         /\ \A m \in Nat : /\ [e EXCEPT !.serial = m] \in Entry
                           /\ Key([e EXCEPT !.serial = m]) = Key(e)
                           /\ [e EXCEPT !.serial = m].repeat = e.repeat
                           /\ [e EXCEPT !.serial = m].serial = m
<1>1. e \in [to_host : BOOLEAN, data : Sent \cup Received, repeat : Nat, serial : Nat]
      /\ Key(e) \in Packets
  BY DEF Entry
<1>2. e # NoEntry
  <2>1. DOMAIN e = {"to_host", "data", "repeat", "serial"}
    BY <1>1
  <2>2. DOMAIN <<>> = {}
    OBVIOUS
  <2> QED
    BY <2>1, <2>2 DEF NoEntry
<1>3. Bumped(e) \in Entry /\ Key(Bumped(e)) = Key(e) /\ Bumped(e).repeat = e.repeat + 1
  BY <1>1 DEF Bumped, Entry, Key
<1>4. ASSUME NEW m \in Nat
      PROVE  /\ [e EXCEPT !.serial = m] \in Entry
             /\ Key([e EXCEPT !.serial = m]) = Key(e)
             /\ [e EXCEPT !.serial = m].repeat = e.repeat
             /\ [e EXCEPT !.serial = m].serial = m
  BY <1>1 DEF Entry, Key
<1> QED
  BY <1>1, <1>2, <1>3, <1>4

(* Same packets have the same key. *)
LEMMA SameKey ==
  ASSUME NEW a \in Entry, NEW b \in Entry
  PROVE  Same(a, b) <=> Key(a) = Key(b)
BY DEF Same, Key

LEMMA PushCounts ==
  ASSUME TraceBounds, NEW t \in Traces, Len(t.ring) <= TraceMax, NEW e \in Entry
  PROVE  LET u == Push(t, e)
         IN  /\ u \in Traces /\ Len(u.ring) <= TraceMax /\ Len(u.ring) >= 1
             /\ u.ring[Len(u.ring)] = e /\ Last(u.ring) = e
             /\ u.pending = t.pending /\ u.serial = t.serial
             /\ \A p \in Packets : Counted(p, u) = Counted(p, t) + Weight(p, e)
<1> DEFINE u == Push(t, e)
<1>1. PICK n \in Nat : n = Len(t.ring)
  BY DEF Traces
<1>2. CASE n < TraceMax
  <2>1. u = [t EXCEPT !.ring = Append(@, e)]
    BY <1>1, <1>2 DEF Push
  <2>2. /\ Append(t.ring, e) \in Seq(Entry) /\ Len(Append(t.ring, e)) = n + 1
        /\ Append(t.ring, e)[n + 1] = e
    BY <1>1 DEF Traces
  <2>3. u.ring = Append(t.ring, e) /\ u.pending = t.pending /\ u.serial = t.serial
        /\ u.fallen = t.fallen /\ u \in Traces
    BY <2>1, <2>2 DEF Traces
  <2>4. ASSUME NEW p \in Packets PROVE Counted(p, u) = Counted(p, t) + Weight(p, e)
    <3>1. Times(p, u.ring) = Times(p, t.ring) + Weight(p, e)
      BY <2>3, TimesAppend DEF Traces
    <3>2. Times(p, t.ring) \in Nat /\ Weight(p, e) \in Nat /\ t.fallen[p] \in Nat
      BY TimesType, WeightType DEF Traces
    <3> QED
      BY <2>3, <3>1, <3>2 DEF Counted
  <2> HIDE DEF u
  <2>5. Len(u.ring) = n + 1 /\ u.ring[Len(u.ring)] = e
    BY <2>2, <2>3
  <2>6. Last(u.ring) = e
    BY <2>5 DEF Last
  <2> QED
    BY <1>2, <2>3, <2>4, <2>5, <2>6 DEF u, TraceBounds
<1>3. CASE n = TraceMax
  <2> DEFINE h == Head(t.ring)
  <2>1. u = [t EXCEPT !.ring = Append(Tail(@), e), !.fallen[Key(h)] = @ + h.repeat]
    BY <1>1, <1>3 DEF Push
  <2>2. /\ n >= 1 /\ t.ring # <<>> /\ h = t.ring[1] /\ h \in Entry /\ Tail(t.ring) \in Seq(Entry)
        /\ Len(Tail(t.ring)) = n - 1
    <3>1. n >= 1 /\ t.ring \in Seq(Entry) /\ Len(t.ring) = n
      BY <1>1, <1>3 DEF Traces, TraceBounds
    <3> HIDE DEF u
    <3> QED
      BY <3>1
  <2>3. /\ Append(Tail(t.ring), e) \in Seq(Entry) /\ Len(Append(Tail(t.ring), e)) = n
        /\ Append(Tail(t.ring), e)[n] = e
    BY <1>1, <2>2
  <2>4. Key(h) \in Packets /\ h.repeat \in Nat
    BY <2>2, EntryFacts
  <2> HIDE DEF h
  <2>5. /\ u.ring = Append(Tail(t.ring), e) /\ u.pending = t.pending /\ u.serial = t.serial
        /\ u.fallen = [t.fallen EXCEPT ![Key(h)] = @ + h.repeat]
    BY <2>1 DEF Traces
  <2>6. u.fallen \in [Packets -> Nat]
    BY <2>4, <2>5 DEF Traces
  <2>7. u \in Traces
    BY <2>1, <2>3, <2>5, <2>6 DEF Traces
  <2>8. ASSUME NEW p \in Packets PROVE Counted(p, u) = Counted(p, t) + Weight(p, e)
    <3>1. Times(p, u.ring) = Times(p, Tail(t.ring)) + Weight(p, e)
      <4>1. Times(p, Append(Tail(t.ring), e)) = Times(p, Tail(t.ring)) + Weight(p, e)
        BY <2>2, TimesAppend
      <4> QED
        BY <2>5, <4>1
    <3>2. Times(p, t.ring) = Times(p, Tail(t.ring)) + Weight(p, h)
      BY <2>2, TimesTail DEF Traces
    <3>3. u.fallen[p] = t.fallen[p] + Weight(p, h)
      BY <2>4, <2>5 DEF Weight, Traces
    <3>4. /\ Times(p, Tail(t.ring)) \in Nat /\ Weight(p, e) \in Nat /\ Weight(p, h) \in Nat
          /\ t.fallen[p] \in Nat
      BY <2>2, TimesType, WeightType DEF Traces
    <3> QED
      BY <3>1, <3>2, <3>3, <3>4 DEF Counted
  <2> HIDE DEF u
  <2>9. Len(u.ring) = n /\ u.ring[Len(u.ring)] = e
    BY <2>3, <2>5
  <2>10. Last(u.ring) = e
    BY <2>9 DEF Last
  <2> QED
    BY <1>3, <2>2, <2>5, <2>7, <2>8, <2>9, <2>10 DEF u
<1>4. n <= TraceMax
  BY <1>1
<1> QED
  BY <1>1, <1>2, <1>3, <1>4 DEF TraceBounds

(* Of p: in the ring, fallen out of it, and held back. *)
Total(p, t) == Counted(p, t) + Times(p, HeldBack(t))
Newest(t) == IF t.pending = NoEntry THEN t.ring[Len(t.ring)] ELSE t.pending

(* What adding an entry to t makes of it.                                    *)
Added(v, t, e) ==
  /\ TraceOK(v) /\ v.serial = t.serial + 1 /\ Len(v.ring) >= 1
  /\ Key(Newest(v)) = Key(e) /\ Newest(v).serial = v.serial
  /\ \A p \in Packets : Total(p, v) = Total(p, t) + Weight(p, e)

LEMMA CountTypes ==
  ASSUME NEW t \in Traces, NEW p \in Packets
  PROVE  Counted(p, t) \in Nat /\ Times(p, HeldBack(t)) \in Nat
<1>1. Times(p, t.ring) \in Nat /\ t.fallen[p] \in Nat
  BY TimesType DEF Traces
<1>2. HeldBack(t) \in Seq(Entry)
  BY DEF HeldBack, Traces
<1>3. Times(p, HeldBack(t)) \in Nat
  BY <1>2, TimesType
<1> QED
  BY <1>1, <1>3 DEF Counted

LEMMA AddPlainAdds ==
  ASSUME TraceBounds, NEW t, TraceOK(t), t.pending = NoEntry,
         NEW entry \in Entry, entry.repeat = 1
  PROVE  Added(AddPlain(t, entry), t, entry)
<1>1. PICK n \in Nat : n = Len(t.ring)
  BY DEF Traces, TraceOK
<1>2. PICK m \in Nat : m = t.serial
  BY DEF Traces, TraceOK
<1>3. PICK e \in Entry : e = [entry EXCEPT !.serial = m + 1] /\ e.repeat = 1 /\ e.serial = m + 1
                         /\ Key(e) = Key(entry)
  <2>1. m + 1 \in Nat
    OBVIOUS
  <2>2. /\ [entry EXCEPT !.serial = m + 1] \in Entry
        /\ Key([entry EXCEPT !.serial = m + 1]) = Key(entry)
        /\ [entry EXCEPT !.serial = m + 1].repeat = entry.repeat
        /\ [entry EXCEPT !.serial = m + 1].serial = m + 1
    BY <2>1, EntryFacts
  <2> QED
    BY <2>2
<1>4. PICK u \in Traces : u = [t EXCEPT !.serial = m + 1]
  <2>1. t \in Traces /\ m + 1 \in Nat
    BY DEF TraceOK
  <2> QED
    BY <2>1 DEF Traces
<1>5. u.ring = t.ring /\ u.fallen = t.fallen /\ u.pending = NoEntry /\ u.serial = m + 1
  BY <1>4 DEF Traces, TraceOK
<1>6. t.ring \in Seq(Entry) /\ t.fallen \in [Packets -> Nat] /\ n <= TraceMax
  BY <1>1 DEF Traces, TraceOK
<1>7. \A p \in Packets : Weight(p, e) = Weight(p, entry) /\ Weight(p, e) \in Nat
  BY <1>3, WeightType DEF Weight
<1>8. \A p \in Packets : /\ Total(p, t) = Counted(p, t) /\ Counted(p, u) = Counted(p, t)
                         /\ Counted(p, t) \in Nat
  <2>1. HeldBack(t) = <<>>
    BY DEF HeldBack
  <2> QED
    BY <1>5, <2>1, TimesOfNone, CountTypes DEF Total, Counted, TraceOK
<1> DEFINE v == AddPlain(t, entry)
<1>9. CASE n >= 1 /\ Same(e, t.ring[n])
  <2>1. PICK b \in Entry : /\ b = [Bumped(t.ring[n]) EXCEPT !.serial = m + 1]
                           /\ Key(b) = Key(t.ring[n]) /\ b.serial = m + 1
                           /\ b.repeat = t.ring[n].repeat + 1
    <3>1. t.ring[n] \in Entry
      BY <1>1, <1>6, <1>9
    <3>2. Bumped(t.ring[n]) \in Entry /\ Key(Bumped(t.ring[n])) = Key(t.ring[n])
          /\ Bumped(t.ring[n]).repeat = t.ring[n].repeat + 1
      BY <3>1, EntryFacts
    <3>3. m + 1 \in Nat
      OBVIOUS
    <3>4. /\ [Bumped(t.ring[n]) EXCEPT !.serial = m + 1] \in Entry
          /\ Key([Bumped(t.ring[n]) EXCEPT !.serial = m + 1]) = Key(Bumped(t.ring[n]))
          /\ [Bumped(t.ring[n]) EXCEPT !.serial = m + 1].repeat = Bumped(t.ring[n]).repeat
          /\ [Bumped(t.ring[n]) EXCEPT !.serial = m + 1].serial = m + 1
      BY <3>2, <3>3, EntryFacts
    <3> QED
      BY <3>2, <3>4
  <2>2. v = [u EXCEPT !.ring[n] = b]
    <3>1. v = [u EXCEPT !.ring[n] = [Bumped(@) EXCEPT !.serial = e.serial]]
      BY <1>1, <1>2, <1>3, <1>4, <1>9 DEF AddPlain
    <3> QED
      BY <1>3, <1>5, <2>1, <3>1
  <2>3. /\ [t.ring EXCEPT ![n] = b] \in Seq(Entry) /\ Len([t.ring EXCEPT ![n] = b]) = n
        /\ [t.ring EXCEPT ![n] = b][n] = b
    BY <1>1, <1>6, <1>9, <2>1, ExceptSeq
  <2>4. /\ v.ring = [t.ring EXCEPT ![n] = b] /\ v.fallen = t.fallen /\ v.pending = NoEntry
        /\ v.serial = m + 1 /\ v \in Traces
    BY <1>4, <1>5, <1>6, <2>2, <2>3 DEF Traces
  <2>5. Key(b) = Key(entry)
    BY <1>1, <1>3, <1>6, <1>9, <2>1, SameKey
  <2>6. ASSUME NEW p \in Packets PROVE Total(p, v) = Total(p, t) + Weight(p, entry)
    <3>1. Times(p, v.ring) = Times(p, t.ring) - Weight(p, t.ring[n]) + Weight(p, b)
      BY <1>1, <1>6, <1>9, <2>1, <2>4, TimesChanged
    <3>2. Weight(p, b) = Weight(p, t.ring[n]) + Weight(p, entry) /\ Weight(p, t.ring[n]) \in Nat
      <4>1. t.ring[n] \in Entry /\ t.ring[n].repeat \in Nat
        BY <1>1, <1>6, <1>9, EntryFacts
      <4> QED
        BY <2>1, <2>5, <4>1 DEF Weight
    <3>3. Times(p, v.ring) \in Nat /\ Times(p, t.ring) \in Nat /\ t.fallen[p] \in Nat
          /\ Weight(p, entry) \in Nat
      BY <1>6, <2>3, <2>4, TimesType, WeightType
    <3>4. Total(p, v) = Counted(p, v)
      <4>1. HeldBack(v) = <<>>
        BY <2>4 DEF HeldBack
      <4> HIDE DEF v
      <4>2. Counted(p, v) \in Nat
        BY <2>4, CountTypes
      <4> QED
        BY <4>1, <4>2, TimesOfNone DEF Total
    <3> HIDE DEF v
    <3> QED
      BY <1>8, <2>4, <3>1, <3>2, <3>3, <3>4 DEF Counted
  <2> HIDE DEF v
  <2>7. Newest(v) = b
    BY <2>3, <2>4 DEF Newest
  <2> QED
    BY <1>2, <1>6, <1>9, <2>1, <2>3, <2>4, <2>5, <2>6, <2>7 DEF Added, TraceOK, v
<1>10. CASE ~(n >= 1 /\ Same(e, t.ring[n]))
            /\ n >= 2 /\ Same(e, t.ring[n - 1]) /\ ~Same(e, t.ring[n])
            /\ t.ring[n - 1].repeat = t.ring[n].repeat
  <2>1. v = [u EXCEPT !.pending = e]
    BY <1>1, <1>2, <1>3, <1>4, <1>10 DEF AddPlain
  <2>2. /\ v.ring = t.ring /\ v.fallen = t.fallen /\ v.pending = e /\ v.serial = m + 1
        /\ v \in Traces
    BY <1>4, <1>5, <1>6, <2>1 DEF Traces
  <2>3. e # NoEntry
    BY EntryFacts
  <2>4. Key(e) = Key(t.ring[n - 1])
    BY <1>1, <1>6, <1>10, SameKey
  <2> HIDE DEF v
  <2>5. ASSUME NEW p \in Packets PROVE Total(p, v) = Total(p, t) + Weight(p, entry)
    <3>1. HeldBack(v) = <<e>>
      BY <2>2, <2>3 DEF HeldBack
    <3> QED
      BY <1>7, <1>8, <2>2, <3>1, TimesOfOne DEF Total, Counted
  <2>6. Newest(v) = e
    BY <2>2, <2>3 DEF Newest
  <2> QED
    BY <1>1, <1>2, <1>3, <1>6, <1>10, <2>2, <2>4, <2>5, <2>6 DEF Added, TraceOK, v
<1>11. CASE /\ ~(n >= 1 /\ Same(e, t.ring[n]))
            /\ ~(n >= 2 /\ Same(e, t.ring[n - 1]) /\ ~Same(e, t.ring[n])
                 /\ t.ring[n - 1].repeat = t.ring[n].repeat)
  <2>1. v = Push(u, e)
    BY <1>1, <1>2, <1>3, <1>4, <1>11 DEF AddPlain
  <2> HIDE DEF v
  <2>2. /\ v \in Traces /\ Len(v.ring) <= TraceMax /\ Len(v.ring) >= 1
        /\ v.ring[Len(v.ring)] = e /\ v.pending = NoEntry /\ v.serial = m + 1
        /\ \A p \in Packets : Counted(p, v) = Counted(p, u) + Weight(p, e)
    BY <1>1, <1>5, <1>6, <2>1, PushCounts
  <2>3. ASSUME NEW p \in Packets PROVE Total(p, v) = Total(p, t) + Weight(p, entry)
    <3>1. HeldBack(v) = <<>>
      BY <2>2 DEF HeldBack
    <3> QED
      BY <1>7, <1>8, <2>2, <3>1, TimesOfNone DEF Total
  <2>4. Newest(v) = e
    BY <2>2 DEF Newest
  <2> QED
    BY <1>2, <1>3, <2>2, <2>3, <2>4 DEF Added, TraceOK, v
<1> QED
  BY <1>9, <1>10, <1>11

LEMMA AddRepeats ==
  ASSUME TraceBounds, NEW t, TraceOK(t), t.pending # NoEntry, NEW e \in Entry, e.repeat = 1,
         Same(e, t.ring[Len(t.ring)])
  PROVE  Added(Add(t, e), t, e)
<1>1. PICK n \in Nat : n = Len(t.ring)
  BY DEF Traces, TraceOK
<1>2. PICK m \in Nat : m = t.serial
  BY DEF Traces, TraceOK
<1>3. /\ t \in Traces /\ t.ring \in Seq(Entry) /\ t.fallen \in [Packets -> Nat] /\ n <= TraceMax
      /\ n >= 2 /\ t.pending \in Entry /\ t.pending.repeat = 1
      /\ Key(t.pending) = Key(t.ring[n - 1])
  BY <1>1 DEF Traces, TraceOK
<1>4. /\ n \in 1..Len(t.ring) /\ n - 1 \in 1..Len(t.ring) /\ n - 1 # n
      /\ t.ring[n] \in Entry /\ t.ring[n - 1] \in Entry
  BY <1>1, <1>3
<1>5. PICK a \in Entry : /\ a = Bumped(t.ring[n - 1]) /\ Key(a) = Key(t.pending)
                         /\ a.repeat = t.ring[n - 1].repeat + 1
  BY <1>3, <1>4, EntryFacts
<1>6. PICK b \in Entry : /\ b = [Bumped(t.ring[n]) EXCEPT !.serial = m + 1]
                         /\ Key(b) = Key(t.ring[n]) /\ b.serial = m + 1
                         /\ b.repeat = t.ring[n].repeat + 1
  <2>1. Bumped(t.ring[n]) \in Entry /\ Key(Bumped(t.ring[n])) = Key(t.ring[n])
        /\ Bumped(t.ring[n]).repeat = t.ring[n].repeat + 1
    BY <1>4, EntryFacts
  <2>2. m + 1 \in Nat
    OBVIOUS
  <2>3. /\ [Bumped(t.ring[n]) EXCEPT !.serial = m + 1] \in Entry
        /\ Key([Bumped(t.ring[n]) EXCEPT !.serial = m + 1]) = Key(Bumped(t.ring[n]))
        /\ [Bumped(t.ring[n]) EXCEPT !.serial = m + 1].repeat = Bumped(t.ring[n]).repeat
        /\ [Bumped(t.ring[n]) EXCEPT !.serial = m + 1].serial = m + 1
    BY <2>1, <2>2, EntryFacts
  <2> QED
    BY <2>1, <2>3
<1>7. Key(b) = Key(e)
  BY <1>1, <1>4, <1>6, SameKey
<1>8. PICK g \in Seq(Entry) : /\ g = [t.ring EXCEPT ![n - 1] = a] /\ Len(g) = n
                              /\ g[n] = t.ring[n] /\ g[n - 1] = a
  <2>1. /\ [t.ring EXCEPT ![n - 1] = a] \in Seq(Entry)
        /\ Len([t.ring EXCEPT ![n - 1] = a]) = Len(t.ring)
    BY <1>3, <1>4, <1>5, ExceptSeq
  <2>2. DOMAIN t.ring = 1..n
    BY <1>1, <1>3
  <2>3. [t.ring EXCEPT ![n - 1] = a][n] = t.ring[n] /\ [t.ring EXCEPT ![n - 1] = a][n - 1] = a
    BY <1>1, <1>4, <2>2
  <2> QED
    BY <1>1, <2>1, <2>3
<1>9. PICK h \in Seq(Entry) : /\ h = [g EXCEPT ![n] = b] /\ Len(h) = n
                              /\ h[n] = b /\ h[n - 1] = a
  <2>1. n \in 1..Len(g) /\ n - 1 \in 1..Len(g) /\ DOMAIN g = 1..n
    BY <1>1, <1>4, <1>8
  <2>2. [g EXCEPT ![n] = b] \in Seq(Entry) /\ Len([g EXCEPT ![n] = b]) = Len(g)
    BY <1>6, <2>1, ExceptSeq
  <2>3. [g EXCEPT ![n] = b][n] = b /\ [g EXCEPT ![n] = b][n - 1] = g[n - 1]
    BY <1>1, <1>4, <1>8, <2>1
  <2> QED
    BY <1>8, <2>2, <2>3
<1> DEFINE v == Add(t, e)
<1>10. v = [t EXCEPT !.pending = NoEntry, !.serial = m + 1, !.ring = h]
  <2>1. v = [[t EXCEPT !.pending = NoEntry]
               EXCEPT !.serial = @ + 1, !.ring[n - 1] = Bumped(@),
                      !.ring[n] = [Bumped(@) EXCEPT !.serial = m + 1]]
    BY <1>1, <1>2 DEF Add
  <2> HIDE DEF v
  <2>2. PICK y : y = [t EXCEPT !.pending = NoEntry]
    OBVIOUS
  <2>3. y.ring = t.ring /\ y.serial = m
    BY <1>2, <1>3, <2>2 DEF Traces
  <2>4. v = [y EXCEPT !.serial = @ + 1, !.ring[n - 1] = Bumped(@),
                      !.ring[n] = [Bumped(@) EXCEPT !.serial = m + 1]]
    BY <2>1, <2>2
  <2>5. PICK z : z = [y EXCEPT !.serial = @ + 1, !.ring[n - 1] = Bumped(@)]
    OBVIOUS
  <2>6. y \in Traces
    BY <1>3, <2>2 DEF Traces
  <2>7. z = [y EXCEPT !.serial = m + 1, !.ring = g]
    BY <1>5, <1>8, <2>3, <2>5, <2>6 DEF Traces
  <2>8. z.ring = g /\ z.ring[n] = t.ring[n]
    BY <1>8, <2>6, <2>7 DEF Traces
  <2>9. v = [z EXCEPT !.ring[n] = b]
    BY <1>6, <2>3, <2>4, <2>5, <2>8
  <2>10. v = [z EXCEPT !.ring = h]
    BY <1>9, <2>8, <2>9
  <2> QED
    BY <2>2, <2>6, <2>7, <2>10 DEF Traces
<1> HIDE DEF v
<1>11. /\ v.ring = h /\ v.pending = NoEntry /\ v.serial = m + 1 /\ v.fallen = t.fallen
       /\ v \in Traces
  <2>1. h \in Seq(Entry) /\ m + 1 \in Nat /\ t \in Traces
    BY <1>3, <1>9
  <2> QED
    BY <1>10, <2>1 DEF Traces
<1>12. ASSUME NEW p \in Packets PROVE Total(p, v) = Total(p, t) + Weight(p, e)
  <2>1. Times(p, g) = Times(p, t.ring) - Weight(p, t.ring[n - 1]) + Weight(p, a)
    BY <1>3, <1>4, <1>5, <1>8, TimesChanged
  <2>2. Times(p, h) = Times(p, g) - Weight(p, g[n]) + Weight(p, b)
    <3>1. n \in 1..Len(g)
      BY <1>1, <1>4, <1>8
    <3> QED
      <4>1. Times(p, [g EXCEPT ![n] = b]) = Times(p, g) - Weight(p, g[n]) + Weight(p, b)
        BY <1>6, <1>8, <3>1, TimesChanged
      <4> QED
        BY <1>9, <4>1
  <2>3. /\ Times(p, t.ring) \in Nat /\ Times(p, g) \in Nat /\ Times(p, h) \in Nat
        /\ t.fallen[p] \in Nat /\ Weight(p, t.ring[n - 1]) \in Nat /\ Weight(p, t.ring[n]) \in Nat
        /\ Weight(p, t.pending) \in Nat /\ Weight(p, e) \in Nat
    BY <1>3, <1>4, TimesType, WeightType
  <2>4. Weight(p, a) = Weight(p, t.ring[n - 1]) + Weight(p, t.pending)
    BY <1>3, <1>4, <1>5, EntryFacts DEF Weight
  <2>5. Weight(p, b) = Weight(p, t.ring[n]) + Weight(p, e)
    BY <1>4, <1>6, <1>7, EntryFacts DEF Weight
  <2>6. Total(p, t) = Times(p, t.ring) + t.fallen[p] + Weight(p, t.pending)
    BY <1>3, TimesOfOne DEF Total, Counted, HeldBack
  <2>7. Total(p, v) = Times(p, h) + t.fallen[p]
    <3>1. Times(p, HeldBack(v)) = 0
      BY <1>11, TimesOfNone DEF HeldBack
    <3> QED
      BY <1>11, <2>3, <3>1 DEF Total, Counted
  <2> QED
    BY <1>8, <2>1, <2>2, <2>3, <2>4, <2>5, <2>6, <2>7
<1>13. Newest(v) = b
  BY <1>9, <1>11 DEF Newest
<1> QED
  BY <1>2, <1>3, <1>6, <1>7, <1>9, <1>11, <1>12, <1>13 DEF Added, TraceOK, v

(* Whatever is folded or held back, what is added is counted, and is the newest. *)
LEMMA AddAdds ==
  ASSUME TraceBounds, NEW t, TraceOK(t), NEW e \in Entry, e.repeat = 1
  PROVE  Added(Add(t, e), t, e)
<1>1. CASE t.pending = NoEntry
  BY <1>1, AddPlainAdds DEF Add
<1>2. CASE t.pending # NoEntry /\ Same(e, t.ring[Len(t.ring)])
  BY <1>2, AddRepeats
<1>3. CASE t.pending # NoEntry /\ ~Same(e, t.ring[Len(t.ring)])
  <2> DEFINE u == [t EXCEPT !.pending = NoEntry]
             w == Push(u, t.pending)
  <2>1. Add(t, e) = AddPlain(w, e)
    BY <1>3 DEF Add
  <2>2. /\ u \in Traces /\ u.ring = t.ring /\ u.pending = NoEntry /\ u.serial = t.serial
        /\ u.fallen = t.fallen /\ Len(u.ring) <= TraceMax /\ t.pending \in Entry
    BY <1>3 DEF Traces, TraceOK
  <2> HIDE DEF u
  <2>3. /\ w \in Traces /\ Len(w.ring) <= TraceMax /\ w.pending = NoEntry /\ w.serial = t.serial
        /\ \A p \in Packets : Counted(p, w) = Counted(p, u) + Weight(p, t.pending)
    BY <2>2, PushCounts
  <2> HIDE DEF w
  <2>4. TraceOK(w)
    BY <2>3 DEF TraceOK
  <2>5. Added(AddPlain(w, e), w, e)
    BY <2>3, <2>4, AddPlainAdds
  <2>6. ASSUME NEW p \in Packets PROVE Total(p, w) = Total(p, t)
    <3>1. Total(p, w) = Counted(p, w)
      <4>1. Times(p, HeldBack(w)) = 0
        BY <2>3, TimesOfNone DEF HeldBack
      <4> QED
        BY <2>3, <4>1, CountTypes DEF Total
    <3>2. Total(p, t) = Counted(p, t) + Weight(p, t.pending)
      BY <1>3, <2>2, TimesOfOne DEF Total, HeldBack
    <3> QED
      BY <2>2, <2>3, <3>1, <3>2 DEF Counted
  <2> QED
    BY <2>1, <2>3, <2>5, <2>6 DEF Added
<1> QED
  BY <1>1, <1>2, <1>3

(* One packet tapped. *)

EntryOf(d, to_host) == [to_host |-> to_host, data |-> d, repeat |-> 1, serial |-> 1]

LEMMA FoldOfOne ==
  ASSUME NEW u, NEW d, NEW h
  PROVE  FoldLeft(LAMBDA v, x : Add(v, EntryOf(x, h)), u, <<d>>) = Add(u, EntryOf(d, h))
<1> DEFINE Eq(it) == it = [S \in SUBSET (DOMAIN <<d>>) |->
                             IF S = {} THEN u
                             ELSE Add(it[S \ {Max(S)}], EntryOf(<<d>>[Max(S)], h))]
           iter == CHOOSE it : Eq(it)
           one == [S \in SUBSET (1..1) |-> IF S = {} THEN u ELSE Add(u, EntryOf(d, h))]
<1>1. DOMAIN <<d>> = 1..1 /\ <<d>>[1] = d
  OBVIOUS
<1>2. Eq(one)
  <2>1. ASSUME NEW S \in SUBSET (1..1), S # {}
        PROVE  one[S] = Add(one[S \ {Max(S)}], EntryOf(<<d>>[Max(S)], h))
    <3>1. Max(S) = 1 /\ S \ {Max(S)} = {}
      <4>1. Max(S) \in S
        BY <2>1, MaxIsIn
      <4> QED
        <5>1. \A x \in 1..1 : x = 1
          OBVIOUS
        <5>2. Max(S) = 1
          BY <4>1, <5>1
        <5>3. \A x \in S : x = 1
          BY <5>1
        <5> QED
          BY <5>2, <5>3
    <3>2. one[{}] = u /\ one[S] = Add(u, EntryOf(d, h))
      BY <2>1
    <3> HIDE DEF one
    <3> QED
      BY <1>1, <3>1, <3>2
  <2>2. one[{}] = u
    OBVIOUS
  <2>3. one = [S \in SUBSET (1..1) |-> one[S]]
    OBVIOUS
  <2> HIDE DEF one
  <2> QED
    BY <1>1, <2>1, <2>2, <2>3
<1>3. Eq(iter)
  BY <1>2
<1>4. FoldLeft(LAMBDA v, x : Add(v, EntryOf(x, h)), u, <<d>>) = iter[DOMAIN <<d>>]
  BY DEF FoldLeft, MapThenFoldSet
<1>5. iter[{}] = u
  BY <1>3
<1>6. iter[1..1] = Add(iter[(1..1) \ {Max(1..1)}], EntryOf(<<d>>[Max(1..1)], h))
  <2>1. 1..1 \in SUBSET (DOMAIN <<d>>) /\ 1..1 # {}
    BY <1>1
  <2> QED
    BY <1>3, <2>1
<1>7. Max(1..1) = 1 /\ (1..1) \ {1} = {}
  <2>1. 1 \in Nat /\ 1 # 0
    OBVIOUS
  <2>2. Max(1..1) = 1
    BY <2>1, MaxOfSegment
  <2> QED
    BY <2>2
<1> HIDE DEF iter
<1> QED
  BY <1>1, <1>4, <1>5, <1>6, <1>7

LEMMA PairFacts ==
  ASSUME NEW A, NEW B, NEW p \in A \X B
  PROVE  p = <<p[1], p[2]>> /\ p[1] \in A /\ p[2] \in B
OBVIOUS

(* What a tap adds: one entry, of the packet that was sent.                   *)
LEMMA TapAdds ==
  ASSUME TraceBounds, TraceOK(Trace), NEW p \in Packets, Tap(p)
  PROVE  /\ Trace' = Add(Trace, EntryOf(p[1], p[2]))
         /\ EntryOf(p[1], p[2]) \in Entry /\ Key(EntryOf(p[1], p[2])) = p
         /\ EntryOf(p[1], p[2]).repeat = 1
         /\ fed' = Append(fed, p) /\ UNCHANGED view
<1>1. /\ p[1] \in Sent \cup Received /\ p[2] \in BOOLEAN /\ p = <<p[1], p[2]>>
  <2>1. CASE p \in Sent \X {FALSE}
    <3>1. p = <<p[1], p[2]>> /\ p[1] \in Sent /\ p[2] \in {FALSE}
      BY <2>1, PairFacts
    <3> QED
      BY <3>1, Zenon
  <2>2. CASE p \in Received \X {TRUE}
    <3>1. p = <<p[1], p[2]>> /\ p[1] \in Received /\ p[2] \in {TRUE}
      <4>1. PICK B : B = {TRUE}
        OBVIOUS
      <4>2. p \in Received \X B
        BY <2>2, <4>1
      <4>3. p = <<p[1], p[2]>> /\ p[1] \in Received /\ p[2] \in B
        BY <4>2, PairFacts
      <4> QED
        BY <4>1, <4>3, Zenon
    <3> QED
      BY <3>1, Zenon
  <2> QED
    BY <2>1, <2>2 DEF Packets
<1>2. p[1] \in Bytes /\ p[1] # <<>>
  BY <1>1 DEF TraceBounds, Bytes
<1>3. Frames(Slip(p[1])) = <<p[1]>>
  <2>1. PICK n \in Nat : n = Len(p[1])
    BY <1>2 DEF Bytes
  <2> QED
    BY <1>2, <2>1, Decodes
<1>4. fed' = Append(fed, p) /\ UNCHANGED view /\ Feed(p[2], Slip(p[1]))
  BY DEF Tap
<1> DEFINE t == Add(Trace, EntryOf(p[1], p[2]))
<1>5. FoldLeft(LAMBDA u, x : Add(u, EntryOf(x, p[2])), Trace, Frames(Slip(p[1]))) = t
  BY <1>3, FoldOfOne
<1>6. ring' = t.ring /\ pending' = t.pending /\ serial' = t.serial /\ fallen' = t.fallen
  BY <1>4, <1>5 DEF Feed, EntryOf
<1>7. /\ EntryOf(p[1], p[2]) \in Entry /\ Key(EntryOf(p[1], p[2])) = p
      /\ EntryOf(p[1], p[2]).repeat = 1
  BY <1>1 DEF EntryOf, Entry, Key
<1>9. t \in Traces
  BY <1>7, AddAdds DEF Added, TraceOK
<1> HIDE DEF t
<1>8. Trace' = [ring |-> t.ring, pending |-> t.pending, serial |-> t.serial, fallen |-> t.fallen]
  BY <1>6 DEF Trace
<1> QED
  <2>1. t = [ring |-> t.ring, pending |-> t.pending, serial |-> t.serial, fallen |-> t.fallen]
    BY <1>9 DEF Traces
  <2>2. Trace' = t
    BY <1>8, <2>1
  <2> QED
    BY <1>4, <1>7, <2>2 DEF t

(* The invariant: what the trace says of the wire, and the list of a window  *)
(* of the trace. A serial that only grows, and a newest line that bears it,  *)
(* are why a list with the newest serial need not be redrawn.                *)

WireIsTold ==
  /\ fed \in Seq(Packets)
  /\ \A p \in Packets : Total(p, Trace) = Fed(p)
  /\ fed # <<>> => ring # <<>> /\ Key(Newest(Trace)) = Last(fed)
  /\ ring # <<>> => Newest(Trace).serial = serial

ListIsOf ==
  /\ m_fujiCount \in Int /\ m_fujiLast \in Nat /\ m_fujiLast <= serial
  /\ m_fujiCount >= 0 => listed \in Seq(Entry) /\ Len(listed) = m_fujiCount
  /\ m_fujiCount = Len(Copy) /\ (ring # <<>> => m_fujiLast = serial) => listed = Copy

TraceInv == TraceOK(Trace) /\ WireIsTold /\ ListIsOf

LEMMA TraceFacts ==
  ASSUME TraceOK(Trace)
  PROVE  /\ ring \in Seq(Entry) /\ pending \in Entry \cup {NoEntry} /\ serial \in Nat
         /\ fallen \in [Packets -> Nat] /\ Len(ring) <= TraceMax
         /\ pending # NoEntry => Len(ring) >= 2
BY DEF TraceOK, Traces, Trace

(* What a window copies ends with the newest. *)
LEMMA CopyIsNewest ==
  ASSUME TraceBounds, TraceOK(Trace)
  PROVE  /\ Copy \in Seq(Entry)
         /\ Copy = <<>> <=> ring = <<>>
         /\ ring # <<>> => Last(Copy) = Newest(Trace)
<1>1. PICK n \in Nat : n = Len(ring)
  BY TraceFacts
<1>2. /\ ring \in Seq(Entry) /\ pending \in Entry \cup {NoEntry} /\ n <= TraceMax
      /\ pending # NoEntry => n >= 2
  BY <1>1, TraceFacts
<1>3. TraceMax \in Nat /\ TraceMax >= 1
  BY DEF TraceBounds
<1>4. Newest(Trace) = IF pending = NoEntry THEN ring[n] ELSE pending
  BY <1>1 DEF Newest, Trace
<1>5. CASE pending = NoEntry
  <2>1. Copy = ring
    BY <1>1, <1>2, <1>3, <1>5 DEF Copy
  <2> QED
    BY <1>1, <1>2, <1>4, <1>5, <2>1 DEF Last
<1>6. CASE pending # NoEntry
  <2>1. PICK all \in Seq(Entry) : /\ all = Append(ring, pending) /\ Len(all) = n + 1
                                  /\ all[n + 1] = pending
    <3>1. pending \in Entry
      BY <1>2, <1>6
    <3>2. /\ Append(ring, pending) \in Seq(Entry) /\ Len(Append(ring, pending)) = n + 1
          /\ Append(ring, pending)[n + 1] = pending
      BY <1>1, <1>2, <3>1
    <3> QED
      BY <3>2
  <2>2. CASE n + 1 > TraceMax
    <3>1. Copy = Tail(all)
      BY <1>6, <2>1, <2>2 DEF Copy
    <3>2. Tail(all) \in Seq(Entry) /\ Len(Tail(all)) = n /\ Tail(all)[n] = pending
      BY <1>2, <1>6, <2>1
    <3>3. Copy # <<>> /\ ring # <<>>
      BY <1>1, <1>2, <1>6, <3>1, <3>2
    <3>4. Last(Copy) = pending
      BY <3>1, <3>2 DEF Last
    <3> QED
      BY <1>4, <1>6, <3>1, <3>2, <3>3, <3>4
  <2>3. CASE ~(n + 1 > TraceMax)
    <3>1. Copy = all
      BY <1>6, <2>1, <2>3 DEF Copy
    <3>2. Copy # <<>> /\ ring # <<>> /\ Last(Copy) = pending
      BY <1>1, <1>2, <1>6, <2>1, <3>1 DEF Last
    <3> QED
      BY <1>4, <1>6, <2>1, <3>1, <3>2
  <2> QED
    BY <2>2, <2>3
<1> QED
  BY <1>5, <1>6

(* One more packet is one more of its kind. *)
LEMMA FedMore ==
  ASSUME NEW p, NEW q \in Packets, fed \in Seq(Packets), fed' = Append(fed, q)
  PROVE  Fed(p)' = Fed(p) + (IF q = p THEN 1 ELSE 0) /\ Fed(p) \in Nat
<1>1. PICK n \in Nat : n = Len(fed)
  OBVIOUS
<1> DEFINE T == {i \in 1..n : fed[i] = p}
<1>2. IsFiniteSet(T) /\ Cardinality(T) \in Nat /\ n + 1 \notin T
  <2>1. IsFiniteSet(1..n)
    BY FS_Interval
  <2>2. T \in SUBSET (1..n)
    OBVIOUS
  <2>3. IsFiniteSet(T)
    BY <2>1, <2>2, FS_Subset
  <2>4. Cardinality(T) \in Nat
    BY <2>3, FS_CardinalityType
  <2> QED
    BY <2>3, <2>4
<1>3. Fed(p) = Cardinality(T)
  <2>1. {i \in DOMAIN fed : fed[i] = p} = T
    BY <1>1
  <2> HIDE DEF T
  <2> QED
    BY <2>1 DEF Fed
<1>4. {i \in DOMAIN fed' : fed'[i] = p} = IF q = p THEN T \cup {n + 1} ELSE T
  <2>1. DOMAIN fed' = 1..(n + 1) /\ fed'[n + 1] = q /\ \A i \in 1..n : fed'[i] = fed[i]
    BY <1>1
  <2> QED
    BY <2>1
<1> HIDE DEF T
<1>5. Fed(p)' = Cardinality(IF q = p THEN T \cup {n + 1} ELSE T)
  BY <1>4 DEF Fed
<1>6. Cardinality(T \cup {n + 1}) = Cardinality(T) + 1
  BY <1>2, FS_AddElement
<1> QED
  BY <1>2, <1>3, <1>5, <1>6

LEMMA TraceStarts ==
  ASSUME TraceBounds, TraceInit
  PROVE  TraceInv
<1>1. /\ ring = <<>> /\ pending = NoEntry /\ serial = 0 /\ fed = <<>>
      /\ listed = <<>> /\ m_fujiCount = -1 /\ m_fujiLast = 0
      /\ fallen = [p \in Packets |-> 0]
  BY DEF TraceInit
<1>2. <<>> \in Seq(Entry) /\ Len(<<>>) = 0 /\ <<>> \in Seq(Packets)
  OBVIOUS
<1>3. TraceOK(Trace)
  BY <1>1, <1>2 DEF TraceOK, Trace, Traces, TraceBounds
<1>4. WireIsTold
  <2>1. ASSUME NEW p \in Packets PROVE Total(p, Trace) = Fed(p)
    <3>1. Times(p, <<>>) = 0
      BY TimesOfNone
    <3>2. Total(p, Trace) = 0
      BY <1>1, <3>1 DEF Total, Counted, HeldBack, Trace
    <3>3. {i \in DOMAIN fed : fed[i] = p} = {}
      BY <1>1
    <3>4. Fed(p) = 0
      BY <3>3, FS_EmptySet DEF Fed
    <3> QED
      BY <3>2, <3>4
  <2> QED
    BY <1>1, <1>2, <2>1 DEF WireIsTold
<1>5. ListIsOf
  BY <1>1, <1>2, <1>3, CopyIsNewest DEF ListIsOf
<1> QED
  BY <1>3, <1>4, <1>5 DEF TraceInv

LEMMA TapKeepsTraceInv ==
  ASSUME TraceBounds, TraceInv, NEW p \in Packets, Tap(p)
  PROVE  TraceInv'
<1>1. TraceOK(Trace) /\ WireIsTold /\ ListIsOf
  BY DEF TraceInv
<1>2. PICK e \in Entry : /\ Trace' = Add(Trace, e) /\ e.repeat = 1 /\ Key(e) = p
                         /\ fed' = Append(fed, p) /\ UNCHANGED view
  <2>1. /\ Trace' = Add(Trace, EntryOf(p[1], p[2]))
        /\ EntryOf(p[1], p[2]) \in Entry /\ Key(EntryOf(p[1], p[2])) = p
        /\ EntryOf(p[1], p[2]).repeat = 1
        /\ fed' = Append(fed, p) /\ UNCHANGED view
    BY <1>1, TapAdds
  <2> QED
    BY <2>1
<1>3. Added(Trace', Trace, e)
  BY <1>1, <1>2, AddAdds
<1>4. /\ TraceOK(Trace)' /\ serial' = serial + 1 /\ Len(ring') >= 1
      /\ Key(Newest(Trace)') = p /\ Newest(Trace)'.serial = serial'
      /\ \A q \in Packets : Total(q, Trace)' = Total(q, Trace) + Weight(q, e)
  <2>1. Trace'.serial = serial' /\ Trace.serial = serial /\ Trace'.ring = ring'
    BY DEF Trace
  <2>2. /\ TraceOK(Trace') /\ Trace'.serial = Trace.serial + 1 /\ Len(Trace'.ring) >= 1
        /\ Key(Newest(Trace')) = Key(e) /\ Newest(Trace').serial = Trace'.serial
        /\ \A q \in Packets : Total(q, Trace') = Total(q, Trace) + Weight(q, e)
    BY <1>3 DEF Added
  <2>3. TraceOK(Trace)' = TraceOK(Trace')
    BY DEF TraceOK
  <2>4. Newest(Trace)' = Newest(Trace')
    BY DEF Newest
  <2>5. \A q : Total(q, Trace)' = Total(q, Trace')
    BY DEF Total, Counted, HeldBack
  <2> QED
    BY <1>2, <2>1, <2>2, <2>3, <2>4, <2>5
<1>5. serial \in Nat
  BY <1>1, TraceFacts
<1>6. ring' # <<>>
  BY <1>4
<1>7. WireIsTold'
  <2>1. fed \in Seq(Packets)
    BY <1>1 DEF WireIsTold
  <2>2. fed' \in Seq(Packets) /\ Last(fed') = p
    BY <1>2, <2>1 DEF Last
  <2>3. ASSUME NEW q \in Packets PROVE Total(q, Trace)' = Fed(q)'
    <3>1. Weight(q, e) = IF p = q THEN 1 ELSE 0
      BY <1>2 DEF Weight
    <3>2. Fed(q)' = Fed(q) + (IF p = q THEN 1 ELSE 0)
      BY <1>2, <2>1, FedMore
    <3> QED
      BY <1>1, <1>4, <3>1, <3>2 DEF WireIsTold
  <2> QED
    BY <1>4, <1>6, <2>2, <2>3 DEF WireIsTold
<1>8. ListIsOf'
  <2>1. /\ m_fujiCount' = m_fujiCount /\ m_fujiLast' = m_fujiLast /\ listed' = listed
    BY <1>2 DEF view
  <2>2. m_fujiLast' <= serial' /\ m_fujiLast' # serial'
    BY <1>1, <1>4, <1>5, <2>1 DEF ListIsOf
  <2> QED
    BY <1>1, <1>6, <2>1, <2>2 DEF ListIsOf
<1> QED
  BY <1>4, <1>7, <1>8 DEF TraceInv

LEMMA RefreshKeepsTraceInv ==
  ASSUME TraceBounds, TraceInv, Refresh
  PROVE  TraceInv'
<1>1. TraceOK(Trace) /\ WireIsTold /\ ListIsOf
  BY DEF TraceInv
<1>2. /\ ring' = ring /\ pending' = pending /\ serial' = serial /\ fed' = fed
      /\ fallen' = fallen
  BY DEF Refresh, trace, told
<1>3. Trace' = Trace /\ Copy' = Copy
  BY <1>2 DEF Trace, Copy
<1>4. TraceOK(Trace)'
  <2>1. TraceOK(Trace)' = TraceOK(Trace')
    BY DEF TraceOK
  <2> QED
    BY <1>1, <1>3, <2>1
<1>5. WireIsTold'
  <2>1. \A p : Total(p, Trace)' = Total(p, Trace) /\ Fed(p)' = Fed(p)
    BY <1>2, <1>3 DEF Total, Counted, HeldBack, Fed
  <2>2. Newest(Trace)' = Newest(Trace)
    BY <1>3 DEF Newest
  <2> QED
    BY <1>1, <1>2, <2>1, <2>2 DEF WireIsTold
<1>6. serial \in Nat
  BY <1>1, TraceFacts
<1>7. ListIsOf'
  <2>1. CASE UNCHANGED <<listed, m_fujiCount, m_fujiLast>>
    BY <1>1, <1>2, <1>3, <2>1 DEF ListIsOf
  <2>2. CASE /\ listed' = Copy /\ m_fujiCount' = Len(Copy)
             /\ m_fujiLast' = IF Copy = <<>> THEN 0 ELSE Last(Copy).serial
    <3>1. Copy \in Seq(Entry) /\ Len(Copy) \in Nat
      BY <1>1, CopyIsNewest
    <3>2. m_fujiLast' \in Nat /\ m_fujiLast' <= serial'
      BY <1>1, <1>2, <1>6, <2>2, CopyIsNewest DEF WireIsTold
    <3> QED
      BY <1>3, <2>2, <3>1, <3>2 DEF ListIsOf
  <2> QED
    BY <2>1, <2>2 DEF Refresh
<1> QED
  BY <1>4, <1>5, <1>7 DEF TraceInv

LEMMA ClearKeepsTraceInv ==
  ASSUME TraceBounds, TraceInv, ClearButton
  PROVE  TraceInv'
<1>1. TraceOK(Trace) /\ WireIsTold /\ ListIsOf
  BY DEF TraceInv
<1>2. /\ ring' = <<>> /\ pending' = NoEntry /\ fed' = <<>>
      /\ fallen' = [p \in Packets |-> 0] /\ serial' = serial /\ listed' = listed
      /\ m_fujiCount' = m_fujiCount /\ m_fujiLast' = m_fujiLast
  BY DEF ClearButton
<1>3. <<>> \in Seq(Entry) /\ Len(<<>>) = 0 /\ <<>> \in Seq(Packets) /\ serial \in Nat
  BY <1>1, TraceFacts
<1>4. TraceOK(Trace)'
  <2>1. Trace' = [ring |-> <<>>, pending |-> NoEntry, serial |-> serial,
                  fallen |-> [p \in Packets |-> 0]]
    BY <1>2 DEF Trace
  <2>2. Trace' \in Traces /\ Trace'.ring = <<>> /\ Trace'.pending = NoEntry
    BY <1>3, <2>1 DEF Traces
  <2>3. TraceOK(Trace')
    BY <1>3, <2>2 DEF TraceOK, TraceBounds
  <2>4. TraceOK(Trace)' = TraceOK(Trace')
    BY DEF TraceOK
  <2> QED
    BY <2>3, <2>4
<1>5. WireIsTold'
  <2>1. ASSUME NEW p \in Packets PROVE Total(p, Trace)' = Fed(p)'
    <3>1. Times(p, <<>>) = 0
      BY TimesOfNone
    <3>2. Total(p, Trace)' = 0
      BY <1>2, <3>1 DEF Total, Counted, HeldBack, Trace
    <3>3. {i \in DOMAIN fed' : fed'[i] = p} = {}
      BY <1>2
    <3>4. Fed(p)' = 0
      BY <3>3, FS_EmptySet DEF Fed
    <3> QED
      BY <3>2, <3>4
  <2> QED
    BY <1>2, <1>3, <2>1 DEF WireIsTold
<1>6. ListIsOf'
  <2>1. Copy' = <<>>
    BY <1>2, <1>3 DEF Copy, TraceBounds
  <2>2. m_fujiCount = 0 => listed = <<>>
    <3>1. m_fujiCount = 0 => listed \in Seq(Entry) /\ Len(listed) = 0
      BY <1>1 DEF ListIsOf
    <3> QED
      BY <3>1
  <2> QED
    BY <1>1, <1>2, <1>3, <2>1, <2>2 DEF ListIsOf
<1> QED
  BY <1>4, <1>5, <1>6 DEF TraceInv

LEMMA TraceInvHolds == ASSUME TraceBounds PROVE TraceSpec => []TraceInv
<1>1. TraceInit => TraceInv
  BY TraceStarts
<1>2. TraceInv /\ [TraceNext]_traceVars => TraceInv'
  <2> SUFFICES ASSUME TraceInv, [TraceNext]_traceVars PROVE TraceInv'
    OBVIOUS
  <2>1. CASE \E p \in Packets : Tap(p)
    BY <2>1, TapKeepsTraceInv
  <2>2. CASE Refresh
    BY <2>2, RefreshKeepsTraceInv
  <2>3. CASE ClearButton
    BY <2>3, ClearKeepsTraceInv
  <2>4. CASE UNCHANGED traceVars
    <3>1. /\ ring' = ring /\ pending' = pending /\ serial' = serial /\ fed' = fed
          /\ fallen' = fallen /\ listed' = listed /\ m_fujiCount' = m_fujiCount
          /\ m_fujiLast' = m_fujiLast
      BY <2>4 DEF traceVars, trace, view, told
    <3> QED
      BY <3>1 DEF TraceInv, TraceOK, WireIsTold, ListIsOf, Trace, Copy, Total, Counted,
                  HeldBack, Newest, Fed
  <2> QED
    BY <2>1, <2>2, <2>3, <2>4 DEF TraceNext
<1> QED
  BY <1>1, <1>2, PTL DEF TraceSpec

LEMMA TraceInvTells == ASSUME TraceBounds, TraceInv PROVE TraceIsTrue
<1>1. TraceOK(Trace) /\ WireIsTold /\ ListIsOf
  BY DEF TraceInv
<1>2. /\ Copy = <<>> <=> ring = <<>>
      /\ ring # <<>> => Last(Copy) = Newest(Trace)
  BY <1>1, CopyIsNewest
<1>3. CountsAddUp
  <2>1. ASSUME NEW p \in Packets
        PROVE  Times(p, ring) + Times(p, IF pending = NoEntry THEN <<>> ELSE <<pending>>)
                 + fallen[p] = Fed(p)
    <3>1. Trace \in Traces
      BY <1>1 DEF TraceOK
    <3>2. HeldBack(Trace) \in Seq(Entry) /\ Times(p, HeldBack(Trace)) \in Nat
      BY <3>1, CountTypes, TraceFacts, <1>1 DEF HeldBack, Trace
    <3>3. Times(p, ring) \in Nat /\ fallen[p] \in Nat
      BY <1>1, TraceFacts, TimesType
    <3>4. Times(p, ring) + fallen[p] + Times(p, HeldBack(Trace)) = Fed(p)
      BY <1>1 DEF WireIsTold, Total, Counted, Trace
    <3>5. HeldBack(Trace) = IF pending = NoEntry THEN <<>> ELSE <<pending>>
      BY DEF HeldBack, Trace
    <3> QED
      BY <3>2, <3>3, <3>4, <3>5
  <2>2. fed # <<>> => Key(Last(Copy)) = Last(fed)
    BY <1>1, <1>2 DEF WireIsTold
  <2> QED
    BY <2>1, <2>2 DEF CountsAddUp
<1>4. SameMarkSameTrace
  BY <1>1, <1>2 DEF SameMarkSameTrace, WireIsTold, ListIsOf
<1> QED
  BY <1>3, <1>4 DEF TraceIsTrue

(* The trace of the debugger tells what was on the wire: however exchanges   *)
(* were folded, held back and dropped, each packet is counted as often as it *)
(* was sent, decoded to its own bytes, and the newest line is the newest     *)
(* packet; and a window whose count of lines and newest serial are those of  *)
(* the trace shows what the trace holds.                                     *)
THEOREM TheTraceTellsTheWire ==
  ASSUME TraceBounds
  PROVE  TraceSpec => []TraceIsTrue
BY TraceInvHolds, TraceInvTells, PTL

(* A refresh leaves the list as the trace is, redrawn or not: when it looks  *)
(* at the two marks and leaves the list alone, nothing had changed           *)
(* (refreshFujinet).                                                         *)
THEOREM TheListIsTheTrace ==
  ASSUME TraceBounds
  PROVE  TraceSpec => [][Refresh => listed' = Copy']_traceVars
<1>1. ASSUME TraceInv, Refresh PROVE listed' = Copy'
  <2>1. Copy' = Copy
    BY <1>1 DEF Refresh, trace, Copy
  <2>2. CASE forced \/ Len(Copy) # m_fujiCount
               \/ (Copy # <<>> /\ Last(Copy).serial # m_fujiLast)
    BY <1>1, <2>1, <2>2 DEF Refresh
  <2>3. CASE ~(forced \/ Len(Copy) # m_fujiCount
               \/ (Copy # <<>> /\ Last(Copy).serial # m_fujiLast))
    <3>1. listed' = listed
      BY <1>1, <2>3 DEF Refresh
    <3>2. listed = Copy
      BY <1>1, <2>3, TraceInvTells DEF TraceIsTrue, SameMarkSameTrace
    <3> QED
      BY <2>1, <3>1, <3>2
  <2> QED
    BY <2>2, <2>3
<1> QED
  BY <1>1, TraceInvHolds, PTL
=============================================================================
