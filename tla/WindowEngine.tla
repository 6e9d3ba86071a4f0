---------------------------- MODULE WindowEngine ----------------------------
(***************************************************************************)
(* What the debugger windows of the four front ends have in common: the    *)
(* engine they can only ask, and the state of a window that polls it.      *)
(*                                                                         *)
(* The machine stops on its own thread, and announces a stop (park_locked  *)
(* of core/debugger/debugger.c) only after it can be seen. Every call into *)
(* the engine holds its mutex: one step each. The engine is DebugEngine's, *)
(* seen from the window: when it stops is a choice. A drawn page is        *)
(* current while nothing it shows has changed, and out of date as soon as  *)
(* the machine runs. Only the GUI thread lets a machine go.                *)
(*                                                                         *)
(* A window's own module says in which order it reads the engine, what it  *)
(* notes, and which of its events lead there. What a front end has not     *)
(* (a minimised state, a queue, a count of stops, a notice) stays as it    *)
(* begins.                                                                 *)
(***************************************************************************)
EXTENDS Integers

VARIABLES
  (* the engine *)
  live,                \* d->m # NULL
  attached, stopped, stop_req,
  why,                 \* the reason: "step" or "other"
  stepping,            \* the release was a step of some kind
  mt,                  \* machine thread: none, run, announce, parked
  (* the window *)
  shown,               \* it is visible
  minimised,           \* ... but on the taskbar
  timer,               \* the poll's timer runs
  gui,                 \* where the GUI thread is
  queued,              \* what will run after other events: "settle", "resync"
  notice,              \* a message holds the status line: none, showing, expired
  moved,               \* the generation is not the one last seen
  counted,             \* stops were counted that were not looked at
  was_stopped,
  saw_gen, saw_stopped,  \* locals
  status,              \* the line: "Running", a stop's reason, "notice"
  page_current,        \* the page drawn is the machine's state
  (* history *)
  unnoted              \* the console has said nothing of the last stop

engine == <<live, attached, stopped, stop_req, why, stepping, mt>>
view == <<shown, minimised, timer, queued, notice>>
seen == <<moved, counted, was_stopped>>
locals == <<saw_gen, saw_stopped>>
drawn == <<status, page_current>>
vars == <<engine, view, gui, seen, locals, drawn, unnoted>>

GuiPlaces == {"idle", "stop", "settle", "resync", "stops", "stopped", "gen", "status",
              "page", "polled", "attach", "join"}

TypeOK ==
  /\ live \in BOOLEAN /\ attached \in BOOLEAN /\ stopped \in BOOLEAN
  /\ stop_req \in BOOLEAN /\ stepping \in BOOLEAN
  /\ why \in {"step", "other"}
  /\ mt \in {"none", "run", "announce", "parked"}
  /\ shown \in BOOLEAN /\ minimised \in BOOLEAN /\ timer \in BOOLEAN
  /\ gui \in GuiPlaces /\ queued \subseteq {"settle", "resync"}
  /\ notice \in {"none", "showing", "expired"}
  /\ moved \in BOOLEAN /\ counted \in BOOLEAN /\ was_stopped \in BOOLEAN
  /\ saw_gen \in BOOLEAN /\ saw_stopped \in BOOLEAN
  /\ status \in {"Running", "step", "other", "notice"} /\ page_current \in BOOLEAN
  /\ unnoted \in BOOLEAN

\* The window is built, and not shown.
Init ==
  /\ live = FALSE /\ attached = FALSE /\ stopped = FALSE /\ stop_req = FALSE
  /\ why = "other" /\ stepping = FALSE /\ mt = "none"
  /\ shown = FALSE /\ minimised = FALSE /\ timer = FALSE
  /\ gui = "idle" /\ queued = {} /\ notice = "none"
  /\ moved = TRUE /\ counted = FALSE /\ was_stopped = FALSE
  /\ saw_gen = FALSE /\ saw_stopped = FALSE
  /\ status = "Running" /\ page_current = FALSE
  /\ unnoted = FALSE

-----------------------------------------------------------------------------
(* The machine thread. *)

Stops(reason) ==
  /\ stopped' = TRUE /\ why' = reason /\ stepping' = FALSE
  /\ moved' = TRUE /\ unnoted' = TRUE
  /\ mt' = "announce"
  /\ UNCHANGED <<live, attached, view, gui, counted, was_stopped, locals, drawn>>

\* park_locked up to its unlock, for a stop asked for, a step or a breakpoint
Park ==
  /\ mt = "run" /\ live /\ attached
  /\ stop_req' = FALSE
  /\ Stops(IF stepping /\ ~stop_req THEN "step" ELSE "other")

\* A breakpoint met by a step that has not ended.
Break ==
  /\ mt = "run" /\ live /\ attached /\ stepping /\ ~stop_req
  /\ Stops("other")
  /\ UNCHANGED stop_req

\* ... the picture, and the callback, which counts where the front end has one
Announce(counts) ==
  /\ mt = "announce"
  /\ counted' = (counted \/ counts)
  /\ mt' = "parked"
  /\ UNCHANGED <<live, attached, stopped, stop_req, why, stepping, view, gui, moved,
                 was_stopped, locals, drawn, unnoted>>

\* ... the loop on the condition variable ends
Wake ==
  /\ mt = "parked" /\ ~stopped
  /\ mt' = "run"
  /\ UNCHANGED <<live, attached, stopped, stop_req, why, stepping, view, gui, seen,
                 locals, drawn, unnoted>>

-----------------------------------------------------------------------------
(* The calls of the GUI thread. *)

Go(place) == gui' = place

\* release_locked, for a step or to run on
Released(by_step) ==
  /\ stopped' = FALSE /\ stop_req' = FALSE /\ stepping' = by_step
  /\ moved' = TRUE /\ page_current' = FALSE
  /\ UNCHANGED <<live, attached, why, mt, counted, was_stopped, locals, status,
                 unnoted>>

\* astrodebug_stop, which a stop of the machine's own may have overtaken
Stop ==
  /\ gui = "stop" /\ Go("settle")
  /\ stop_req' = (stop_req \/ ~stopped)
  /\ UNCHANGED <<live, attached, stopped, why, stepping, mt, view, seen, locals, drawn,
                 unnoted>>

\* astrodebug_attach, which bumps the generation of an attached engine too
Attach ==
  /\ attached' = TRUE
  /\ stop_req' = (stop_req \/ ~attached)
  /\ UNCHANGED <<live, stopped, why, stepping, mt>>

\* astrodebug_detach
Detach ==
  /\ attached' = FALSE /\ stopped' = FALSE /\ stop_req' = FALSE /\ stepping' = FALSE
  /\ moved' = TRUE /\ page_current' = FALSE
  /\ UNCHANGED <<live, why, mt, counted, was_stopped, locals, status, unnoted>>

\* The engine's state is edited (its table, a register, a byte), and its
\* generation with it.
Edited ==
  /\ moved' = TRUE /\ page_current' = FALSE
  /\ UNCHANGED <<engine, counted, was_stopped, locals, status, unnoted>>

\* astrodebug_core_started and astrodebug_core_stopping, from the main window
SessionStart ==
  /\ gui = "idle" /\ mt = "none"
  /\ live' = TRUE /\ mt' = "run"
  /\ stop_req' = attached /\ stopped' = FALSE /\ stepping' = FALSE
  /\ moved' = TRUE /\ page_current' = FALSE
  /\ UNCHANGED <<attached, why, view, gui, counted, was_stopped, locals, status,
                 unnoted>>

SessionStop ==
  /\ gui = "idle" /\ live
  /\ live' = FALSE /\ stopped' = FALSE /\ stop_req' = FALSE /\ stepping' = FALSE
  /\ moved' = TRUE /\ page_current' = FALSE
  /\ Go("join")
  /\ UNCHANGED <<attached, why, mt, view, counted, was_stopped, locals, status, unnoted>>

\* ... and the end of astro_host_stop
Join ==
  /\ gui = "join" /\ mt = "run"
  /\ mt' = "none" /\ Go("idle")
  /\ UNCHANGED <<live, attached, stopped, stop_req, why, stepping, view, seen, locals,
                 drawn, unnoted>>

-----------------------------------------------------------------------------
(* What the windows do alike. *)

\* The wait for a stop ends, with one or without.
Settle(place) ==
  /\ gui = "settle" /\ Go(place)
  /\ UNCHANGED <<engine, view, seen, locals, drawn, unnoted>>

\* The generation is read and noted.
NoteGen(from, to) ==
  /\ gui = from /\ Go(to)
  /\ moved' = FALSE
  /\ UNCHANGED <<engine, view, counted, was_stopped, locals, drawn, unnoted>>

\* The state is read and noted.
NoteStopped(from, to) ==
  /\ gui = from /\ Go(to)
  /\ was_stopped' = stopped
  /\ UNCHANGED <<engine, view, moved, counted, locals, drawn, unnoted>>

\* What a status line says: the state and its reason are two calls, but no stop
\* they could fall between ends without this thread.
StatusNow == IF stopped THEN why ELSE "Running"

\* The page of the tab that shows is drawn.
DrawPage ==
  /\ gui = "page" /\ Go("idle")
  /\ page_current' = stopped
  /\ UNCHANGED <<engine, view, seen, locals, status, unnoted>>

\* ... or outside of a refresh: another tab, a box put back
DrawPageOnly ==
  /\ gui = "idle" /\ shown
  /\ page_current' = stopped
  /\ UNCHANGED <<engine, view, gui, seen, locals, status, unnoted>>

\* The timer: the generation is read first, then the state.
Tick ==
  /\ gui = "idle" /\ timer /\ shown
  /\ Go("polled")
  /\ saw_gen' = moved
  /\ UNCHANGED <<engine, view, seen, saw_stopped, drawn, unnoted>>

Due(gen) == gen \/ stopped # was_stopped

\* The button of a running machine ...
AskStop ==
  /\ gui = "idle" /\ shown /\ ~stopped
  /\ Go("stop")
  /\ UNCHANGED <<engine, view, seen, locals, drawn, unnoted>>

\* ... of a stopped one, which then refreshes from place
Run(place) ==
  /\ gui = "idle" /\ shown /\ stopped
  /\ Released(FALSE) /\ Go(place)
  /\ UNCHANGED view

\* The steps, the run to the cursor, the console's commands that let it go.
Step ==
  /\ gui = "idle" /\ shown /\ stopped
  /\ Released(TRUE) /\ Go("settle")
  /\ UNCHANGED view

\* An edit, and a refresh from place.
Edit(place) ==
  /\ gui = "idle" /\ shown
  /\ Edited /\ Go(place)
  /\ UNCHANGED view

-----------------------------------------------------------------------------
\* Nothing is under way and no tick will do anything.
AtRest ==
  /\ gui = "idle" /\ shown /\ queued = {} /\ notice = "none"
  /\ mt \in {"none", "parked", "run"}
  /\ ~Due(moved)

\* A window that will not draw again shows a stopped machine as it is: no stop
\* or change falls between the reads of a poll.
AtRestIsCurrent ==
  (AtRest /\ stopped) => status = why /\ page_current

\* A stop is shown, unless the machine goes on, the window goes away or a
\* message takes the line first.
StopIsShown ==
  (shown /\ ~minimised /\ stopped)
    ~> \/ status = why /\ page_current
       \/ ~stopped \/ ~shown \/ minimised \/ notice # "none"

\* "a stop that comes and goes between two polls ... still reaches the console"
\* (KDE), "at a stop the console says why" (Windows): at rest, the console has
\* noted the stop the machine is in, if it was not a step's own.
StopsReachTheConsole ==
  (AtRest /\ stopped /\ why # "step") => ~unnoted
=============================================================================
