---------------------------- MODULE DebugWindow ----------------------------
(***************************************************************************)
(* The debugger window of KDE (frontends/kde/debugger/DebuggerWindow.cpp). *)
(* Its refresh, resync, reads the state, the count of stops and the        *)
(* generation, in this order, and then draws. The count is that of a       *)
(* callback on the machine thread.                                         *)
(***************************************************************************)
EXTENDS WindowEngine

\* countStop, called by park_locked
CountStop == Announce(TRUE)

\* resync: is the machine stopped?
ReadStopped ==
  /\ gui = "resync" /\ Go("stops")
  /\ saw_stopped' = stopped
  /\ UNCHANGED <<engine, view, seen, saw_gen, drawn, unnoted>>

\* ... how many stops were there? A new one is noted, unless a step says so
\* itself.
ReadStops ==
  /\ gui = "stops" /\ Go("gen")
  /\ unnoted' = (unnoted /\ ~(saw_stopped /\ counted /\ why # "step"))
  /\ counted' = FALSE
  /\ was_stopped' = saw_stopped
  /\ UNCHANGED <<engine, view, moved, locals, drawn>>

\* ... the generation
ReadGen == NoteGen("gen", "status")

DrawStatus ==
  /\ gui = "status" /\ Go("page")
  /\ status' = StatusNow
  /\ UNCHANGED <<engine, view, seen, locals, page_current, unnoted>>

\* Faulty: what was seen is noted once the page is drawn.
NotePageLast ==
  /\ gui = "page" /\ Go("idle")
  /\ page_current' = stopped
  /\ was_stopped' = stopped /\ moved' = FALSE
  /\ UNCHANGED <<engine, view, counted, locals, status, unnoted>>

RefreshPage == DrawPage

\* Running with nothing new, every fifth tick draws the live pages: status and
\* all but the disassembly.
Polled ==
  /\ gui = "polled"
  /\ \/ Due(saw_gen) /\ Go("resync") /\ UNCHANGED drawn
     \/ ~Due(saw_gen) /\ Go("idle") /\ UNCHANGED drawn
     \/ ~Due(saw_gen) /\ ~stopped /\ Go("idle")
        /\ status' = "Running" /\ UNCHANGED page_current
  /\ UNCHANGED <<engine, view, seen, locals, unnoted>>

\* QTimer::singleShot(0)
Queued(what) ==
  /\ gui = "idle" /\ what \in queued
  /\ queued' = queued \ {what}
  /\ IF what = "settle" /\ ~shown THEN UNCHANGED gui ELSE Go(what)
  /\ UNCHANGED <<engine, shown, minimised, timer, notice, seen, locals, drawn, unnoted>>

\* The buttons of a breakpoint's row, and syncLater
EditRow ==
  /\ gui = "idle" /\ shown
  /\ Edited
  /\ queued' = queued \cup {"resync"}
  /\ UNCHANGED <<shown, minimised, timer, notice, gui>>

\* showEvent
Show ==
  /\ gui = "idle" /\ ~shown
  /\ shown' = TRUE /\ timer' = TRUE /\ minimised' = FALSE
  /\ Attach
  /\ was_stopped' = FALSE /\ moved' = TRUE
  /\ queued' = queued \cup {"settle"}
  /\ UNCHANGED <<notice, gui, counted, locals, drawn, unnoted>>

\* hideEvent
Hide ==
  /\ gui = "idle" /\ shown
  /\ shown' = FALSE /\ timer' = FALSE
  /\ Detach
  /\ UNCHANGED <<minimised, queued, notice, gui>>

\* hideEvent of a window that goes to the taskbar
Minimise ==
  /\ gui = "idle" /\ shown /\ ~minimised
  /\ minimised' = TRUE /\ timer' = FALSE
  /\ UNCHANGED <<engine, shown, queued, notice, gui, seen, locals, drawn, unnoted>>

\* Faulty: a spontaneous show is left to the one that attached.
RestoreSilently ==
  /\ gui = "idle" /\ shown /\ minimised
  /\ minimised' = FALSE
  /\ UNCHANGED <<engine, shown, timer, queued, notice, gui, seen, locals, drawn, unnoted>>

\* showEvent of one that comes back
Restore ==
  /\ gui = "idle" /\ shown /\ minimised
  /\ minimised' = FALSE /\ timer' = TRUE
  /\ UNCHANGED <<engine, shown, queued, notice, gui, seen, locals, drawn, unnoted>>

-----------------------------------------------------------------------------
Announces == CountStop \/ Wake
Resync == Settle("resync") \/ ReadStopped \/ ReadStops \/ ReadGen \/ DrawStatus \/ RefreshPage
Handler == Resync \/ Polled \/ Stop \/ Join

Next ==
  \/ Park \/ Break \/ Announces
  \/ Handler \/ Tick
  \/ \E what \in {"settle", "resync"} : Queued(what)
  \/ Run("resync") \/ AskStop \/ Step \/ Edit("resync") \/ EditRow \/ DrawPageOnly
  \/ Show \/ Hide \/ Minimise \/ Restore
  \/ SessionStart \/ SessionStop

Spec == Init /\ [][Next]_vars

\* A handler goes on, the machine thread announces what it stopped for, and the
\* timer fires however often other events come first. The user owes nothing.
Fairness == WF_vars(Handler) /\ WF_vars(Announces) /\ SF_vars(Tick)
=============================================================================
