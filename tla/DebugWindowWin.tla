--------------------------- MODULE DebugWindowWin ---------------------------
(***************************************************************************)
(* The debugger window of Windows (frontends/windows/debugger/             *)
(* dbg_window.c). Its refresh, resync, reads the state, then the           *)
(* generation, and writes to the console when the state has become stopped *)
(* since the last one. A notice holds the status line for four seconds.    *)
(***************************************************************************)
EXTENDS WindowEngine

\* settle_and_sync: the machine moved, its new state replaces a notice
SettleAndSync ==
  /\ gui = "settle" /\ Go("resync")
  /\ notice' = "none"
  /\ UNCHANGED <<engine, shown, minimised, timer, queued, seen, locals, drawn, unnoted>>

\* resync: a stop since the last one is noted, console_stop
NoteStop ==
  /\ gui = "resync" /\ Go("gen")
  /\ unnoted' = (unnoted /\ ~(stopped /\ ~was_stopped))
  /\ was_stopped' = stopped
  /\ UNCHANGED <<engine, view, moved, counted, locals, drawn>>

SeenGen == NoteGen("gen", "status")

\* refresh_status
Line(held) == IF held THEN "notice" ELSE StatusNow

RefreshStatus ==
  /\ gui = "status" /\ Go("page")
  /\ status' = Line(notice = "showing")
  /\ UNCHANGED <<engine, view, seen, locals, page_current, unnoted>>

RefreshPage == DrawPage

\* tick: a notice that has expired gives the line back, then the poll
TimerTick ==
  /\ gui = "idle" /\ timer /\ shown
  /\ Go("polled") /\ saw_gen' = moved
  /\ \/ notice # "expired" /\ UNCHANGED <<notice, status>>
     \/ notice = "expired" /\ notice' = "none" /\ status' = StatusNow
  /\ UNCHANGED <<engine, shown, minimised, timer, queued, seen, saw_stopped, page_current,
                 unnoted>>

\* ... something new: a stop, or a go, says so at once
Polled ==
  /\ gui = "polled"
  /\ \/ /\ Due(saw_gen) /\ Go("resync")
        /\ notice' = IF stopped # was_stopped THEN "none" ELSE notice
     \/ ~Due(saw_gen) /\ Go("idle") /\ UNCHANGED notice
     \/ ~Due(saw_gen) /\ ~stopped /\ Go("status") /\ UNCHANGED notice
  /\ UNCHANGED <<engine, shown, minimised, timer, queued, seen, locals, drawn, unnoted>>

\* toast, which draws the line at once; its time passes
Toast ==
  /\ gui = "idle" /\ shown
  /\ notice' = "showing" /\ status' = Line(TRUE)
  /\ UNCHANGED <<engine, shown, minimised, timer, queued, gui, seen, locals,
                 page_current, unnoted>>

Expire ==
  /\ notice = "showing" /\ notice' = "expired"
  /\ UNCHANGED <<engine, shown, minimised, timer, queued, gui, seen, locals, drawn,
                 unnoted>>

\* a box of the breakpoint list: the refresh comes by WM_DBG_SYNC, after the list
EditRow ==
  /\ gui = "idle" /\ shown
  /\ Edited
  /\ queued' = queued \cup {"resync"}
  /\ UNCHANGED <<shown, minimised, timer, notice, gui>>

SyncMessage ==
  /\ gui = "idle" /\ queued # {}
  /\ queued' = {} /\ Go("resync")
  /\ UNCHANGED <<engine, shown, minimised, timer, notice, seen, locals, drawn, unnoted>>

\* astro_debugger_show, of a window that shows: it attaches again unless the machine
\* is stopped, which may stop before it does
ShowAgain ==
  /\ gui = "idle" /\ shown
  /\ Go(IF stopped THEN "resync" ELSE "attach")
  /\ UNCHANGED <<engine, view, seen, locals, drawn, unnoted>>

\* ... and of one that does not; attach_and_refresh notes the new generation at once
AttachAndRefresh ==
  /\ \/ gui = "attach"
     \/ gui = "idle" /\ ~shown
  /\ shown' = TRUE /\ timer' = TRUE
  /\ Attach /\ was_stopped' = FALSE /\ moved' = FALSE /\ Go("settle")
  /\ UNCHANGED <<minimised, queued, notice, counted, locals, drawn, unnoted>>

HideWindow ==
  /\ gui = "idle" /\ shown
  /\ shown' = FALSE /\ timer' = FALSE
  /\ Detach
  /\ UNCHANGED <<minimised, queued, notice, gui>>

-----------------------------------------------------------------------------
Announces == Announce(FALSE) \/ Wake
Resync == SettleAndSync \/ NoteStop \/ SeenGen \/ RefreshStatus \/ RefreshPage
Handler == Resync \/ Polled \/ Stop \/ Join \/ (gui = "attach" /\ AttachAndRefresh)

Next ==
  \/ Park \/ Break \/ Announces
  \/ Handler \/ TimerTick \/ Expire
  \/ Run("resync") \/ AskStop \/ Step \/ Edit("resync") \/ Edit("settle")
  \/ EditRow \/ SyncMessage \/ Toast \/ DrawPageOnly
  \/ AttachAndRefresh \/ ShowAgain \/ HideWindow
  \/ SessionStart \/ SessionStop

Spec == Init /\ [][Next]_vars
=============================================================================
