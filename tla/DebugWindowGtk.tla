--------------------------- MODULE DebugWindowGtk ---------------------------
(***************************************************************************)
(* The debugger window of GNOME (frontends/gnome/debugger/dbg_window.c).   *)
(* Its refresh, refresh_now, notes the generation before it reads anything *)
(* else. The console notes no stops. The timer runs while the window is    *)
(* mapped, which is while it is shown.                                     *)
(***************************************************************************)
EXTENDS WindowEngine

\* refresh_now: the generation, the state, the status line, the page
SeenGeneration == NoteGen("gen", "stopped")
WasStopped == NoteStopped("stopped", "status")

RefreshStatus ==
  /\ gui = "status" /\ Go("page")
  /\ status' = StatusNow
  /\ UNCHANGED <<engine, view, seen, locals, page_current, unnoted>>

RefreshTab == DrawPage

\* tick_refresh: something new, or the fifth tick of a running machine, and all
\* is read again
TickRefresh ==
  /\ gui = "polled"
  /\ \/ (Due(saw_gen) \/ ~stopped) /\ Go("gen")
     \/ ~Due(saw_gen) /\ Go("idle")
  /\ UNCHANGED <<engine, view, seen, locals, drawn, unnoted>>

\* a command typed while the machine runs: stop, an edit
Command ==
  /\ gui = "idle" /\ shown /\ ~stopped
  /\ stop_req' = TRUE /\ Go("gen")
  /\ UNCHANGED <<live, attached, stopped, why, stepping, mt, view, seen, locals, drawn,
                 unnoted>>

\* astro_debugger_show, attach_and_refresh
AttachAndRefresh ==
  /\ gui = "idle" /\ ~shown
  /\ shown' = TRUE /\ timer' = TRUE
  /\ Attach /\ moved' = TRUE /\ Go("settle")
  /\ UNCHANGED <<minimised, queued, notice, counted, was_stopped, locals, drawn, unnoted>>

\* hide_window
HideWindow ==
  /\ gui = "idle" /\ shown
  /\ shown' = FALSE /\ timer' = FALSE
  /\ Detach
  /\ UNCHANGED <<minimised, queued, notice, gui>>

-----------------------------------------------------------------------------
Announces == Announce(FALSE) \/ Wake
Refresh == Settle("gen") \/ SeenGeneration \/ WasStopped \/ RefreshStatus \/ RefreshTab
Handler == Refresh \/ TickRefresh \/ Stop \/ Join

Next ==
  \/ Park \/ Break \/ Announces
  \/ Handler \/ Tick
  \/ Run("gen") \/ AskStop \/ Step \/ Edit("gen") \/ Command \/ DrawPageOnly
  \/ AttachAndRefresh \/ HideWindow
  \/ SessionStart \/ SessionStop

Spec == Init /\ [][Next]_vars
=============================================================================
