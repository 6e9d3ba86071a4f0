--------------------------- MODULE DebugWindowMac ---------------------------
(***************************************************************************)
(* The debugger window of macOS (frontends/macos/debugger/                 *)
(* DebuggerWindow.m). refreshNow reads as GNOME's refresh does. The timer  *)
(* runs for as long as the window exists and does nothing while it is not  *)
(* visible, in the Dock as well. A message overwrites the status label and *)
(* stays until something draws the status again.                           *)
(***************************************************************************)
EXTENDS WindowEngine

\* refreshNow
SeenGen == NoteGen("gen", "stopped")
WasStopped == NoteStopped("stopped", "status")

RefreshStatus ==
  /\ gui = "status" /\ Go("page")
  /\ status' = StatusNow /\ notice' = "none"
  /\ UNCHANGED <<engine, shown, minimised, timer, queued, seen, locals, page_current,
                 unnoted>>

RefreshTab == DrawPage

\* onTick, of a visible window
OnTick == ~minimised /\ Tick

\* ... the live status and page of a running machine do not note a generation
Polled ==
  /\ gui = "polled"
  /\ \/ Due(saw_gen) /\ Go("gen")
     \/ ~Due(saw_gen) /\ Go("idle")
     \/ ~Due(saw_gen) /\ ~stopped /\ Go("status")
  /\ UNCHANGED <<engine, view, seen, locals, drawn, unnoted>>

\* message:console:
Message ==
  /\ gui = "idle" /\ shown
  /\ status' = "notice" /\ notice' = "showing"
  /\ UNCHANGED <<engine, shown, minimised, timer, queued, gui, seen, locals,
                 page_current, unnoted>>

\* a register, a flag, bytes, a breakpoint of the disassembly: the page is drawn
\* and the rest is left to the poll
EditAndDraw ==
  /\ gui = "idle" /\ shown
  /\ moved' = TRUE /\ page_current' = stopped
  /\ UNCHANGED <<engine, view, gui, counted, was_stopped, locals, status, unnoted>>

\* show, of a window that is closed or in the Dock
Show ==
  /\ gui = "idle" /\ (~shown \/ minimised)
  /\ shown' = TRUE /\ timer' = TRUE /\ minimised' = FALSE
  /\ Attach /\ moved' = TRUE /\ Go("settle")
  /\ UNCHANGED <<queued, notice, counted, was_stopped, locals, drawn, unnoted>>

\* windowWillClose
Close ==
  /\ gui = "idle" /\ shown
  /\ shown' = FALSE /\ minimised' = FALSE
  /\ Detach
  /\ UNCHANGED <<timer, queued, notice, gui>>

Dock ==
  /\ gui = "idle" /\ shown
  /\ minimised' = ~minimised
  /\ UNCHANGED <<engine, shown, timer, queued, notice, gui, seen, locals, drawn, unnoted>>

-----------------------------------------------------------------------------
Announces == Announce(FALSE) \/ Wake
Refresh == Settle("gen") \/ SeenGen \/ WasStopped \/ RefreshStatus \/ RefreshTab
Handler == Refresh \/ Polled \/ Stop \/ Join

Next ==
  \/ Park \/ Break \/ Announces
  \/ Handler \/ OnTick
  \/ Run("settle") \/ AskStop \/ Step \/ Edit("gen") \/ Edit("settle")
  \/ EditAndDraw \/ Message \/ DrawPageOnly
  \/ Show \/ Close \/ Dock
  \/ SessionStart \/ SessionStop

Spec == Init /\ [][Next]_vars
=============================================================================
