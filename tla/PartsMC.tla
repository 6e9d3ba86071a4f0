------------------------------ MODULE PartsMC ------------------------------
(***************************************************************************)
(* The parts that share no state, for TLC, one at a time: AudioRing, Irq,  *)
(* FrameSlot, DisplayGtk, FujiTrace, Cart and FujiRuntime (extended), the  *)
(* display of Windows, Prefs, and the debugger windows of the four. A      *)
(* behaviour chooses the part that moves and the others stay where they    *)
(* begin: the state spaces add up instead of multiplying. The windows use  *)
(* the same variables, and so do the displays and FrameSlot. Of the        *)
(* FujiNet runtime there is the host that stops no runtime it has let be:  *)
(* the run second_runtime has the other.                                   *)
(*                                                                         *)
(* The bounds: a ring of five with the code's order of sizes, bursts       *)
(* longer than the ring, and enough samples to go round it twice; three    *)
(* pictures (the one shown, the one in the slot, one a session goes back   *)
(* to) over two sessions, two of them for the displays, three buffers of   *)
(* which the pool keeps one, a device lost once; a frame of three lines    *)
(* that are no multiple of a tick, as 455 dots are not; packets whose      *)
(* bytes need escaping, and more of them than the trace holds; an image of *)
(* each kind (the baked client, an app that claims the mailbox as well, a  *)
(* game, a file no mapper fits), each pushed in two chunks; two threads a  *)
(* runtime may be started on; two BIOSes.                                  *)
(***************************************************************************)
EXTENDS AudioRing, Irq, DisplayGtk, FujiTrace, Cart, FujiRuntime, TLC

CONSTANTS
  App, Game, NoMap,
  Blank, MaxLosses

PacketsSent == {<<65, 192>>, <<219, 220>>}
PacketsReceived == {<<65, 192>>, <<221>>}

MCImages == {Config, App, Game, NoMap}
MCKind == Config :> "flat" @@ App :> "app" @@ Game :> "game" @@ NoMap :> "nomap"
MCClaims == [i \in MCImages |-> i \in {Config, App}]
MCPages == [i \in MCImages |-> 2]

VARIABLES
  part,
  live, attached, stopped, stop_req, why, stepping, thread, visible, minimised,
  timer, place, queued, notice, moved, counted, was_stopped, saw_gen, saw_stopped,
  line_shown, page_current, unnoted,
  rt, g_mode, g_tex, device_lost, g_gdi_fb, invalid, g_running_display, on_screen, losses,
  front, stored, imported, runs, machine, failed, page, prefs, widgets, dirty, rows,
  behind

FirstPicture == CHOOSE p \in Pictures : TRUE
FewPictures == {FirstPicture, CHOOSE p \in Pictures : p # FirstPicture}
WinDisplay == INSTANCE DisplayWin WITH Pictures <- FewPictures, MaxSerial <- 2, g_running <- g_running_display
Kde == INSTANCE DebugWindow WITH mt <- thread, shown <- visible, gui <- place,
                                status <- line_shown
Gtk == INSTANCE DebugWindowGtk WITH mt <- thread, shown <- visible, gui <- place,
                                status <- line_shown
Win == INSTANCE DebugWindowWin WITH mt <- thread, shown <- visible, gui <- place,
                                status <- line_shown
Mac == INSTANCE DebugWindowMac WITH mt <- thread, shown <- visible, gui <- place,
                                status <- line_shown

Preferences == INSTANCE Prefs WITH Bioses <- {0, 1}

ASSUME InstanceAssumption ==
  FrameBounds /\ CartAssumptions /\ Preferences!PrefsBounds /\ TraceBounds

audio == <<s_ring, s_head, s_count, s_primed, made, dst, asked>>
windows == <<live, attached, stopped, stop_req, why, stepping, thread, visible,
            minimised, timer, place, queued, notice, moved, counted, was_stopped,
            saw_gen, saw_stopped, line_shown, page_current, unnoted>>
gtkDisplay == <<display, pool>>
winDisplay == <<rt, g_mode, g_tex, device_lost, g_gdi_fb, invalid,
                g_running_display, on_screen, losses>>
displays == <<gtkDisplay, winDisplay>>
settings == <<front, stored, imported, runs, machine, failed, page, prefs, widgets, dirty,
              rows, behind>>

\* the Preferences of a behaviour in which they do not move
NoPrefs ==
  /\ front = "none" /\ stored = <<>> /\ imported = {} /\ runs = FALSE /\ machine = <<>>
  /\ failed = FALSE /\ page = "none" /\ prefs = "none" /\ widgets = <<>> /\ dirty = FALSE
  /\ rows = {} /\ behind = FALSE

PartsInit ==
  /\ part \in {"audio", "frames", "gtk_display", "win_display", "line", "trace", "cart", "runtime",
               "prefs", "kde", "gtk", "win", "mac"}
  /\ Init /\ FrameInit /\ IrqInit /\ TraceInit /\ CartInit
  /\ RuntimeInit /\ Kde!Init
  /\ GtkInit /\ WinDisplay!WinInit
  /\ IF part = "prefs" THEN Preferences!PrefsInit ELSE NoPrefs
  /\ s_frame = FirstPicture
  /\ g_mode = "gdi" => part = "win_display"

WindowNext ==
  \/ part = "kde" /\ Kde!Next
  \/ part = "gtk" /\ Gtk!Next
  \/ part = "win" /\ Win!Next
  \/ part = "mac" /\ Mac!Next

PartsNext ==
  /\ UNCHANGED part
  /\ \/ /\ part = "audio" /\ Next
        /\ UNCHANGED <<frameVars, irqVars, traceVars, cartVars, runtimeVars, windows, displays, settings>>
     \/ /\ part = "frames" /\ FrameNext
        /\ UNCHANGED <<audio, irqVars, traceVars, cartVars, runtimeVars, windows, displays, settings>>
     \/ /\ part = "gtk_display" /\ GtkNext
        /\ s_frame' \in FewPictures /\ s_frame_serial' <= 2
        /\ UNCHANGED <<audio, irqVars, traceVars, cartVars, runtimeVars, windows, winDisplay, settings>>
     \/ /\ part = "win_display" /\ WinDisplay!WinNext
        /\ UNCHANGED <<audio, irqVars, traceVars, cartVars, runtimeVars, windows, gtkDisplay, settings>>
     \/ /\ part = "line" /\ IrqNext
        /\ UNCHANGED <<audio, frameVars, traceVars, cartVars, runtimeVars, windows, displays, settings>>
     \/ /\ part = "trace" /\ TraceNext
        /\ UNCHANGED <<audio, frameVars, irqVars, cartVars, runtimeVars, windows, displays, settings>>
     \/ /\ part = "cart" /\ CartNext
        /\ UNCHANGED <<audio, frameVars, irqVars, traceVars, runtimeVars, windows, displays, settings>>
     \/ /\ part = "runtime" /\ Orderly
        /\ UNCHANGED <<audio, frameVars, irqVars, traceVars, cartVars, windows, displays, settings>>
     \/ /\ part = "prefs" /\ Preferences!PrefsNext
        /\ UNCHANGED <<audio, frameVars, irqVars, traceVars, cartVars, runtimeVars, windows, displays>>
     \/ /\ WindowNext
        /\ UNCHANGED <<audio, frameVars, irqVars, traceVars, cartVars, runtimeVars, displays, settings>>

PartsVars == <<part, audio, frameVars, irqVars, traceVars, cartVars, runtimeVars, windows, displays, settings>>

\* Of the window that moves: a handler goes on, the machine thread announces what
\* it stopped for, the timer fires however often other events come first, and a
\* notice's time passes. The user owes nothing.
WindowHandles ==
  \/ part = "kde" /\ Kde!Handler
  \/ part = "gtk" /\ Gtk!Handler
  \/ part = "win" /\ Win!Handler
  \/ part = "mac" /\ Mac!Handler

WindowTicks ==
  \/ part = "kde" /\ Kde!Tick
  \/ part = "gtk" /\ Gtk!Tick
  \/ part = "win" /\ Win!TimerTick
  \/ part = "mac" /\ Mac!OnTick

MachineAnnounces ==
  \/ part = "kde" /\ Kde!Announces
  \/ part \in {"gtk", "win", "mac"} /\ Gtk!Announces

\* FujiRuntime's fairness, of the part that moves
HostWaits == part = "runtime" /\ Waits
RuntimeRuns(t) == part = "runtime" /\ Runs(t)
LoggerEnds(t) == part = "runtime" /\ LogEnds(t)

\* ... and that of the displays
GtkTicks == part = "gtk_display" /\ tick_cb
GtkDrops == part = "gtk_display" /\ Drops
WinRenders == part = "win_display" /\ WinDisplay!RenderThread
WinPaints == part = "win_display" /\ WinDisplay!Paint

PartsSpec ==
  /\ PartsInit /\ [][PartsNext]_PartsVars
  /\ FrameFairness
  /\ WF_<<frameVars, gtkDisplay>>(GtkTicks) /\ WF_<<frameVars, gtkDisplay>>(GtkDrops)
  /\ WF_<<frameVars, winDisplay>>(WinRenders) /\ WF_<<frameVars, winDisplay>>(WinPaints)
  /\ WF_runtimeVars(HostWaits)
  /\ \A t \in Threads : WF_runtimeVars(RuntimeRuns(t)) /\ WF_runtimeVars(LoggerEnds(t))
  /\ WF_windows(WindowHandles) /\ WF_windows(MachineAnnounces) /\ SF_windows(WindowTicks)

-----------------------------------------------------------------------------
(* The parts' properties, by their names. *)

\* FrameSlot, DisplayGtk, DisplayWin: a window that can be seen catches up with a
\* picture that stays.
Seen == m_active \/ ticking \/ on_screen
CatchesUp == \A p \in Pictures : Seen /\ Newest(p) ~> CaughtUp(p) \/ ~Seen
\* The windows: one that will not draw again shows the machine as it is. Prefs: once
\* the Preferences have closed, the machine that runs is the one they say. DisplayWin:
\* what it takes for drawn is the picture in the slot.
AtRestIsCurrent ==
  /\ Kde!AtRestIsCurrent
  /\ part = "win_display" => WinDisplay!AtRestIsCurrent
  /\ part = "prefs" => Preferences!PrefsAreApplied
\* The windows: a stop is shown.
StopIsShown == Kde!StopIsShown
=============================================================================
