----------------------------- MODULE DisplayWin -----------------------------
(***************************************************************************)
(* The display of Windows (frontends/windows/display.c) over the frame     *)
(* slot: a render thread polls the slot and presents a texture of its      *)
(* device. When the device is lost the thread builds it again, or falls    *)
(* back to a bitmap that the GUI thread paints.                            *)
(*                                                                         *)
(* Of FrameSlot the feed is not used. gui says what the GUI thread does:   *)
(* it runs its message loop, waits for the render thread to end, or has    *)
(* destroyed the display. The wait's bound, 3 s, is taken to be enough.    *)
(***************************************************************************)
EXTENDS FrameSlot

CONSTANTS
  Blank,        \* what a new texture shows
  MaxLosses     \* devices lost, in an instance

VARIABLES
  rt,           \* the render thread: loop, draw, lost, gdi, done
  g_mode,       \* d3d, gdi
  g_tex,        \* the picture in the device's texture
  device_lost,
  g_gdi_fb,     \* the bitmap, Blank while g_gdi_have is 0
  invalid,      \* a WM_PAINT is due
  g_running,
  on_screen,    \* the window can be seen
  losses

render == <<rt, g_mode, g_tex, g_gdi_fb>>
winVars == <<frameVars, render, device_lost, invalid, g_running, on_screen, losses>>

WinTypeOK ==
  /\ s_frame \in Pictures /\ {shown, g_tex, g_gdi_fb} \subseteq Pictures \cup {Blank}
  /\ rt \in {"loop", "draw", "lost", "gdi", "done"} /\ g_mode \in {"d3d", "gdi"}
  /\ device_lost \in BOOLEAN /\ invalid \in BOOLEAN
  /\ g_running \in BOOLEAN /\ on_screen \in BOOLEAN /\ losses \in 0..MaxLosses
  /\ gui \in {"idle", "destroying", "gone"}

\* astro_display_create, with a device or none
WinInit ==
  /\ FrameInit
  /\ \/ rt = "loop" /\ g_mode = "d3d"
     \/ rt = "gdi" /\ g_mode = "gdi"
  /\ g_tex = Blank /\ g_gdi_fb = Blank
  /\ device_lost = FALSE /\ invalid = FALSE
  /\ g_running = TRUE /\ on_screen = FALSE /\ losses = 0

-----------------------------------------------------------------------------
(* The render thread. *)

\* The copy takes the serial; the upload to a device that is lost fails.
RenderCopy ==
  /\ rt = "loop" /\ g_running /\ on_screen
  /\ rt' = "draw"
  /\ m_serial' = s_frame_serial
  /\ IF m_serial # s_frame_serial
     THEN m_session' = sessions /\ g_tex' = IF device_lost THEN g_tex ELSE s_frame
     ELSE UNCHANGED <<m_session, g_tex>>
  /\ UNCHANGED <<host, feed, shown, gui, g_mode, g_gdi_fb, device_lost, invalid,
                 g_running, on_screen, losses>>

\* Present may send the window's thread a message.
Answers == gui \in {"idle", "destroying"}

RenderDraw ==
  /\ rt = "draw" /\ Answers
  /\ IF device_lost THEN rt' = "lost" /\ UNCHANGED shown
     ELSE rt' = "loop" /\ shown' = g_tex
  /\ UNCHANGED <<host, feed, m_serial, m_session, gui, g_mode, g_tex, g_gdi_fb, device_lost,
                 invalid, g_running, on_screen, losses>>

\* d3d_release and d3d_init
Rebuild ==
  /\ g_tex' = Blank /\ rt' = "loop" /\ device_lost' = FALSE
  /\ m_serial' = 0
  /\ UNCHANGED <<g_mode, invalid>>

\* ... which fails; gdi_loop has a serial of its own.
FallBack ==
  /\ g_mode' = "gdi" /\ rt' = "gdi" /\ m_serial' = 0
  /\ invalid' = TRUE
  /\ UNCHANGED <<g_tex, device_lost>>

RenderLost ==
  /\ rt = "lost"
  /\ Rebuild \/ FallBack
  /\ UNCHANGED <<host, feed, shown, m_session, gui, g_gdi_fb, g_running, on_screen, losses>>

\* gdi_loop, once around
GdiCopy ==
  /\ rt = "gdi" /\ g_running
  /\ m_serial # s_frame_serial
  /\ m_serial' = s_frame_serial /\ m_session' = sessions
  /\ g_gdi_fb' = s_frame
  /\ invalid' = (invalid \/ on_screen)
  /\ UNCHANGED <<host, feed, shown, gui, rt, g_mode, g_tex, device_lost, g_running, on_screen,
                 losses>>

RenderEnd ==
  /\ rt \in {"loop", "gdi"} /\ ~g_running
  /\ rt' = "done"
  /\ UNCHANGED <<host, feed, widget, gui, g_mode, g_tex, g_gdi_fb, device_lost, invalid,
                 g_running, on_screen, losses>>

RenderThread == RenderCopy \/ RenderDraw \/ RenderLost \/ GdiCopy \/ RenderEnd

-----------------------------------------------------------------------------
(* The GUI thread, and the device. *)

\* WM_PAINT: with a device there is nothing to paint.
Paint ==
  /\ gui = "idle" /\ invalid /\ on_screen
  /\ invalid' = FALSE
  /\ shown' = IF g_mode = "gdi" THEN g_gdi_fb ELSE shown
  /\ UNCHANGED <<host, feed, m_serial, m_session, gui, render, device_lost,
                 g_running, on_screen, losses>>

\* Hidden for the page without a BIOS, minimised, or back; what comes back is painted.
ShowOrHide ==
  /\ gui = "idle" /\ g_running
  /\ on_screen' = ~on_screen
  /\ invalid' = (invalid \/ on_screen')
  /\ UNCHANGED <<frameVars, render, device_lost, g_running, losses>>

Lose ==
  /\ g_mode = "d3d" /\ ~device_lost /\ losses < MaxLosses
  /\ device_lost' = TRUE /\ losses' = losses + 1
  /\ UNCHANGED <<host, feed, widget, gui, render, invalid, g_running, on_screen>>

\* astro_display_destroy: the GUI thread waits, and answers what is sent to it.
Destroy ==
  /\ gui = "idle" /\ g_running
  /\ gui' = "destroying" /\ g_running' = FALSE /\ on_screen' = FALSE
  /\ UNCHANGED <<host, feed, widget, render, device_lost, invalid, losses>>

Destroyed ==
  /\ gui = "destroying" /\ rt = "done"
  /\ gui' = "gone"
  /\ UNCHANGED <<host, feed, widget, render, device_lost, invalid, g_running, on_screen, losses>>

Gone == gui = "gone" /\ UNCHANGED winVars

Session == (\E p \in Pictures : Publish(p)) \/ LockCallback \/ HostStart \/ HostStop

WinNext ==
  \/ RenderThread \/ Paint \/ ShowOrHide \/ Lose \/ Destroy \/ Destroyed \/ Gone
  \/ Session /\ UNCHANGED <<render, device_lost, invalid, g_running, on_screen, losses>>

\* The thread runs, and what is due is painted.
WinFairness == WF_winVars(RenderThread) /\ WF_winVars(Paint)

WinSpec == WinInit /\ [][WinNext]_winVars /\ WinFairness

-----------------------------------------------------------------------------
\* A serial that is the slot's tells the thread that there is nothing to copy: then the
\* picture is in the texture, and drawn once the thread is back in its loop, or in the
\* bitmap, and painted once no WM_PAINT is due. A device that is lost has what was
\* uploaded before, and FrameSlot's Mistaken is about a serial of another session.
AtRestIsCurrent ==
  m_session = sessions /\ m_serial = s_frame_serial /\ s_frame_serial # 0 =>
    /\ rt \in {"loop", "draw"} /\ ~device_lost => g_tex = s_frame
    /\ rt = "loop" /\ ~device_lost => shown = s_frame
    /\ g_mode = "gdi" => g_gdi_fb = s_frame
    /\ g_mode = "gdi" /\ on_screen /\ ~invalid => shown = s_frame
=============================================================================
