------------------------------ MODULE FrameSlot ------------------------------
(***************************************************************************)
(* The latest-wins frame slot of core/astro/host.c and the window that      *)
(* follows it through frontends/kde/FrameFeed.cpp: a callback on the        *)
(* machine thread, turned into at most one queued event for the GUI thread. *)
(*                                                                          *)
(* Two threads, two locks. The machine thread publishes a picture under     *)
(* s_frame_lock, then calls the registered callback under s_cb_lock. The    *)
(* GUI thread runs queued events, copies from the slot, registers and       *)
(* unregisters the callback, and stops and starts the session. A picture is *)
(* a model value; the debugger's publication of a half-drawn one is one     *)
(* more picture.                                                            *)
(***************************************************************************)
EXTENDS Integers

CONSTANTS
  Pictures,       \* what the machine can draw
  MaxSerial,      \* pictures one session publishes, at most
  MaxSessions     \* sessions of one run of the program, at most

\* What the theorems assume of them.
FrameBounds == MaxSerial \in Nat \ {0} /\ MaxSessions \in Nat \ {0} /\ Pictures # {}

VARIABLES
  (* host.c *)
  s_frame,         \* the picture in the slot
  s_frame_serial,  \* 0 while no picture of this session is in it
  registered,      \* s_frame_cb # NULL
  mt,              \* the machine thread: none, drawing, published, calling, posting
  sessions,        \* sessions started so far
  (* FrameFeed *)
  m_active,
  m_pending,       \* an event is in flight
  queue,           \* deliver() events queued for the GUI thread
  (* the display widget *)
  shown,           \* the picture it shows
  m_serial,        \* the serial of that picture
  gui,             \* the GUI thread: idle, emitting (between deliver and copy)
  (* history *)
  m_session        \* the session of that picture

host == <<s_frame, s_frame_serial, registered, mt, sessions>>
feed == <<m_active, m_pending, queue>>
widget == <<shown, m_serial, m_session>>
frameVars == <<host, feed, widget, gui>>

ThreadStates == {"none", "drawing", "published", "calling", "posting"}

FrameTypeOK ==
  /\ s_frame \in Pictures /\ shown \in Pictures
  /\ s_frame_serial \in 0..MaxSerial /\ m_serial \in 0..MaxSerial
  /\ registered \in BOOLEAN /\ m_active \in BOOLEAN /\ m_pending \in BOOLEAN
  /\ mt \in ThreadStates
  /\ sessions \in 0..MaxSessions
  /\ queue \in Nat
  /\ m_session \in 0..MaxSessions
  /\ gui \in {"idle", "emitting"}

FrameInit ==
  /\ s_frame \in Pictures /\ shown = s_frame
  /\ s_frame_serial = 0 /\ m_serial = 0
  /\ registered = FALSE /\ m_active = FALSE /\ m_pending = FALSE
  /\ mt = "none" /\ sessions = 0
  /\ queue = 0 /\ gui = "idle" /\ m_session = 0

-----------------------------------------------------------------------------
(* The machine thread. *)

\* frame_publish under s_frame_lock: an identical picture is not a new frame.
\* MaxSerial bounds the pictures of a session.
Publish(p) ==
  /\ mt = "drawing"
  /\ \/ s_frame_serial # 0 /\ p = s_frame
        /\ UNCHANGED <<s_frame, s_frame_serial, mt>>
     \/ /\ ~(s_frame_serial # 0 /\ p = s_frame)
        /\ s_frame_serial < MaxSerial
        /\ s_frame' = p
        /\ s_frame_serial' = s_frame_serial + 1
        /\ mt' = "published"
  /\ UNCHANGED <<registered, sessions, feed, widget, gui>>

\* frame_publish takes s_cb_lock and finds a callback or none.
LockCallback ==
  /\ mt = "published"
  /\ mt' = IF registered THEN "calling" ELSE "drawing"
  /\ UNCHANGED <<s_frame, s_frame_serial, registered, sessions, feed, widget, gui>>

\* Faulty: the event is posted whatever is in flight.
OnFrameEveryTime ==
  /\ mt = "calling"
  /\ m_pending' = TRUE
  /\ mt' = "posting"
  /\ UNCHANGED <<s_frame, s_frame_serial, registered, sessions, m_active, queue,
                 widget, gui>>

\* FrameFeed::onFrame: m_pending.exchange(true)
OnFrame ==
  /\ mt = "calling"
  /\ m_pending' = TRUE
  /\ mt' = IF m_pending THEN "drawing" ELSE "posting"
  /\ UNCHANGED <<s_frame, s_frame_serial, registered, sessions, m_active, queue,
                 widget, gui>>

\* ... QMetaObject::invokeMethod(Qt::QueuedConnection); the call returns and
\* s_cb_lock is dropped.
Post ==
  /\ mt = "posting"
  /\ queue' = queue + 1
  /\ mt' = "drawing"
  /\ UNCHANGED <<s_frame, s_frame_serial, registered, sessions, m_active,
                 m_pending, widget, gui>>

CallbackLockHeld == mt \in {"calling", "posting"}

-----------------------------------------------------------------------------
(* The GUI thread. *)

\* Faulty: the serial moves on even when there is nothing new.
FrameCopyAhead ==
  /\ shown' = s_frame
  /\ m_serial' = s_frame_serial + 1
  /\ m_session' = sessions

\* astro_host_frame_copy into the widget's picture
FrameCopy ==
  IF m_serial # s_frame_serial
    THEN shown' = s_frame /\ m_serial' = s_frame_serial /\ m_session' = sessions
    ELSE UNCHANGED widget

\* Faulty: a hidden window's event leaves the flag up.
DeliverOnlyActive ==
  /\ gui = "idle" /\ queue > 0
  /\ queue' = queue - 1
  /\ m_pending' = IF m_active THEN FALSE ELSE m_pending
  /\ gui' = IF m_active THEN "emitting" ELSE "idle"
  /\ UNCHANGED <<host, m_active, widget>>

\* FrameFeed::deliver, up to the signal
Deliver ==
  /\ gui = "idle" /\ queue > 0
  /\ queue' = queue - 1
  /\ m_pending' = FALSE
  /\ gui' = IF m_active THEN "emitting" ELSE "idle"
  /\ UNCHANGED <<host, m_active, widget>>

\* frameReady -> onFrame of the display widget
OnFrameReady ==
  /\ gui = "emitting"
  /\ FrameCopy
  /\ gui' = "idle"
  /\ UNCHANGED <<host, feed>>

\* Faulty: no catching up with the pictures missed while hidden.
ActivateQuietly ==
  /\ gui = "idle" /\ ~m_active
  /\ ~CallbackLockHeld
  /\ m_active' = TRUE
  /\ registered' = TRUE
  /\ UNCHANGED <<s_frame, s_frame_serial, mt, sessions, m_pending, queue, widget,
                 gui>>

\* FrameFeed::setActive(true): register, then catch up
Activate ==
  /\ gui = "idle" /\ ~m_active
  /\ ~CallbackLockHeld
  /\ m_active' = TRUE
  /\ registered' = TRUE
  /\ gui' = "emitting"
  /\ UNCHANGED <<s_frame, s_frame_serial, mt, sessions, m_pending, queue, widget>>

\* Faulty: the callback is cleared without its lock.
DeactivateUnlocked ==
  /\ gui = "idle" /\ m_active
  /\ m_active' = FALSE
  /\ registered' = FALSE
  /\ UNCHANGED <<s_frame, s_frame_serial, mt, sessions, m_pending, queue, widget,
                 gui>>

\* FrameFeed::setActive(false): astro_host_set_frame_callback waits for a call
\* in flight.
Deactivate ==
  /\ gui = "idle" /\ m_active
  /\ ~CallbackLockHeld
  /\ m_active' = FALSE
  /\ registered' = FALSE
  /\ UNCHANGED <<s_frame, s_frame_serial, mt, sessions, m_pending, queue, widget,
                 gui>>

\* astro_host_start, the frame slot's part: the machine thread begins.
HostStart ==
  /\ gui = "idle" /\ mt = "none"
  /\ sessions < MaxSessions
  /\ sessions' = sessions + 1
  /\ mt' = "drawing"
  /\ UNCHANGED <<s_frame, s_frame_serial, registered, feed, widget, gui>>

\* astro_host_stop: the thread is joined between frames, the serial restarts;
\* the picture stays in the slot.
HostStop ==
  /\ gui = "idle" /\ mt = "drawing"
  /\ mt' = "none"
  /\ s_frame_serial' = 0
  /\ UNCHANGED <<s_frame, registered, sessions, feed, widget, gui>>

-----------------------------------------------------------------------------
MachineThread == LockCallback \/ OnFrame \/ Post
GuiThread == Deliver \/ OnFrameReady

FrameNext ==
  \/ \E p \in Pictures : Publish(p)
  \/ MachineThread \/ GuiThread
  \/ Activate \/ Deactivate \/ HostStart \/ HostStop

FrameSpec == FrameInit /\ [][FrameNext]_frameVars

\* A started callback and a queued event are run; nobody has to draw.
FrameFairness == WF_frameVars(MachineThread) /\ WF_frameVars(GuiThread)

-----------------------------------------------------------------------------
\* Once unregistered, the callback is not running and is not about to: its
\* context may be freed (host.h, FrameFeed's destructor).
NoCallAfterUnregister == CallbackLockHeld => registered

\* One event in flight, exactly while the flag says so: a flag up with no event
\* on its way would silence the feed for good.
OneEventInFlight ==
  queue + (IF mt = "posting" THEN 1 ELSE 0) = IF m_pending THEN 1 ELSE 0

\* The serial restarts with a session: a window that still has the serial of an
\* earlier one takes a picture of this one for the picture it shows.
Mistaken == m_session # sessions /\ m_serial = s_frame_serial

\* With nothing under way, an active window shows the newest picture: no
\* wake-up is lost between the machine thread and the GUI thread.
Quiet ==
  /\ m_active /\ gui = "idle" /\ queue = 0
  /\ mt = "drawing" /\ s_frame_serial # 0
ShowsTheNewest == Quiet => shown = s_frame \/ Mistaken

\* The picture that a window is to catch up with, and has (PartsMC's CatchesUp): or
\* the session goes on to another picture, or ends.
Newest(p) == s_frame = p /\ s_frame_serial # 0
CaughtUp(p) == shown = p \/ Mistaken \/ ~Newest(p)
=============================================================================
