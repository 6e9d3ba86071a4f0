# FujiNet Go Bally Astrocade Desktop in TLA+

Models of the emulator's core, of the FujiNet side of it and of its four front
ends, checked with TLC on small instances and, where it matters most, proved with
TLAPS for every value of their constants.

## 1. The system

One process. The **GUI thread** (GTK, Qt, AppKit or Win32) owns the windows and
calls the session API. The **machine thread** runs the console at 60 frames a
second. The **audio thread** belongs to SDL and pulls samples. A **gamepad
thread** polls SDL. The FujiNet runtime has a service thread and a log thread of
its own, and the console reaches it, or a FujiNet elsewhere, over a TCP link. On
Windows a **render thread** presents the picture. Threads share state under small
mutexes, atomics, one condition variable and, in a few places, nothing at all.

| Component | State | Operations | Meets | Hard behaviour | What makes it correct |
|---|---|---|---|---|---|
| Debugger engine `core/debugger/debugger.c` | attached, stopped, stop request, pending watchpoint, action and count, generation, breakpoint table | attach, detach, stop, resume, the steps, edits; both hooks; core started/stopping | host, machine (hooks), windows (polling) | parks the machine thread *inside* a hook; drops its lock there; sessions end meanwhile | no lost wake-up, stops are exact and prompt, "stopped" means parked |
| Breakpoints `debugger.c`, `expr.c` | table, ids, lookup maps, hits | add, remove, enable, clear, toggle, check | hooks | the maps are read without the lock | a hit is not missed |
| Stepping goals `debugger.c` | target, guarded SP, last line and frame | over, out, run to, scanline, frame | instruction hook | recursion, interrupts, HALT, juggled stacks | ends at the right frame of the stack |
| Edits, labels, disassembly `debugger.c`, `prompt.c`, `symbols.c` | registers, memory, the opcode already fetched, labels | set, write, toggle, load, console commands | windows | the machine has fetched what it runs next; rows and lines move | an edit reaches what is shown, and is what runs |
| Debugger windows (four) | last generation seen, pages, selection, notices | poll, refresh, settle, edit, show, hide | engine | stale reads, order of reads, GUI timers | what is shown at rest is current; a stop is shown |
| FujiNet trace `fujitrace.c` | ring of transactions, frame in decoding | feed, fold, copy, clear | cart tap, windows | folding at the wrap, redraw only on change | every packet counted once; the list is current |
| Host `core/astro/host.c` | running, stop and reset latches, thread | start, stop, reset, the frame loop | engine, machine, cart, audio, frame slot | joins a thread the debugger may hold | stop returns, reset stays in its session |
| Frame slot and displays `host.c`, `FrameFeed.cpp`, `gnome/display.c`, `windows/display.c` | picture, serial, callback; flag, event; buffers, textures, device | publish, copy, (un)register, draw | machine to GUI and render threads | coalescing, unregistering during a call, borrowed buffers, lost devices | latest wins, nothing used after it is gone |
| Audio ring `host.c`, `audio_sdl.c` | ring, head, count, primed | publish, copy, reset | machine to audio thread | overrun, underrun, drift | order, bounded lag, sound is heard in time |
| Hook slots `host.c`, `machine.c` | two functions, two arguments | set, load, call | engine, machine thread | no lock on the reading side | a hook is called with its engine |
| Input `input.c`, action latch of `session.c` | what each source holds, the key of each target, knobs, actions posted | key, press, knob, pad, tick, resync, clear; post, take, fire | GUI and pad threads, machine, sessions | several sources for a target, rebinding and resets with keys down, auto-repeat | the machine has down what a source holds; a posted action is fired |
| Bindings `bindings.c` | key and pad input of each target, saved overrides | look up, bind, clear, defaults, load | input, pads, settings | shared inputs, unbound is not default | one target an input; what is saved loads back |
| Gamepads `gamepad_sdl.c` | slots, last buttons and axes, capture | poll, open, close, capture | SDL, input, panel | hot-plugging, capture against play, two thresholds | a held input fires once |
| Controllers window and key paths (four) | visible, Map state, control pressed | keys, mouse, focus, Map mode | bindings, input, capture | press and release reach different windows | nothing stays held that nobody holds |
| Session `session.c`, `settings.c`, `fujinet_runtime.c` | runtime, host, link, device, settings file | start, stop, load, reset, flush | everything | a start fails half way, timeouts, kills | what it dials is what it says; what was started is stopped; the file is whole |
| FujiNet runtime `fujinet_runtime.c`, `fujinet_desktop_entry.cpp` | running, threads, captured streams | start, stop, serve, log | session, stdout | a blocked service thread, a bounded join | one runtime; the streams follow it |
| TCP link `fujitcp_win32.c` | socket, frames in it, push state | connect, transact, push, drop | cart, FujiNet | late replies, cut frames | every reply is accounted for |
| Cart `fujinet_cart.c` | mailbox, served and staged image, streams | hotspots, push, swap, reset | machine, link | a swap during play, a cut push | one whole image is served at a time |
| Machine and CPU `machine.c`, `video.c`, `z80.h` | interrupt line, beam, flip-flops | tick, scanline, acknowledge | all of the above | sampling a tick late | one answer for a raise |
| Preferences and import (four), `roms.c` | stored settings, BIOS files, the window's choices | choose, import, close, restart | session | some choices are stored at once, some at the end; restarts in between | what runs is what is stored |

`PROJECT.json` lists each part with its status, and the hazards of the code at
the lines where they bite.

## 2. What is modelled

| Module | Models | State and actions |
|---|---|---|
| `DebugEngine` | `debugger.c` against `host.c` and the hook calls of `machine.c` | the fields of `struct astrodebug`; the host's latches; `mt`, where the machine thread is; `ui`, where the GUI thread is in a host call. One action per API call and handler |
| `DebugControl` | nothing in the code: the contract of `astrodebug.h` | off, running, stopped, draining |
| `Breakpoints` | the table, ids, kinds, ranges, maps of `debugger.c` | an edit is two steps, the maps cleared and filled, because `bus_hook` looks without the mutex |
| `DebugStops` (with `Breakpoints`) | breakpoints, watchpoints and stepping goals against a program | stack, lines and frames, interrupts, HALT; one action per instruction kind, per goal and per edit |
| `DebugEdits` | the calls that read and change the machine, `prompt.c`, labels, disassembly | operators from one engine to the next: a call holds `d->mtx` throughout |
| `DebugPages` (with `DebugEdits`) | the CPU, disassembly, screen and breakpoint pages and the console of the four debugger windows | one action per handler of each front end; `view` is the window |
| `WindowEngine` | what the four debugger windows ask of the engine | the engine as a window sees it; the state of a window that polls |
| `DebugWindow`, `DebugWindowGtk`, `DebugWindowWin`, `DebugWindowMac` | the polling, refreshing and settling of KDE, GNOME, Windows, macOS | the reads of a refresh are steps of their own |
| `FujiTrace` | `fujitrace.c`, the tap of `fujinet_cart.c`, the list of a window | ring, frame being decoded, hash of the last; feed, fold, copy, clear, redraw |
| `FrameSlot` | the slot in `host.c`, `FrameFeed.cpp`, the copy in `DisplayWidget.cpp` | slot, serial, callback; flag, event queue; the picture shown |
| `DisplayGtk`, `DisplayWin` (with `FrameSlot`) | `gnome/display.c`, `windows/display.c` | the clock, the pool and the textures that borrow from it; the render thread, its device and the fallback |
| `AudioRing` | the ring in `host.c` | ring, head, count, gate; samples are numbered |
| `AudioFifo` | nothing in the code: what a device may be given | numbers made, passed, handed out |
| `HookSlots` | `sync_hooks_locked`, the two setters, the loads in `astro_machine_tick` | each store and load is a step |
| `Cart` | `fujinet_cart.c` | what each half and bank of the window serves, mailbox, staging, swap, streams |
| `CartSlot` | nothing in the code: what a console may rely on in its slot | served, waiting, asked for |
| `Link` | `fujitcp_win32.c` | the socket as a sequence of frame halves; connect, transact, read, push |
| `Session` (with `Link`) | `session.c`, `settings.c`, `fujinet_runtime.c`, the host's start and stop, GNOME's window and preferences | `at`, the step of the call under way; peers; the settings file and its temporary |
| `FujiRuntime` | `fujinet_runtime.c`, `fujinet_desktop_entry.cpp` | the host's place, each thread's, the descriptors and the pipe |
| `Irq` | the interrupt line of `machine.c`, `video.c`, the sampling and acknowledge of `z80.h` | time in CPU ticks, the beam in dots |
| `Bindings` | `bindings.c` | the table and the saved overrides |
| `Input` (with `Bindings`) | `input.c`, the latch of `session.c`, what a session's start and end do to the inputs | the holds of each source, the knob, what the machine has; `gui` |
| `Gamepad` (with `Bindings`) | the poll thread of `gamepad_sdl.c`, Map mode of a panel | devices; slots with their last buttons and axes; capture flags |
| `Panel` and `KeysGtk`, `KeysKde`, `KeysWin`, `KeysMac` | the Controllers window and the way of a key into the machine, of the four front ends | keys, modifier, focus, mouse; what the panel believes; the stores of a capture one by one |
| `Prefs` | the Preferences of the four front ends, `roms.c`, the restart | stored settings, BIOS files, the machine that runs, the window's choices |
| `PanelClaims` (with `KeysGtk` and `KeysKde`) | what the sources say of keys, controls and captures, without the exceptions of `Panel`'s properties | the two programs side by side |
| `*MC` | the instances TLC checks; `HookSlots`, `Irq`, `DebugWindow` and `FujiRuntime` need none | |
| `*_proofs` | the theorems | |

How they compose: `Input` and `Gamepad` extend `Bindings`, `DebugStops` extends
`Breakpoints`, `Session` extends `Link`, the displays extend `FrameSlot`, the keys'
modules extend `Panel`, the windows' extend `WindowEngine`, and `DebugPages` extends
`DebugEdits`. Parts that share no state are checked in one run by choosing, in the
initial state, the part that moves (`CoreMC`, `PartsMC`, `ShellMC`): their state spaces
add up and do not multiply. `CoreMC` extends `DebugEngine` and `Input`; `PartsMC` extends
`AudioRing`, `Irq`, `DisplayGtk` (with `FrameSlot`), `FujiTrace`, `Cart` and `FujiRuntime`;
`ShellMC` extends `Session`, `Gamepad` and `DebugPages`: run and theorem speak of one
definition. The others, which share names, are instances: `PartsMC!AtRestIsCurrent`,
`ShellMC!NothingSticks` and `ShellMC!MapModeIsTrue` put together what the theorems say of
each.

**DebugEngine.** A critical section under `d->mtx` is one step. What runs
without it is not: the test of a hook pointer (`Boundary`, `BusAccess`) and the
hook that then takes the lock (`InstrHook`, `BusHook`) are two steps, with any
call of the user's between them; `park_locked` is `ParkLocked` up to where it
unlocks and `ParkLoop` from where it locks again. `astro_host_stop` is three
steps (the flag, the release, the join) because the machine thread runs on
meanwhile. The thread's place `mt` goes `cart`, `top` (between frames), `exec`,
`bus`, `tail`, `hook`, and when parked `parking`, `wait`, `woken`. Condition
variables may wake spuriously. The callback of a stop may itself resume or step,
on the machine thread, so the release actions are enabled while `mt = "parking"`
whatever the GUI thread does. History variables (`wanted`, `steps`, `ran`,
`hit`, `reset_asked`) record what was asked and guard nothing.
Abstracted: what an instruction does; whether a breakpoint matches or a goal is met
(both are choices, which `DebugStops` makes); the text of a reason. Attach, detach,
stop and edits come from one GUI thread, as in all four front ends.

**Breakpoints, DebugStops.** The engine is attached throughout. The program is a
constant: a routine that may call itself, saves and drops a word, loops and returns,
and an interrupt handler. The instruction hook, the bus hook and the goals are
translated in the order the code has them; a condition (`expr.c`) is a choice of its
outcome. The stack is a sequence, so that its pointer cannot wrap: a program whose
stack runs through $0000 or $FFFF, where the comparisons of step over and step out
turn round, is not modelled.

**DebugEdits, DebugPages.** An edit is an operator on the engine; a handler of a page
is an action that says which engine it leaves and what it refreshes. Addresses are
0..2 and wrap: one of ROM, whose writes are dropped, one plain, one of screen RAM. An
opcode is one byte or two. `carry` stands for every register and flag but the PC.
`Topics` bounds what one behaviour's user works on. A register entry with the
keyboard in it is left alone by a refresh, and stays as it is after the keyboard has
left it until the next refresh: `stale` has those. Left out: the I/O and FujiNet tabs
(the second is `FujiTrace`), the console's history and completion, the text of a line.

**The windows.** Each read of the engine is a step, since the machine moves between
them. Handlers run to their end on the GUI thread; a timer may come before or after any
of them. KDE counts stops in a callback on the machine thread, Windows compares the
state with the last it saw, GNOME notes none and macOS writes a message over the
status: four modules, which share `WindowEngine`'s engine and its two properties.

**FujiTrace.** The tap re-encodes each packet byte by byte, so frames with bytes that
need escaping are among those sent. What a line says is fixed by the entry it shows.

**FrameSlot and the displays.** `s_frame_lock` sections are steps. `s_cb_lock` is held
by the machine thread in `calling` and `posting`; registering waits for it.
`astro_host_stop` joins the machine thread between two frames. GNOME polls by its frame
clock into a buffer that a texture borrows until the renderer drops it, which may be
after the widget is gone; Windows has a render thread whose device may be lost. The
macOS view only polls, as GNOME's does, and draws a copy: it is not modelled.

**AudioRing.** All three calls hold `s_audio_lock`: one step each. A sample is
its number, which is all that order and lag need.

**HookSlots.** `d->mtx` orders the writers only. A writer's stores are a queue
that drains one by one. The machine thread loads the function, then the argument, then
calls.

**Cart.** Everything runs inside a bus read of the machine thread; a transaction lets
the link push streams and drop. Bytes are tags: the image they come from, or what was
last published in a mailbox register. `fujimail.c` and `astromap.c` are staged by the
firmware's build and are taken from how the device uses them (external).

**Link, Session.** A frame on the wire is two halves, so that a timeout can cut it. A
call of the GUI thread is as many steps as there are places where the machine, the
runtime, the other FujiNet or a kill can come between. Two FujiNets can be dialled, the
one in this process and one elsewhere.

**FujiRuntime.** The host's thread starts and stops it, a service thread serves, a log
thread copies what it prints. The service may block for as long as it likes: a stop
waits five seconds and lets the thread be. `Orderly` is the host that stops no runtime
it has let be; `second_runtime` shows what the other one meets.

**Irq.** The scanline interrupt in both modes against instructions of several lengths,
HALT, EI and DI. 35 dots a line and 4 a tick keep the code's property that a line is
no multiple of a tick.

**Bindings.** A call holds `s_mtx` throughout: one step. Looking up scans the table
for the first match; the models take any match, and `OneTargetPerInput` says that
there is one at most. The setting's text is the function of the entries it lists.

**Input.** Every call of `input.c` holds `g_mtx` and pushes what changed to the
machine before it returns: one step. Keypad bits and handles are `Switches` alike,
`Push` tells the machine the bits that differ from `g_keys_out`, `PushAll` all of
them. One player's knob stands for the four, which share nothing. The knob is kept in
quarters, which is what `KNOB_RATE` makes of a millisecond; the machine is told it
rounded and keeps the complement. The GUI thread goes `idle`, `drain`, `fire`, and
`restart` between the end of a session and the start of the next; the poll thread takes
steps in between while a session runs, and may post.

**Gamepad.** One step polls one slot. A button is up or down; an axis is `back`, at
`rest`, `half` (over 0.5) or `full` (over the 0.6 that captures as well). A device may be
found with anything down, since it may have been plugged in held or have moved from
another slot, whose last buttons it does not bring. Left out: the
D-pad and the left stick, which steer without a binding, the knob's axis, and the list
of names.

**Panel and the keys.** The poll thread stores a captured input in three steps without
a lock, with any handler of the GUI thread between them. Each front end's module says
which events reach which handler and which never come: GTK repeats presses, Windows
sends system keys no handler takes, macOS sends no release under Command. Where a
release is lost by the toolkit or dropped by the front end, `missed` and `slipped`
keep it, and `NothingSticks` allows those holds and no others; `overtaken` keeps a
capture that the poll thread took away, and `MapModeIsTrue` allows that one to be waited
for. What is allowed is what goes wrong: `lost_release` and `capture_overtaken` check
the same claims without it, and are violated.

**Prefs.** The four windows differ in when a choice is stored: at once and the restart
later (GNOME), all at the end (KDE), the list at once and the rest at the end (Windows),
each when it is edited (macOS, where closing waits for the main queue). They differ as
well in what an import does to the list: KDE keeps the choice made in it, the others
select the stored BIOS again; and GNOME and KDE start a machine after the chooser that
finds no BIOS even when it was cancelled. RESET TO CONFIG may restart the machine in
between; on Windows and macOS the menus may too. An import is one step.

## 3. What the runs show

| Run | Instance | Shows |
|---|---|---|
| `core` | *Engine*: steps of up to 2, 2 instructions a frame, generation modulo 3. *Inputs*: two keys, a pad, a switch all three sources can hold, a knob of two positions, both system actions; 405,698 states | *Engine*: a stopped machine is parked and a parked one can always be woken (`StoppedMeansParked`, `NoLostWakeup`); hooks, watchpoint hits and counts of before do not act now (`NothingStale`); a counted step runs what it was asked to (`StepIsExact`); a RESET stays in its session; a stop asked for is taken at the next boundary (`StopIsPrompt`); the engine implements `DebugControl`; `astro_host_stop` returns and what was asked is served. *Inputs*: the machine has down what is held and nothing else (`MachineSeesUnion`); every hold has somebody who will let it go (`HoldsAreOwed`); the knob told is the knob (`KnobIsFollowed`); an action posted is fired (`PostsAreFired`) |
| `debug_stops` | a program of ten addresses, three calls deep, 2 lines, 2 entries in the table; 3,527,276 states up to a view | each goal ends where it says (`GoalsAreMet`); step over and step out do not miss the return they wait for (`ReturnIsNotMissed`); a watched access is not missed once the edit that watches it is done (`WatchIsNotMissed`) |
| `parts` | see the header of `PartsMC`; 618,100 states | *Sound*: in order, bounded, heard in time (`FifoSpec`, `HeardInTime`). *Pictures*: nothing is called, copied or drawn from after it is gone (`NothingIsUsedAfter`), the newest is what a display at rest shows (`ShowsTheNewest`) and it gets there (`CatchesUp`). *Interrupt line*: one answer for a raise (`OneAnswerPerRaise`). *FujiNet trace*: every packet counted once, the list redrawn (`TraceIsTrue`). *Cart*: serves the image it holds (`ServesWhatItHolds`), swaps only whole ones (`StagedIsWhole`) and implements `CartSlot` (`SlotSpec`). *Runtime*: the streams follow it (`CaptureFollows`) and its host's calls return (`CallsReturn`). *Windows of the debugger*: a stop is shown (`StopIsShown`). *Those windows, the Preferences and Windows' display*: what is at rest is current (`AtRestIsCurrent`) |
| `shell` | *Session*: two FujiNets, two requests, one push, a settings file edited by hand, a rename that may fail and does not replace. *Pads*: one player's pad, of two devices, with a button and an axis. *Panels*: three targets, two or three keys. *Pages*: three addresses, two breakpoints, two rows; 2,324,122 states | *Session*: the machine talks to the FujiNet the session says (`DialsWhatItSays`); what was started and is not used is stopped (`NothingIsLeft`); a request takes its own reply, or one that a timeout before it explains (`ReplyIsAccountedFor`); a kill leaves a whole settings file (`FileIsWhole`). *Pads*: an input has one target, saved bindings load back, a button fires once a press (`OneTargetPerInput`, `SavedLoadsBack`, `ButtonsFireOnce`). *Controllers windows*: Map mode waits for, captures and shows what it says (`MapModeIsTrue`), nothing stays held that nobody holds (`NothingSticks`), each but for what the last two runs below find. *Debugger pages*: an edit reaches what its row or box showed, what a page at rest shows is so, and what was edited is what runs (`EditsHitWhatIsShown`) |
| `hook_slots`, `input_repeat`, `gamepad_edge`, `irq_one_instruction`, `stop_note`, `second_runtime`, `lost_release`, `capture_overtaken` | the smallest in which it happens | violated: the findings below |

**Why the bounds are enough.** In `core` a step of 2 is the first that counts
down and goes on; 2 instructions a frame put the frame's end inside an instruction and
between two; modulo 3 tells no bump, one and two apart. A routine that calls itself, is
interrupted and goes three deep is the least in which step over and step out can end in
the wrong activation. In `parts`, a burst of 6 is longer than the ring of 5 and the
samples take the head round twice; three pictures are the one shown, the one in the slot
and one to go back to; six packets overflow a trace of three; an image of each kind the
cart serves differently, in two chunks, is cut before, between and after. Two keys are
enough for one to be bound to what another holds; a switch that the panel, a key and the
pad can all hold has every pair of sources; a tick of 3 quarters against a knob of 4
passes either end; "switches" moves the switches with the knob left where it is, "knob"
the knob with the switch held by its key at most, since what the machine is told of the
two has nothing in common but the moment. One button shared by a target of each player
and by one of every pad has the three scopes overlap in every way. In `shell`, three addresses are what lies
before, at and after a place, wrapping; two rows of two-byte instructions overlap; two
breakpoints are one that moves when the other goes; one row on macOS is a list shorter
than the table; and a label that reads as another address's number meets every box that
parses one. Two requests and one push put a late reply before its request's, after it,
and before another request; what the preferences do to a session
("session") needs one request, and is told apart from what a long connection does
("link"), during which they stay closed. GNOME's and Windows' panels map the dial as well,
which refuses a button; KDE's and macOS' do it with the same lines and map the trigger
only. The proofs below do without these bounds.

Deadlock is checked in every passing run. `hook_slots` and the other violated runs end
at their counterexample; `second_runtime` alone says `CHECK_DEADLOCK FALSE`, since two
threads are all it has to start. `debug_stops` compares states by the view `Relevant`,
which leaves out what no later step reads.

**Fairness.** `CoreFairSpec` asks of the part that moves what `DebugEngine!FairSpec` and
`InputFairSpec` do. The first has weak fairness of the machine thread and
of a host call that has begun: both are threads the scheduler runs. The user owes
nothing: no API call is fair, so a machine may stay stopped for ever, and
`RequestsAreServed` says so. Waking from the condition variable needs no fairness of
its own: a broadcast makes the thread runnable in the same step, and a spurious
wake-up is never required. In `parts`: weak fairness of a handler under way, of the
callback of a stop, of the displays' clock, render thread and paint messages, of the
FujiNet's service loop as long as no device blocks it, and of the log thread, which ends
when the pipe closes; strong fairness of a window's timer, which other events may
precede again and again but which the toolkit delivers for as long as the window lives.
`InputFairSpec` has weak fairness of a handler that has begun to fire, and strong
fairness of `Drain` for the same reason. No key, pad, edit or packet is fair, and the
remaining runs claim safety only.

**Findings.** Each is a run that TLC finds violated.
1. `hook_slots`: a hook slot's argument and function are stored under the engine's mutex
   and loaded without it. A detach, or the end of a session, between the two loads
   calls the hook with NULL, while `debugger.c:31-32` says that the hooks take the
   mutex the API takes.
2. `input_repeat`: RESET GAME clears every hold, and with them which key is down. The
   auto-repeat of the key that asked for it (Backspace by default) is then a press
   again, and posts RESET GAME again, where the front end passes repeats on: GNOME does;
   the other three drop them before. `input.c:33` says that the record "ignores
   auto-repeat", and `gnome/window.c:28-30` that holding the key "fires Reset Game once".
3. `gamepad_edge`: an axis is down above 0.5 and its edge is taken against the axes above
   0.6. One held in between posts a system action at every poll, while
   `gamepad_sdl.c:126` says that it "fires on the press edge only".
4. `irq_one_instruction`: in that mode the line is let go at the end of an instruction
   that the CPU sampled a tick before: a raise in its last two ticks is lost with
   interrupts on, while `machine.c:285-286` says that the CPU sampled the line during the
   instruction that just finished.
5. `stop_note` (KDE): a stop is seen before it is counted. A resync in between never
   notes it, while `DebuggerWindow.cpp:293-295` says that every park is counted so that it
   "still reaches the console".
6. `second_runtime`: a stop that gives up on a blocked runtime leaves it marked running;
   the next start takes it for started; the next stop has no thread to wait for and
   clears the mark; and the start after that runs a second runtime beside the first,
   which `fujinet_desktop_entry.cpp:722` says must not happen.
7. `lost_release` (GNOME): the main window drops the release of R while Ctrl is down, also
   of an R whose press the machine got: it stays held until R is pressed again or the
   window loses the focus. `gnome/window.c:76` says that "both press and release are
   forwarded", `astrosession.h:318-320` to call "for every press and release", and
   `input.c:165-166` that a release clears "whatever has been rebound or pressed (Ctrl)
   since". The same call is missing on Windows under Alt, which sends `WM_SYSKEYUP`, and on
   macOS under Command, of one of a modifier's two keys, and when another window takes the
   keys from the display (`DisplayView.m:139` lets go for another view of its own only);
   `KeysWin` and `KeysMac` have these.
8. `lost_release` (KDE): a control hidden with its panel while the mouse is down on it, by
   F9 or Close, has no handler that lets go of it, and stays held if Qt does not bring the
   release, while `KeypadWindow.cpp:45-47` says that "losing the grab still releases". One
   run refutes 7 and 8: its property allows either program to err, not both.
9. `capture_overtaken`: a capture begun between the poll thread's stores of
   `s_capture_have` and `s_capture_armed` is taken away by the second, and Map mode waits
   for an input nobody captures, until the user picks again or leaves; `gamepad_sdl.c:63`
   says that "simple flags suffice".

Every property of a passing run comes with a mutant: an operator just above the
one it replaces, marked *Faulty*, that makes the property fail.

**Met on the way, and modelled as it is or left out.** These contradict no line of the
repository that was found, or the contradiction needs more than the models have.
* *Frames.* `astro_host_stop` restarts the serial at 0 and the windows compare the one
  they kept for equality: `ShowsTheNewest` allows for the picture of a new session that
  carries the serial of the old one. On Windows, a device lost while no session runs
  leaves the picture blank until a frame comes; a failed upload skips that picture.
* *FujiNet.* A start during the detached shutdown reports success with nothing serving.
  Nothing reads the runtime's audio (`fujinet_desktop_read_audio`), so a second utterance
  blocks its thread and every stop takes five seconds. Two runtimes that overlap and
  take each other's capture can wait for each other in their joins.
* *Link.* A timed-out request leaves its late reply in the socket, a frame cut by a
  timeout misaligns those after it, every push restarts the deadline, and the link never
  dials again. `ReplyIsAccountedFor` says whose reply a request may then take.
* *Session.* A host that cannot start leaves the FujiNet up until the next stop. The
  settings file is whole whenever the process is killed, but on Windows, which removes
  before it renames, there may be only the temporary, and the next start takes the
  defaults. A rename that fails is not looked at: what was to be saved stays in the
  temporary alone, on Windows with the old file gone, until the next save opens it anew.
  A line longer than 1024 characters (nearly every target rebound) would be cut
  when it is read (`settings.c:49`).
* *Keys and pads.* A captured button still down at the next poll plays; a capture begun
  again before the poll thread's store of `s_capture_have` takes the input of the one
  before; a key with keysym 0 in Map mode would clear the binding. A pad that moves to
  another slot, or meets a new poll thread, with a button down fires it again: the slot's
  `btn_prev` starts at 0 (`gamepad_sdl.c:309-316`), and `ButtonsFireOnce` speaks of one
  slot, as `gamepad_sdl.c:74` does ("per-pad edge state"). On KDE a press that picks in Map
  mode sets `m_down`; if F9 hides the panel before the release, that is a release of the
  control, which fires a system action.
* *Debugger.* On KDE and macOS a register's entry that reads as a label becomes the
  label's address (GNOME and Windows take the number first). macOS lists 64 breakpoints
  of a table of 128. Windows takes a range that ends before it starts as one address, KDE
  and macOS refuse it. Windows, macOS and the console write bytes as they parse them.
  GNOME's F9 toggles the selected address also when it is scrolled away. Following the PC
  shows no line for it when no run of instructions before it lands on it.
  `astrodebug_vram_write` does not refresh the fetch. The name at an address is the first
  table's in one lookup and the last's in the other.
* *Preferences.* Importing the chosen BIOS while another stands in for it does not
  restart the machine. An import empties a BIOS file before it writes it. GNOME stores
  "external" while the stored address is none, and the restart then fails. On macOS
  posted actions are taken on key events only, so a pad's RESET waits for a key.
* *Machine.* With the Viper expansion two decodes meet `machine.c:72-75` beyond what is
  allocated; the memory map is not modelled.

## 4. What is proved

TLAPS checks, for every value of the constants under the modules' named
assumptions:

* `DebugEngine`: a count, a frame of instructions and a generation that can be
  (`MaxCountAssumption`, `InsnsPerFrameAssumption`, `GenModAssumption`);
* `AudioRing`: the order of the code's three sizes (`SizesAssumption`) and
  `BoundsAssumption`;
* `Bindings`, `Input`, `Gamepad`: targets, inputs, scopes and pads are told apart, and
  the defaults have no conflicts (`DefaultsAssumption` among them);
* `FrameSlot`: some picture, and serials from 1 (`FrameBounds`). `Cart`: an image for the
  config client, which is flat, and kinds, pages and claims for the others
  (`CartAssumptions`);
* `Irq`: a line longer than a tick, and instructions longer than the ticks of their fetch
  (`TimesAssumption`). `FujiRuntime`: the host, its threads and the streams are told
  apart (`ThreadsAssumption`);
* `Link`, `Session`: "no peer" is no peer (`PeersAssumption`), and the endpoints and
  files are told apart (`EndpointsAssumption`, `FilesAssumption`);
* `Breakpoints`, `DebugStops`: a table of one entry or more, two lines or more, and a
  program in its memory, whose I/O instructions name ports (`ProgramAssumption`);
* `FujiTrace`: a trace of one line or more, and packets that have a header and are made
  of numbers (`TraceBounds`). `Panel`: a target is none of the states of Map mode and not
  "no target" (`PanelBounds`). `DebugEdits`, `DebugPages`: ROM, screen, places and labels
  lie in the memory (`AddrBounds`), and a window has a row or more, with the PC's among
  them (`PagesBounds`).

`FrameBounds`, `CartAssumptions`, `TraceBounds`, `PanelBounds`, `AddrBounds` and
`PagesBounds` are hypotheses of the theorems rather than assumptions of their modules,
which are instantiated; `PartsMC` and `ShellMC` assume them of their instances, so that
TLC evaluates them.

Every invariant below is proved the same way: it holds at the start, each action keeps it
(one lemma per group of conjuncts, one step per action), and it implies the property. The
properties are seldom inductive alone; what each proof had to add says why they hold.

* `DebugEngine_proofs`: type correctness, the invariants of the run (the parts of
  `NothingStale` by themselves and together, `NothingIsStale`), both action
  properties, and the refinement of `DebugControl`. The invariant `IInv` adds where the
  two threads can be at the same time (`Lifecycle`), that a hook or a park is inside a
  frame (`FrameBudget`), that a stop somebody waits for is armed on a machine with its
  hook in (`StopIsArmed`), that a park leaves no watchpoint hit (`PendingIsUnparked`),
  and the sum a counted step keeps: the instructions left and those run make up those
  asked for (`StepAccount`).
* `DebugStops_proofs`: type correctness of table, machine and engine; that a goal's stop
  is announced where the goal was set (`GoalsEndWhereTheySay`) and a watched access stops
  the machine (`WatchedAccessStops`); that the maps are the table's whenever nobody edits
  it, and ids stay unique. For the goals, the invariant adds that the word the stepped
  routine returns to is on the stack (`MarkIsOnStack`) and lies where the guard of the
  goal says (`MarkIsGuarded`): a stack pointer beyond the guard is then one past that
  word. Lines and frames are the sum of those taken off the count and the one that the
  next boundary takes off (`TurnsAreCounted`). For the watchpoints, `HitIsPending` follows
  an access from the map's answer, through the hook, to the boundary; `WatchedIsSeen`
  shows that the maps and the installed hook miss no enabled entry.
* `Machine_proofs`, of the audio ring: type correctness, that the ring holds the newest samples,
  the gate, the bound on lag, the absence of dribble, that sound is heard in time
  (`SoundIsHeardInTime`), and the refinement of `AudioFifo`. The invariant adds that the
  ring never claims more than was made. The work is in the indices: `ModCases` says what
  `%` does to an index at most a lap out, `ModPlus` that going on from a reduced index is
  the same as reducing once, `ModBack` how far from the head a cell is. `PublishHolds`
  then splits a cell by whether the burst reached it.
  Of the interrupt line: type correctness, and that a raise is answered once and in time
  (`RaisesAreAnsweredOnce`). The invariant adds that the pin is the line as of the last
  tick (`PinFollows`), that a line up after its raise was entered is acknowledged before
  the entry is over, and what the CPU has sampled of an answered raise is gone before it
  fetches again (`AnswersAreTold`), that a line up for two ticks has been sampled
  (`LineIsSampled`), and that the deadline counts the dots left of the frame
  (`DeadlineIsFrameEnd`, for any frame; `FrameLeft` has the products).
  Of the pictures' slot: type correctness, nobody is called after
  unregistering, one event in flight, and the newest picture is the one shown at rest
  (`FrameShowsTheNewest`). The invariant adds that feed and host agree on who is
  registered (`FeedIsRegistered`), that a serial stands for one picture of a session
  (`SerialsTell`), and that a picture not shown yet is on its way (`OnItsWay`). Of GNOME's
  display: type correctness and that no texture borrows a buffer that is free, given away
  or gone (`GtkBuffersAreSafe`), which needs that the clock runs for a widget that is
  there (`TickIsMapped`); `WhatGoesAwayIsNotUsed` has both. Of Windows': a picture that its
  thread takes for drawn is (`WinDisplayIsCurrent`), since a serial that is the slot's is
  of the slot's session (`WinSerialsTell`) and each loop has its mode (`LoopIsOfMode`).
* `FujiNet_proofs`, of the cart: type correctness, that one whole image is served and what is published
  is seen (`CartServesWhatItHolds`), that only a whole image is ever staged
  (`CartStagedIsWhole`), and the refinement of `CartSlot`. The invariant adds whose the
  bank selects and the pages are (`ServingIsPlanned`), that a transaction runs on a live
  mailbox (`BusyIsLive`), what is staged and with which registers (`StagingIsReady`), and
  that a stream's buffer is a prefix of the image that it carries (`BufferIsPushed`):
  a commit that counts its bytes has the whole of it.
  Of the runtime, under the host that stops no runtime it has let be: type correctness,
  that the streams follow it and are put back (`CaptureIsUndone`), and that it is alone
  (`RuntimeIsAlone`). The invariant says of the one thread that is alive what of the
  capture it has at each of its steps (`CaptureOf`), and that a host which has seen the
  runtime stop has no thread left, one that waits for a start a thread that has not
  served yet (`HostKnows`).
  Of the trace: it tells every packet once and its newest line is the newest packet
  (`TheTraceTellsTheWire`), and a list that was refreshed is the trace
  (`TheListIsTheTrace`). That a packet is decoded to its own bytes is an induction over
  the bytes fed to the decoder, and what the folds leave one over their passes; `TraceInv`
  then adds what the line that is held back looks like (`TraceOK`), that what is listed,
  held back and fallen adds up to what was sent (`WireIsTold`), and that the newest line
  has the newest serial, so that a list with that serial and as many lines is the trace
  (`ListIsOf`).
* `Session_proofs`: type correctness and the run's four invariants. For the link,
  `TakenInOrder` counts the replies that were taken: what is on the wire answers a request
  after those, in order, so a reply that is not one's own is one that a timeout left. For
  the session, the invariant adds which call the GUI thread can be in while what runs
  (`Calls`), what of it the call still has to stop (`Lifetimes`), and who has yet to read
  the settings that changed (`SettingsAreRead`).
* `Input_proofs`: type correctness and the run's invariants. `IInv` adds that
  `g_keys_out` is the union also while nothing runs (`OutIsUnion`), that a running
  machine has what it was told (`MachineIsTold`, `KnobIsTold`), and that a session
  starts when none runs (`StartIsFirst`): the changes `Push` tells are then all there
  is to tell (`PushTells`). Of the bindings it needs the table's type only.
* `Gamepad_proofs`: each operation of the binding table keeps it typed, free of conflicts
  and equal to what its saved overrides load to (`BindingsInv`; `OverridesLoadBack` is the
  heart of it), through Map mode and every relaunch; type correctness; and held buttons
  fire once. The invariant adds that a button down at the last poll is remembered as such
  (`Remembered`).
* `FrontEnds_proofs`, of the four debugger windows: at rest they show the machine
  (`WindowsAtRestAreCurrent`). The invariant says what is drawn at each place
  of the GUI thread unless the generation has moved (`DrawnIsCurrent`): a stop moves it,
  and only the GUI thread lets the machine go. Of the Preferences: `PreferencesAreApplied`.
  The machine may differ from what is stored only while the window knows of the change
  (`ChangesAreKnown`), and who imports a BIOS has a machine or will get one
  (`BiosIsBooted`).
  Of the Controllers windows: nothing stays held (`NothingSticksAnywhere`) and
  Map mode is what it says (`MapModeIsTrueAnywhere`). They share that the keys
  held are down or missed (`KeysAreDown`); the rest is why each toolkit delivers the
  release: but on macOS no key holds once another program has the focus
  (`NobodyHoldsAway`), GNOME's main window never forwards F9 (`GtkKeepsF9`), and a control
  under the mouse is the one whose release lets go of it, with Map mode off
  (`KdeWillLetGo`, `GtkWillLetGo`; `DownIsHeld` on Windows and macOS).
  Of the pages: an edit reaches what its row or box showed, what is shown at rest is so,
  and what was edited is what runs (`EditsHitTheirRow`), in one theorem over the four front
  ends. `PagesInv` says of an engine that its ids are used once and that it runs what it
  has fetched (`Engines`); of a window, that its lines, rows and selection are those of a
  refresh it had (`Views`); between the two, that a breakpoint which the list knows and
  which is still there is at the address the list says (`IdsKnown`), and that the page of a
  stopped machine is current (`Shows`). Each group of handlers has a lemma that it keeps
  this (`...Keep`). What the disassembly shows before and after an address is a recursive
  function; that it lists the PC when it says it does is proved by induction over the
  rows (`RunComesToIt`, `PcIsListed`).

**Induction.** The library's induction theorems take an operator, which the installed
provers cannot instantiate. Where a proof needs induction all the same, it states what
is to be shown as a set of numbers, and shows from the well-foundedness of the naturals
that a set with 0 which is closed under successor has them all.

Only model-checked, and why:
* liveness (`HostStopReturns`, `RequestsAreServed`, `CatchesUp`, `StopIsShown`,
  `CallsReturn`, `PostsAreFired`) is out of the prover's reach;
* `ReturnIsNotMissed` is true of the program in the run, not of every program: a handler
  that pops more than it pushed comes back below the level stepped from, and no boundary
  is then the return that was waited for;
* what a host that stops a runtime it has let be meets: `second_runtime` refutes
  `OneRuntime` there;
* `OneInstrIsSampled`, which `irq_one_instruction` refutes, and the properties of the
  other violated runs.

## 5. Plan

Done: the modules above, and the proofs of section 4: every safety property of the
passing runs that holds for all values of the constants is a theorem. What could come
next is a wider model, in this order: the drawing and the memory map of the machine
(`video.c`, `machine.c`), of which the models have the timing only; the D-pad and stick of
`Gamepad`; the I/O tab of the debugger windows.

Not modelled, and why:
* the Z80's instructions (`z80.h`, vendored) but for the fetch, the interrupt sampling
  and the entries: its decoder is data, without state the rest of the system watches;
* drawing, sound synthesis and the memory map (`video.c`, `sound.c`, `machine.c`): pure
  data paths that a comparison with the hardware tests better;
* `z80dasm.c`, `vidview.c`, the wording of prompt, labels and notices, `hid_keys.c`:
  tables and text;
* the execution trace and the saving of a program: a ring and a file written under the
  engine's mutex, with no step of another thread in between (`save dis` holds it for the
  whole file);
* conditions of breakpoints (`expr.c`): a parser and an evaluator over a snapshot, whose
  outcome is a choice in `Breakpoints`;
* `zipread.c` and `paths.c`: file formats and path strings;
* the Controllers window's drawing and the dials' arithmetic, menus and About boxes;
* a stop that times out in `Session`: `FujiRuntime` has it.
