------------------------------ MODULE Session ------------------------------
(***************************************************************************)
(* One session of the emulator as its front end runs it: the settings file, *)
(* the FujiNet runtime in this process and the one somewhere else, the      *)
(* machine and its link, the window and its preferences                     *)
(* (core/src/session.c, settings.c, fujinet_runtime.c, core/astro/host.c,   *)
(* and the front ends around them).                                         *)
(*                                                                          *)
(* The GUI thread is `at` some step of a call; the machine thread, the      *)
(* runtime and the other FujiNet go on meanwhile, and the process may be    *)
(* killed at any step. What the link carries is Link's.                     *)
(***************************************************************************)
EXTENDS Link

CONSTANTS
  BuiltIn,         \* 127.0.0.1:11500, and the runtime that listens there
  Other,           \* the address of a FujiNet that is somebody else's
  NoAddress,       \* what a settings file may say that is no address
  NoFile, Cut,     \* a settings file that is not there, or is cut short
  RenameReplaces   \* FALSE on Windows: the file is removed first

ASSUME EndpointsAssumption ==
  /\ Peers = {BuiltIn, Other} /\ BuiltIn # Other
  /\ NoAddress \notin Peers \cup {NoPeer}

Settings == [external : BOOLEAN, address : Peers \cup {NoAddress}]
ASSUME FilesAssumption ==
  NoFile # Cut /\ {NoFile, Cut} \cap Settings = {} /\ RenameReplaces \in BOOLEAN

Defaults == [external |-> FALSE, address |-> BuiltIn]

VARIABLES
  (* the settings *)
  disk,            \* the settings file
  tmp,             \* the file written first
  settings,        \* in memory
  dirty,
  stale,           \* history: they changed since a start last read them
  (* the session and the GUI thread *)
  at,              \* its step
  then,            \* what follows the step it is at
  running,         \* s->running
  external, endpoint,
  built_in,        \* s->fujinet_running
  dialog, changed, \* the preferences are open; they changed something
  (* the host and its thread *)
  host, stop_req, mt, dial,
  (* the FujiNets *)
  listening,       \* the built-in one takes connections
  refused          \* history: a machine could not start, its FujiNet was left up

file == <<disk, tmp, settings, dirty, stale>>
call == <<at, then>>
session == <<running, external, endpoint, built_in>>
window == <<dialog, changed>>
machine == <<host, stop_req, mt, dial>>
vars == <<file, call, session, window, machine, listening, refused, linkVars>>

TypeOK ==
  /\ LinkTypeOK
  /\ disk \in Settings \cup {NoFile, Cut} /\ tmp \in Settings \cup {NoFile, Cut}
  /\ settings \in Settings
  /\ {dirty, stale, running, external, built_in, dialog, changed,
      host, stop_req, refused} \subseteq BOOLEAN
  /\ at \in {"idle", "stop", "join", "runtime", "store", "write", "remove", "rename",
             "start", "fujinet", "wait", "host", "gone"}
  /\ then \in {"none", "load", "start", "quit", "end"}
  /\ endpoint \in Peers /\ dial \in Peers
  /\ mt \in {"none", "dial", "frame", "done"}
  /\ listening \in BOOLEAN

Init ==
  /\ disk \in Settings \cup {NoFile} /\ tmp = NoFile     \* edited by hand, perhaps
  /\ settings = Defaults /\ dirty = FALSE /\ stale = FALSE
  /\ at = "gone" /\ then = "none"
  /\ running = FALSE /\ external = FALSE /\ endpoint = BuiltIn /\ built_in = FALSE
  /\ dialog = FALSE /\ changed = FALSE
  /\ host = FALSE /\ stop_req = FALSE /\ mt = "none" /\ dial = BuiltIn
  /\ listening = FALSE
  /\ refused = FALSE
  /\ LinkInit


\* The FujiNet they name. No address at all is the built-in one's, whoever listens.
Named == IF settings.external THEN settings.address ELSE BuiltIn

-----------------------------------------------------------------------------
(* The settings file. *)

\* astrosession_settings_flush as it is called: nothing to do, or on to the file
Flush(next) == at' = IF dirty' THEN "write" ELSE next

\* Faulty: the settings file itself is written.
WriteInPlace ==
  /\ at = "write"
  /\ at' = "rename"
  /\ disk' \in {settings, Cut}
  /\ tmp' = settings
  /\ UNCHANGED <<settings, dirty, stale, then, session, window, machine,
                 listening, refused, linkVars>>

\* ... which cannot be opened, or is written, whole or as far as the disk goes
WriteTmp ==
  /\ at = "write"
  /\ \/ at' = "store" /\ UNCHANGED tmp
     \/ /\ at' = IF RenameReplaces THEN "rename" ELSE "remove"
        /\ tmp' \in {settings, Cut}
  /\ UNCHANGED <<disk, settings, dirty, stale, then, session, window,
                 machine, listening, refused, linkVars>>

RemoveOld ==
  /\ at = "remove"
  /\ disk' = NoFile
  /\ at' = "rename"
  /\ UNCHANGED <<tmp, settings, dirty, stale, then, session, window,
                 machine, listening, refused, linkVars>>

\* ... or fails, which nobody looks at.
Rename ==
  /\ at = "rename"
  /\ (disk' = tmp /\ tmp' = NoFile) \/ UNCHANGED <<disk, tmp>>
  /\ dirty' = FALSE
  /\ at' = "store"
  /\ UNCHANGED <<settings, stale, then, session, window, machine,
                 listening, refused, linkVars>>

\* set_locked, and what astrosession_set_str does after it
Set(new, next) ==
  /\ settings' = new
  /\ dirty' = (dirty \/ new # settings)
  /\ stale' = (stale \/ new # settings)
  /\ Flush(next)

\* settings_init: a line cut short is no setting, or another one.
Loaded(f) == IF f \in Settings THEN {f} ELSE IF f = NoFile THEN {Defaults} ELSE Settings

-----------------------------------------------------------------------------
(* The process: astrosession_new and main, astrosession_free, and its end. *)

Launch ==
  /\ at = "gone"
  /\ settings' \in Loaded(disk)
  /\ dirty' = FALSE /\ stale' = FALSE
  /\ endpoint' = BuiltIn
  /\ at' \in {"start", "idle"}        \* with a BIOS, or none yet
  /\ UNCHANGED <<disk, tmp, then, running, external, built_in, window,
                 machine, listening, refused, linkVars>>

Ended ==
  /\ at' = "gone" /\ then' = "none"
  /\ settings' = Defaults /\ dirty' = FALSE /\ stale' = FALSE
  /\ running' = FALSE /\ external' = FALSE /\ endpoint' = BuiltIn /\ built_in' = FALSE
  /\ dialog' = FALSE /\ changed' = FALSE
  /\ host' = FALSE /\ stop_req' = FALSE /\ mt' = "none" /\ dial' = BuiltIn
  /\ listening' = FALSE
  /\ refused' = FALSE
  /\ Close
  /\ UNCHANGED <<disk, tmp>>

Killed == at # "gone" /\ Ended

\* The window is closed: astrosession_free
Quit ==
  /\ at = "idle"
  /\ at' = "stop" /\ then' = "quit"
  /\ UNCHANGED <<file, session, window, machine, listening, refused, linkVars>>

-----------------------------------------------------------------------------
(* astrosession_stop, and what a call does after it. *)

Stop ==
  /\ at = "stop"
  /\ \/ /\ running
        /\ at' = "join" /\ stop_req' = TRUE     \* the pads, the sound, the machine
     \/ /\ ~running
        /\ at' = "store" /\ UNCHANGED stop_req
  /\ UNCHANGED <<file, then, session, window, host, mt, dial, listening,
                 refused, linkVars>>

\* astro_host_stop's join, and astro_machine_free with the cartridge's link
Join ==
  /\ at = "join"
  /\ mt = "done"
  /\ host' = FALSE /\ mt' = "none"
  /\ Close
  /\ at' = "runtime"
  /\ UNCHANGED <<file, then, session, window, stop_req, dial, listening,
                 refused>>

\* Faulty: the FujiNet is left to run.
LeaveRuntime ==
  /\ at = "runtime"
  /\ running' = FALSE
  /\ refused' = (refused /\ ~built_in)
  /\ at' = "store"
  /\ UNCHANGED <<file, then, external, endpoint, built_in, window, machine,
                 listening, linkVars>>

\* fujinet_stop
StopRuntime ==
  /\ at = "runtime"
  /\ listening' = (listening /\ ~built_in)
  /\ built_in' = FALSE /\ external' = FALSE /\ running' = FALSE
  /\ refused' = (refused /\ ~built_in)
  /\ at' = "store"
  /\ UNCHANGED <<file, then, endpoint, window, machine, linkVars>>

\* Stopped, and the settings flushed when they had to be: on with the call.
Stored ==
  /\ at = "store"
  /\ \/ /\ then = "load"                          \* astrosession_load_cart
        /\ dirty' \in {dirty, TRUE}               \* another cartridge, or the same
        /\ Flush("store")
        /\ then' = "start"
        /\ UNCHANGED <<disk, tmp, settings, stale, session, window, machine,
                       listening, refused, linkVars>>
     \/ /\ then = "start"
        /\ stale' = FALSE                           \* astrosession_default_opts
        /\ at' = "start" /\ then' = "none"
        /\ UNCHANGED <<disk, tmp, settings, dirty, session, window, machine,
                       listening, refused, linkVars>>
     \/ /\ then = "none"
        /\ at' = "idle"
        /\ UNCHANGED <<file, then, session, window, machine, listening,
                       refused, linkVars>>
     \/ /\ then = "quit" /\ dirty                 \* once more before the end
        /\ at' = "write" /\ then' = "end"
        /\ UNCHANGED <<file, session, window, machine, listening, refused,
                       linkVars>>
     \/ then = "end" /\ Ended
     \/ then = "quit" /\ ~dirty /\ Ended

-----------------------------------------------------------------------------
(* astrosession_start. *)

\* The BIOS and the cartridge's file: without one or the other nothing starts,
\* whichever the settings name.
Start ==
  /\ at = "start"
  /\ at' \in {"fujinet", "idle"}
  /\ UNCHANGED <<file, then, session, window, machine, listening, refused,
                 linkVars>>

\* fujinet_start: it is up, or is started, and waited for; or cannot be, and the
\* machine runs without.
StartRuntime ==
  \/ built_in' = TRUE /\ at' = "wait"
  \/ ~built_in /\ at' = "host" /\ UNCHANGED built_in

\* The FujiNet to dial: somebody else's, or the built-in one.
StartFujiNet ==
  /\ at = "fujinet"
  /\ \/ /\ settings.external /\ settings.address = NoAddress
        /\ external' = FALSE /\ endpoint' = BuiltIn
        /\ at' = "idle"
        /\ UNCHANGED built_in
     \/ /\ settings.external /\ settings.address # NoAddress
        /\ external' = TRUE /\ endpoint' = settings.address
        /\ at' = "host"
        /\ UNCHANGED built_in
     \/ /\ ~settings.external
        /\ external' = FALSE /\ endpoint' = BuiltIn
        /\ StartRuntime
  /\ UNCHANGED <<file, then, running, window, machine, listening, refused,
                 linkVars>>

\* fujinet_wait_for_boip: until it listens, or 3 seconds. It may listen by then
\* and not have been seen to.
Wait ==
  /\ at = "wait"
  /\ at' = "host"
  /\ UNCHANGED <<file, then, session, window, machine, listening, refused,
                 linkVars>>

\* astro_host_start refuses while a machine runs; or has no memory or no thread
HostRefused ==
  /\ at = "host"
  /\ at' = "idle"
  /\ refused' = (refused \/ (built_in /\ ~host))
  /\ UNCHANGED <<file, then, session, window, machine, listening, linkVars>>

\* ... or starts, and the session with it
HostStarted ==
  /\ at = "host"
  /\ ~host
  /\ host' = TRUE /\ stop_req' = FALSE /\ mt' = "dial" /\ dial' = endpoint
  /\ running' = TRUE
  /\ at' = "idle"
  /\ UNCHANGED <<file, then, external, endpoint, built_in, window,
                 listening, refused, linkVars>>

-----------------------------------------------------------------------------
(* The window. *)

\* Faulty: the machine that runs is left alone.
RestartOver ==
  /\ at' = "store" /\ then' = "start"

\* restart_session: astrosession_stop, astrosession_default_opts, astrosession_start
Restart ==
  /\ at' = "stop" /\ then' = "start"

\* astrosession_is_running
IsRunning == running /\ host

Still == <<file, session, machine, listening, refused, linkVars>>

\* Open Cartridge, and RESET TO CONFIG from the menu
LoadCart ==
  /\ at = "idle" /\ ~dialog
  /\ at' = "stop" /\ then' = "load"
  /\ UNCHANGED <<Still, window>>

\* ... and from a bound key or pad, whatever is open: the window's timer fires it.
Fire ==
  /\ at = "idle"
  /\ at' = "stop" /\ then' = "load"
  /\ UNCHANGED <<Still, window>>

OpenPreferences ==
  /\ at = "idle" /\ ~dialog
  /\ dialog' = TRUE /\ changed' = FALSE
  /\ UNCHANGED <<Still, at, then>>

\* external_toggled and addr_changed, which saves no text that is no address
Change(new) ==
  /\ at = "idle" /\ dialog
  /\ new # settings
  /\ new.address # NoAddress \/ new.address = settings.address
  /\ Set(new, "idle")
  /\ changed' = TRUE
  /\ UNCHANGED <<disk, tmp, then, session, dialog, machine,
                 listening, refused, linkVars>>

\* on_closed: what changed restarts the machine; when none runs, a BIOS imported
\* starts it.
ClosePreferences ==
  /\ at = "idle" /\ dialog
  /\ dialog' = FALSE /\ changed' = FALSE
  /\ \/ (changed \/ ~IsRunning) /\ Restart
     \/ ~changed /\ UNCHANGED <<at, then>>
  /\ UNCHANGED Still

\* Import BIOS from the menu: the machine is started when none runs.
Import ==
  /\ at = "idle" /\ ~dialog
  /\ ~IsRunning
  /\ Restart
  /\ UNCHANGED <<Still, window>>

-----------------------------------------------------------------------------
(* The machine thread. *)

others == <<file, call, session, window, host, stop_req, dial, listening, refused>>

\* astro_cart_start: dials once. Nobody listens there, or a cartridge without
\* the mailbox: no link, for as long as this machine runs.
Dial ==
  /\ mt = "dial"
  /\ \/ (dial = BuiltIn => listening) /\ Connect(dial)
     \/ UNCHANGED linkVars
  /\ mt' = "frame"
  /\ UNCHANGED others

\* Between frames it looks whether to stop.
LeaveLoop ==
  /\ mt = "frame" /\ ~reading
  /\ stop_req
  /\ mt' = "done"
  /\ UNCHANGED <<others, linkVars>>

ConsoleAsks == mt = "frame" /\ Request /\ UNCHANGED <<others, mt>>
Reads == (ReadOn \/ ReadFrame) /\ UNCHANGED <<others, mt>>
GivesUp == Timeout /\ UNCHANGED <<others, mt>>

MachineThread == Dial \/ LeaveLoop \/ Reads \/ GivesUp

-----------------------------------------------------------------------------
(* The FujiNets. *)

\* The built-in one listens some time after it was started.
Listens ==
  /\ built_in /\ ~listening
  /\ listening' = TRUE
  /\ UNCHANGED <<file, call, session, window, machine, refused, linkVars>>

FujiNets ==
  \/ Listens
  \/ (fd = BuiltIn => listening) /\ (Reply \/ Push) /\ UNCHANGED <<others, mt>>

-----------------------------------------------------------------------------
GuiSteps ==
  \/ WriteTmp \/ RemoveOld \/ Rename \/ Stop \/ Join \/ StopRuntime \/ Stored
  \/ Start \/ StartFujiNet \/ Wait \/ HostRefused \/ HostStarted

User ==
  \/ Launch \/ Quit \/ Killed
  \/ LoadCart \/ Fire
  \/ OpenPreferences \/ ClosePreferences \/ Import
  \/ \E new \in Settings : Change(new)

Next == GuiSteps \/ User \/ MachineThread \/ ConsoleAsks \/ FujiNets

Spec == Init /\ [][Next]_vars

-----------------------------------------------------------------------------
(* Properties. *)

\* The machine that runs dials the FujiNet that the settings named when it was
\* started, which is the one the session says it does
\* (astrosession_boip_endpoint, astrosession_fujinet_external), through starts
\* that fail and FujiNets left over from them. Once the preferences are closed
\* and no call is under way, those are the settings that are stored: none waits
\* for a restart that nobody asked for.
DialsWhatItSays ==
  /\ host => /\ running
             /\ dial = endpoint
             /\ ~stale => dial = Named /\ external = settings.external
             /\ at = "idle" /\ ~dialog => ~stale
  /\ running => host \/ at = "runtime"

\* With no session and no call under way nothing is left running, unless a
\* machine could not be started.
NothingIsLeft ==
  at = "idle" /\ ~running => ~host /\ mt = "none" /\ fd = NoPeer /\ (built_in => refused)

\* Killed at any step, the settings are on the disk, the old ones or the new: the
\* file only ever becomes the one that was written beside it, as far as the disk
\* went, and where it has to be removed first that one is there. (After a rename
\* that failed there it is the only one, until the next save opens it.)
FileIsWhole == [][disk' \in {tmp, NoFile} /\ tmp # NoFile]_disk
=============================================================================
