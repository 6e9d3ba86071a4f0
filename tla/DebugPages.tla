----------------------------- MODULE DebugPages -----------------------------
(***************************************************************************)
(* The pages of the debugger's window, in each of the four front ends:     *)
(* the registers and the memory, the disassembly, the screen, the list of  *)
(* breakpoints, and the console below them. The pages read the engine when *)
(* they are refreshed and the user edits what they show; what the engine   *)
(* holds is DebugEdits. When the window ticks, settles and comes to rest   *)
(* is DebugWindow and its siblings: here a refresh is one step.            *)
(*                                                                         *)
(* A handler is named for its front end. A page not showing is left empty: *)
(* it is filled when its tab is selected.                                  *)
(***************************************************************************)
EXTENDS DebugEdits, SequencesExt

CONSTANTS
  WindowRows,      \* rows of disassembly
  Above,           \* of them above the PC, when following it
  MacRows,         \* breakpoints the list of the macOS window holds
  Topics,          \* bound: what a behaviour's user works on, tabs and console
  NoAddr

Tabs == {"cpu", "disasm", "video", "breaks"}
PagesBounds == WindowRows \in Nat \ {0} /\ Above \in 0..(WindowRows - 1) /\ MacRows \in Nat

VARIABLES
  fe,              \* the front end
  topics,          \* what this behaviour's user works on
  engine,          \* DebugEdits' Engine
  view,            \* the window: see View
  picked,          \* history: the breakpoint whose row the user selected, or 0
  wrong            \* history: an edit reached another place than the row showed

pages == <<fe, topics, engine, view, picked, wrong>>

\* The window holds
\*   page       the tab that shows
\*   seen       the engine's generation is the one last refreshed for
\*   entry      the text of each register's entry; put: what GNOME's last put there
\*   stale      history: the entries the last refresh left alone, or typed in since
\*   focus      the entry that has the keyboard, or "none"
\*   flag       the flag's check box
\*   base, cell the memory shown: its address (a page is one address), its byte
\*   follow, top, selected        the disassembly
\*   text, line_addr              its lines, and the address behind each
\*   picture    the screen RAM drawn
\*   list       the rows of breakpoints; bps: the table they were filled from
\*   sel        the row selected, or 0
PagesInit ==
  /\ fe \in {"gtk", "kde", "win", "mac"}
  /\ topics \in Topics
  /\ engine = AtReset
  /\ view = [page |-> "none", seen |-> FALSE,
             entry |-> [r \in Regs |-> 0], put |-> [r \in Regs |-> 0], stale |-> {},
             focus |-> "none", flag |-> 0, base |-> 0, cell |-> 0,
             follow |-> TRUE, top |-> 0, selected |-> NoAddr, text |-> <<>>,
             line_addr |-> <<>>, picture |-> <<>>, list |-> <<>>, bps |-> <<>>, sel |-> 0]
  /\ picked = 0 /\ wrong = FALSE

-----------------------------------------------------------------------------
(* Refreshing a page. *)

\* The registers and the flag, but for the entries kept; and the memory.
CpuPage(w, e, kept) ==
  [w EXCEPT !.entry = [r \in Regs |-> IF r \in kept THEN @[r] ELSE e[r]],
            !.stale = kept, !.flag = e.carry, !.cell = e.mem[w.base]]
HasFocus(w) == {w.focus} \cap Regs

\* set_entry: a focused entry is kept if what it holds was typed over what was put
GtkTyped(w) == {r \in HasFocus(w) : w.entry[r] # w.put[r]}
GtkCpuPage(w, e) ==
  [CpuPage(w, e, GtkTyped(w)) EXCEPT !.put = [r \in Regs |-> IF r \in GtkTyped(w) THEN @[r]
                                                            ELSE e[r]]]
\* ... the others keep it whether or not anything was typed
KdeCpuPage(w, e) == CpuPage(w, e, HasFocus(w))
WinCpuPage(w, e) == CpuPage(w, e, HasFocus(w))
MacCpuPage(w, e) == CpuPage(w, e, HasFocus(w))

\* Lines and their addresses, from the window's top.
Listing(w, e) ==
  LET lines == Disassemble(e, w.top, WindowRows)
  IN  [w EXCEPT !.text = lines, !.line_addr = [i \in DOMAIN lines |-> lines[i].address]]
Follow(w, e) == IF w.follow THEN [w EXCEPT !.top = RowAddress(e, e.pc, -Above)] ELSE w

\* GNOME gives a label a line of its own, with no address, and starts at 0 where the
\* rows above the PC would wrap.
LabelLine(line) == [line EXCEPT !.address = NoAddr]
GtkLines(line) == IF line.label THEN <<LabelLine(line), line>> ELSE <<line>>
GtkFollow(w, e) ==
  LET top == RowAddress(e, e.pc, -Above)
  IN  IF w.follow THEN [w EXCEPT !.top = IF top > e.pc THEN 0 ELSE top] ELSE w

\* Faulty: the addresses are the instructions', not the lines'.
GtkDisasmByRow(w, e) ==
  LET to == GtkFollow(w, e)
      lines == Disassemble(e, to.top, WindowRows)
  IN  [to EXCEPT !.text = FlattenSeq([i \in DOMAIN lines |-> GtkLines(lines[i])]),
                 !.line_addr = [i \in DOMAIN lines |-> lines[i].address]]

GtkDisasmPage(w, e) ==
  LET to == GtkFollow(w, e)
      lines == Disassemble(e, to.top, WindowRows)
      text == FlattenSeq([i \in DOMAIN lines |-> GtkLines(lines[i])])
  IN  [to EXCEPT !.text = text, !.line_addr = [i \in DOMAIN text |-> text[i].address]]
KdeDisasmPage(w, e) == Listing(Follow(w, e), e)
WinDisasmPage(w, e) == Listing(Follow(w, e), e)
MacDisasmPage(w, e) == Listing(Follow(w, e), e)

\* Drawn again only when the snapshot differs from the one drawn.
VideoPage(w, e) == IF w.picture = Snapshot(e) THEN w ELSE [w EXCEPT !.picture = Snapshot(e)]
GtkVideoPage(w, e) == VideoPage(w, e)
KdeVideoPage(w, e) == VideoPage(w, e)
WinVideoPage(w, e) == VideoPage(w, e)
MacVideoPage(w, e) == VideoPage(w, e)

\* The list is filled again only when the table is another than it was filled from:
\* a click is not pulled out from under the pointer. (A label is not compared.)
Row(e, b) == [id |-> b.id, start |-> b.start, enabled |-> b.enabled,
              label |-> fe = "mac" /\ Labelled(e, b.start)]
Rows(e, t) == [i \in DOMAIN t |-> Row(e, t[i])]
BpList(w, e, t) ==
  IF w.bps = t THEN w ELSE [w EXCEPT !.bps = t, !.list = Rows(e, t)]
GtkBpList(w, e) == BpList(w, e, e.bp)
KdeBpList(w, e) == BpList(w, e, e.bp)
MacBpList(w, e) == BpList(w, e, SubSeq(e.bp, 1, Lower(MacRows, Len(e.bp))))

RowOf(t, id) == IF \E i \in DOMAIN t : t[i].id = id THEN CHOOSE i \in DOMAIN t : t[i].id = id
                ELSE 0

\* Faulty: the selection stays on the row, whichever breakpoint is there.
WinBpListByRow(w, e) ==
  [BpList(w, e, e.bp) EXCEPT !.sel = IF w.sel <= Len(e.bp) THEN w.sel ELSE 0]

\* The selected breakpoint stays selected, wherever its row has gone.
WinBpList(w, e) ==
  LET id == IF w.sel = 0 THEN 0 ELSE w.bps[w.sel].id
  IN  IF w.bps = e.bp THEN w ELSE [BpList(w, e, e.bp) EXCEPT !.sel = RowOf(e.bp, id)]

\* What the tab that shows is refreshed with.
GtkPage(w, e) ==
  CASE w.page = "cpu" -> GtkCpuPage(w, e) [] w.page = "disasm" -> GtkDisasmPage(w, e)
    [] w.page = "video" -> GtkVideoPage(w, e) [] w.page = "breaks" -> GtkBpList(w, e)
    [] w.page = "none" -> w
KdePage(w, e) ==
  CASE w.page = "cpu" -> KdeCpuPage(w, e) [] w.page = "disasm" -> KdeDisasmPage(w, e)
    [] w.page = "video" -> KdeVideoPage(w, e) [] w.page = "breaks" -> KdeBpList(w, e)
    [] w.page = "none" -> w
WinPage(w, e) ==
  CASE w.page = "cpu" -> WinCpuPage(w, e) [] w.page = "disasm" -> WinDisasmPage(w, e)
    [] w.page = "video" -> WinVideoPage(w, e) [] w.page = "breaks" -> WinBpList(w, e)
    [] w.page = "none" -> w
MacPage(w, e) ==
  CASE w.page = "cpu" -> MacCpuPage(w, e) [] w.page = "disasm" -> MacDisasmPage(w, e)
    [] w.page = "video" -> MacVideoPage(w, e) [] w.page = "breaks" -> MacBpList(w, e)
    [] w.page = "none" -> w
Page(w, e) ==
  CASE fe = "gtk" -> GtkPage(w, e) [] fe = "kde" -> KdePage(w, e)
    [] fe = "win" -> WinPage(w, e) [] fe = "mac" -> MacPage(w, e)

Unseen(w) == [w EXCEPT !.seen = FALSE]

\* What a handler leaves of the window, of the engine as it left it: the tab and the
\* status refreshed, and so the engine seen; or the one page, and the tick has the rest.
GtkSynced == [GtkPage(view, engine') EXCEPT !.seen = TRUE]
KdeSynced == [KdePage(view, engine') EXCEPT !.seen = TRUE]
WinSynced == [WinPage(view, engine') EXCEPT !.seen = TRUE]
MacSynced == [MacPage(view, engine') EXCEPT !.seen = TRUE]
Partly(w) == [w EXCEPT !.seen = @ /\ engine' = engine]

-----------------------------------------------------------------------------
(* The tabs, the tick, the machine. *)

Hidden(w) == [w EXCEPT !.text = <<>>, !.line_addr = <<>>, !.picture = <<>>, !.cell = 0,
                       !.entry = [r \in Regs |-> 0], !.put = [r \in Regs |-> 0],
                       !.stale = {}, !.focus = "none", !.flag = 0]

SelectTab(tab) ==
  /\ tab \in topics \cap Tabs /\ tab # view.page
  /\ view' = Page([Hidden(view) EXCEPT !.page = tab], engine)
  /\ UNCHANGED <<engine, picked, wrong>>

\* the timer, the generation moved
Tick ==
  /\ ~view.seen
  /\ UNCHANGED <<engine, picked, wrong>>
  /\ view' = [Page(view, engine) EXCEPT !.seen = TRUE]

\* ... or the machine runs: what changes as it runs is read again, which on KDE the
\* disassembly is not
LiveTick ==
  /\ view.seen /\ ~engine.stopped
  /\ fe = "kde" => view.page # "disasm"
  /\ UNCHANGED <<engine, picked, wrong>>
  /\ view' = Page(view, engine)

MachineRuns ==
  /\ ~engine.stopped
  /\ \E e \in MovedOn(engine) :
       /\ engine' = e
       /\ view' = [view EXCEPT !.seen = @ /\ ~e.stopped]
  /\ UNCHANGED <<picked, wrong>>

\* Run, Stop and the steps, by their buttons or by the console
RunButtons ==
  /\ engine' \in IF "runs" \in topics THEN RunCmd(engine) \cup StopCmd(engine)
                 ELSE {Stepped(engine)}
  /\ engine' # engine
  /\ view' = [Page(view, engine') EXCEPT !.seen = TRUE]
  /\ UNCHANGED <<picked, wrong>>

\* The user puts the keyboard in an entry, types, or leaves it.
Focus ==
  /\ view.page = "cpu"
  /\ \E r \in Regs \cup {"none"} : r # view.focus /\ view' = [view EXCEPT !.focus = r]
  /\ UNCHANGED <<engine, picked, wrong>>
Type ==
  /\ view.page = "cpu" /\ view.focus # "none"
  /\ \E v \in IF view.focus = "pc" THEN Addr ELSE Byte :
       view' = [view EXCEPT !.entry[view.focus] = v, !.stale = @ \cup {view.focus}]
  /\ UNCHANGED <<engine, picked, wrong>>

-----------------------------------------------------------------------------
(* The registers and the memory. *)

\* An address box takes a label before a number; of the boxes for a register's or a
\* byte's number, those of KDE and macOS do too.
GtkParseNum(e, number) == DigitsFirst(e, number)
GtkParseAddr(e, number) == LabelFirst(e, number)
KdeNumberOf(e, number) == LabelFirst(e, number)
WinResolveAddr(e, number) == LabelFirst(e, number)
WinParseHexish(e, number) == DigitsFirst(e, number)
MacEvaluate(e, number) == LabelFirst(e, number)

Entered == view.entry[view.focus]
Enter(number) == CpuSet(engine, view.focus, number)
EntryHas == view.page = "cpu" /\ view.focus # "none" /\ UNCHANGED picked
Misread == wrong' = (wrong \/ (engine.stopped /\ engine'[view.focus] # Entered))
Unfocused == [view EXCEPT !.focus = "none"]

\* Enter takes the engine's value back, typed over or not
GtkRegActivate ==
  /\ fe = "gtk" /\ EntryHas
  /\ engine' = Enter(GtkParseNum(engine, Entered))
  /\ Misread
  /\ view' = [GtkCpuPage(Unfocused, engine') EXCEPT !.seen = TRUE, !.focus = view.focus]
KdeSetReg ==
  /\ fe = "kde" /\ EntryHas
  /\ engine' = Enter(KdeNumberOf(engine, Entered))
  /\ UNCHANGED wrong
  /\ view' = [KdeCpuPage(Unfocused, engine') EXCEPT !.seen = TRUE]
WinReg ==
  /\ fe = "win" /\ EntryHas
  /\ engine' = Enter(WinParseHexish(engine, Entered))
  /\ Misread
  /\ view' = [WinCpuPage(Unfocused, engine') EXCEPT !.seen = TRUE]
MacApplyRegister ==
  /\ fe = "mac" /\ EntryHas
  /\ engine' = Enter(MacEvaluate(engine, Entered))
  /\ UNCHANGED wrong
  /\ view' = Partly(MacCpuPage(Unfocused, engine'))

Flag == CpuSet(engine, "carry", 1 - view.flag)
FlagHas == view.page = "cpu" /\ UNCHANGED <<picked, wrong>>

\* Refused while the machine runs: the box is put back.
GtkFlagToggled ==
  /\ fe = "gtk" /\ FlagHas
  /\ engine' = Flag
  /\ view' = IF engine.stopped THEN GtkSynced ELSE Partly(GtkCpuPage(view, engine'))
KdeSetFlag == fe = "kde" /\ FlagHas /\ engine' = Flag /\ view' = KdeSynced
WinCheck ==
  /\ fe = "win" /\ FlagHas
  /\ engine' = Flag
  /\ view' = IF engine.stopped THEN WinSynced ELSE Partly(WinCpuPage(view, engine'))
MacFlagClicked ==
  fe = "mac" /\ FlagHas /\ engine' = Flag /\ view' = Partly(MacCpuPage(view, engine'))

\* An address, and bytes for it and the ones after: as many as the bound lets.
MemRead(w, e) == [w EXCEPT !.cell = e.mem[w.base]]
Pokes == UNION {[1..n -> Byte] : n \in 1..2}
MemHas == view.page = "cpu" /\ "edits" \in topics /\ UNCHANGED <<picked, wrong>>

\* every byte is parsed before one is written
GtkMemWrite ==
  /\ fe = "gtk" /\ MemHas
  /\ \E a \in Addr, vs \in Pokes : engine' = Writes(engine, a, vs)
  /\ view' = GtkSynced
KdeMemWrite ==
  /\ fe = "kde" /\ MemHas
  /\ \E a \in Addr, v \in Byte : engine' = Write(engine, a, v)
  /\ view' = KdeSynced

\* each byte is written as it is parsed: one that is none ends the edit there
WinMemWrite ==
  /\ fe = "win" /\ MemHas
  /\ \E a \in Addr, vs \in Pokes, all \in BOOLEAN :
       /\ engine' = Writes(engine, a, vs)
       /\ view' = IF all THEN WinSynced ELSE Unseen(view)
MacWriteMem ==
  /\ fe = "mac" /\ MemHas
  /\ \E a \in Addr, vs \in Pokes, all \in BOOLEAN :
       /\ a + Len(vs) - 1 <= MaxAddr
       /\ engine' = Writes(engine, a, vs)
       /\ view' = IF all THEN Unseen(MemRead([view EXCEPT !.base = a], engine'))
                     ELSE Unseen(view)

\* Go to, and a page on or back
GoTo(base) ==
  /\ MemHas
  /\ UNCHANGED engine
  /\ base # view.base
  /\ view' = MemRead([view EXCEPT !.base = base], engine)
GtkMemGoto == fe = "gtk" /\ \E n \in Addr : GoTo(GtkParseAddr(engine, n))
KdeMemGoto == fe = "kde" /\ \E n \in Addr : GoTo(KdeNumberOf(engine, n))
WinMemGoto == fe = "win" /\ \E n \in Addr : GoTo(WinResolveAddr(engine, n))
MacGotoMem == fe = "mac" /\ \E n \in Addr : GoTo(MacEvaluate(engine, n))

-----------------------------------------------------------------------------
(* The disassembly. *)

\* A click, the first or the second of two, on the gutter or beside it, of a line:
\* it selects, and toggles on the gutter's first or the text's second. The address
\* is the line's; what the line shows is what the user means.
Toggles(second, gutter) == second # gutter
Clicked(i) ==
  /\ view.page = "disasm" /\ i \in DOMAIN view.line_addr /\ view.line_addr[i] # NoAddr
  /\ wrong' = (wrong \/ i \notin DOMAIN view.text \/ view.text[i].address # view.line_addr[i])
  /\ UNCHANGED picked
Selecting(a) == [view EXCEPT !.selected = a]
Toggled(a, toggled) == engine' = IF toggled THEN BpToggle(engine, a) ELSE engine

GtkDisasmClick(i, second, gutter) ==
  /\ fe = "gtk" /\ Clicked(i)
  /\ Toggled(view.line_addr[i], Toggles(second, gutter))
  /\ view' = Partly(GtkDisasmPage(Selecting(view.line_addr[i]), engine'))
KdeDisasmClick(i, second, gutter) ==
  /\ fe = "kde" /\ Clicked(i)
  /\ Toggled(view.line_addr[i], Toggles(second, gutter))
  /\ view' = [KdeDisasmPage(Selecting(view.line_addr[i]), engine')
                EXCEPT !.seen = @ \/ Toggles(second, gutter)]
WinDisasmClick(i, second, gutter) ==
  /\ fe = "win" /\ Clicked(i)
  /\ Toggled(view.line_addr[i], Toggles(second, gutter))
  /\ view' = IF Toggles(second, gutter)
             THEN [WinDisasmPage(Selecting(view.line_addr[i]), engine') EXCEPT !.seen = TRUE]
             ELSE Selecting(view.line_addr[i])
MacDisasmClick(i, second, gutter) ==
  /\ fe = "mac" /\ Clicked(i)
  /\ Toggled(view.line_addr[i], Toggles(second, gutter))
  /\ view' = Partly(MacDisasmPage(Selecting(view.line_addr[i]), engine'))

\* F9: the breakpoint of the address selected, wherever the page has got to
SelectedHas == view.selected # NoAddr /\ UNCHANGED <<picked, wrong>>
GtkToggleSelected ==
  fe = "gtk" /\ SelectedHas /\ Toggled(view.selected, TRUE) /\ view' = GtkSynced
KdeToggleSelected ==
  fe = "kde" /\ SelectedHas /\ Toggled(view.selected, TRUE) /\ view' = KdeSynced
WinToggleSelected ==
  fe = "win" /\ SelectedHas /\ Toggled(view.selected, TRUE) /\ view' = WinSynced
MacToggleSelected ==
  /\ fe = "mac" /\ SelectedHas /\ Toggled(view.selected, TRUE)
  /\ view' = Partly(IF view.page \in {"disasm", "breaks"} THEN MacPage(view, engine') ELSE view)

\* Run to Cursor
RunTo ==
  /\ SelectedHas /\ "runs" \in topics
  /\ engine.stopped
  /\ engine' \in MovedOn(engine)
  /\ engine'.stopped => engine'.pc = view.selected \/ engine'.bp # <<>>
GtkRunToCursor == fe = "gtk" /\ RunTo /\ view' = GtkSynced
KdeRunToCursor == fe = "kde" /\ RunTo /\ view' = KdeSynced
WinRunTo == fe = "win" /\ RunTo /\ view' = WinSynced
MacRunToCursor == fe = "mac" /\ RunTo /\ view' = MacSynced

\* Follow PC, a jump to an address, the wheel
DisasmHas == view.page = "disasm" /\ "moves" \in topics /\ UNCHANGED <<engine, picked, wrong>>
FollowToggled == DisasmHas /\ view' = Page([view EXCEPT !.follow = ~@], engine)

Moved(top, selected) == [view EXCEPT !.follow = FALSE, !.top = top, !.selected = selected]
GtkJump ==
  /\ fe = "gtk" /\ DisasmHas
  /\ \E n \in Addr :
       view' = GtkDisasmPage(Moved(GtkParseAddr(engine, n), view.selected), engine)
KdeJumpTo ==
  /\ fe = "kde" /\ DisasmHas
  /\ \E n \in Addr :
       LET a == KdeNumberOf(engine, n)
       IN  view' = KdeDisasmPage(Moved(RowAddress(engine, a, -Above), a), engine)
WinJump ==
  /\ fe = "win" /\ DisasmHas
  /\ \E n \in Addr :
       LET a == WinResolveAddr(engine, n) IN view' = WinDisasmPage(Moved(a, a), engine)
MacJumpTo ==
  /\ fe = "mac" /\ DisasmHas
  /\ \E n \in Addr :
       LET a == MacEvaluate(engine, n) IN view' = MacDisasmPage(Moved(a, a), engine)

Scrolled(rows) == Moved(RowAddress(engine, view.top, rows), view.selected)
GtkDisasmScroll ==
  /\ fe = "gtk" /\ DisasmHas
  /\ \E rows \in {-1, 1} : view' = GtkDisasmPage(Scrolled(rows), engine)
KdeWheel ==
  /\ fe = "kde" /\ DisasmHas
  /\ \E rows \in {-1, 1} : view' = KdeDisasmPage(Scrolled(rows), engine)
WinWheel ==
  /\ fe = "win" /\ DisasmHas
  /\ \E rows \in {-1, 1} : view' = WinDisasmPage(Scrolled(rows), engine)
MacOnScroll ==
  /\ fe = "mac" /\ DisasmHas
  /\ \E rows \in {-1, 1} : view' = MacDisasmPage(Scrolled(rows), engine)

-----------------------------------------------------------------------------
(* The list of breakpoints. *)

ListHas == view.page = "breaks"

\* Add: a place that gets one. The window says why it was refused.
AddHas(a) == ListHas /\ engine' = BpAdd(engine, a) /\ UNCHANGED <<picked, wrong>>
GtkBpAdd(a) == fe = "gtk" /\ AddHas(a) /\ view' = IF engine' = engine THEN view ELSE GtkSynced
KdeAddBreakpoint(a) ==
  fe = "kde" /\ AddHas(a) /\ view' = IF engine' = engine THEN view ELSE KdeSynced
WinBpAdd(a) == fe = "win" /\ AddHas(a) /\ view' = IF engine' = engine THEN view ELSE WinSynced
MacAddBreakpoint(a) ==
  fe = "mac" /\ AddHas(a) /\ view' = IF engine' = engine THEN view ELSE MacSynced

\* Clear All
ClearBps ==
  /\ ListHas /\ engine' = BpClear(engine)
  /\ UNCHANGED <<picked, wrong>>
GtkBpClear == fe = "gtk" /\ ClearBps /\ view' = GtkSynced
KdeBpClear == fe = "kde" /\ ClearBps /\ view' = KdeSynced
WinBpClear == fe = "win" /\ ClearBps /\ view' = WinSynced
MacClearBreaks == fe = "mac" /\ ClearBps /\ view' = MacSynced

\* A row's box and its button have its breakpoint's id with them. An edit that reaches
\* a breakpoint of another place than the row shows is wrong.
RowHas(i) == ListHas /\ i \in DOMAIN view.list /\ UNCHANGED picked
Hits(id, row) ==
  wrong' = (wrong \/ \E j \in DOMAIN engine.bp :
                       engine.bp[j].id = id /\ (row.id # id \/ row.start # engine.bp[j].start))
EnableRow(i, id) ==
  /\ RowHas(i)
  /\ engine' = BpEnable(engine, {id}, ~view.list[i].enabled)
  /\ Hits(id, view.list[i])
RemoveRow(i, id) ==
  /\ RowHas(i)
  /\ engine' = BpRemove(engine, {id})
  /\ Hits(id, view.list[i])

GtkEnableToggled(i) == fe = "gtk" /\ EnableRow(i, view.list[i].id) /\ view' = GtkSynced
GtkRemoveClicked(i) == fe = "gtk" /\ RemoveRow(i, view.list[i].id) /\ view' = GtkSynced

\* the sync is posted, to fill the table once its own signal is over: it comes before
\* anything else the user does
KdeItemChanged(i) == fe = "kde" /\ EnableRow(i, view.list[i].id) /\ view' = KdeSynced
KdeRemove(i) == fe = "kde" /\ RemoveRow(i, view.list[i].id) /\ view' = KdeSynced

MacBpEnabled(i) == fe = "mac" /\ EnableRow(i, view.list[i].id) /\ view' = MacSynced
MacBpRemove(i) == fe = "mac" /\ RemoveRow(i, view.list[i].id) /\ view' = MacSynced

\* Windows: a row's number leads to the id; its box, the selected row's removal (by
\* the button, or the Delete key), and a double-click that opens the disassembly
WinItemChanged(i) ==
  /\ fe = "win" /\ RowHas(i)
  /\ view.list[i].enabled = view.bps[i].enabled
  /\ EnableRow(i, view.bps[i].id)
  /\ view' = WinSynced
WinSelectRow(i) ==
  /\ fe = "win" /\ ListHas /\ i \in DOMAIN view.list
  /\ view' = [view EXCEPT !.sel = i]
  /\ picked' = view.list[i].id
  /\ UNCHANGED <<engine, wrong>>
BpSelected == IF view.sel \in DOMAIN view.bps THEN view.sel ELSE 0
WinBpRemove ==
  /\ fe = "win" /\ ListHas /\ BpSelected # 0
  /\ engine' = BpRemove(engine, {view.bps[BpSelected].id})
  /\ wrong' = (wrong \/ view.bps[BpSelected].id # picked)
  /\ view' = WinSynced
  /\ UNCHANGED picked
WinRowOpened ==
  /\ fe = "win" /\ ListHas /\ BpSelected # 0 /\ "disasm" \in topics
  /\ LET a == view.bps[BpSelected].start
     IN  view' = WinDisasmPage([Hidden(view) EXCEPT !.page = "disasm", !.follow = FALSE, !.top = a,
                                              !.selected = a], engine)
  /\ UNCHANGED <<engine, picked, wrong>>

-----------------------------------------------------------------------------
(* The console, below whichever tab shows, and the symbols' button. *)

Commands ==
  ReadCommands(engine)
    \cup (IF "breaks" \in topics THEN BreakCommands(engine) ELSE {})
    \cup (IF "edits" \in topics THEN SetCommands(engine) \cup PokeCommands(engine) ELSE {})
    \cup (IF "labels" \in topics THEN LabelCommands(engine) ELSE {})

Console ==
  /\ engine' \in Commands
  /\ UNCHANGED <<picked, wrong>>
GtkConsole == fe = "gtk" /\ Console /\ view' = GtkSynced
KdeRunConsole == fe = "kde" /\ Console /\ view' = KdeSynced
WinConsole == fe = "win" /\ Console /\ view' = WinSynced
MacRunCommand == fe = "mac" /\ Console /\ view' = MacSynced

LoadFile ==
  /\ "labels" \in topics
  /\ \E as \in SUBSET Names : engine' = LoadSymbols(engine, as)
  /\ UNCHANGED <<picked, wrong>>
GtkLoadSymbols == fe = "gtk" /\ LoadFile /\ view' = GtkSynced
KdeLoadSymbols == fe = "kde" /\ LoadFile /\ view' = KdeSynced
WinSymbols == fe = "win" /\ LoadFile /\ view' = WinSynced
MacLoadSymbols == fe = "mac" /\ LoadFile /\ view' = MacSynced

-----------------------------------------------------------------------------
Rest ==
  \/ Tick \/ LiveTick \/ MachineRuns \/ RunButtons \/ Focus \/ Type
  \/ FollowToggled
  \/ \E tab \in Tabs : SelectTab(tab)

GtkNext ==
  \/ GtkRunToCursor \/ GtkDisasmScroll \/ GtkBpClear
  \/ GtkRegActivate \/ GtkFlagToggled \/ GtkMemWrite \/ GtkMemGoto
  \/ \E i \in DOMAIN view.line_addr, second, gutter \in BOOLEAN :
       GtkDisasmClick(i, second, gutter)
  \/ GtkToggleSelected \/ GtkJump
  \/ \E a \in Places : GtkBpAdd(a)
  \/ \E i \in DOMAIN view.list : GtkEnableToggled(i) \/ GtkRemoveClicked(i)
  \/ GtkConsole \/ GtkLoadSymbols

KdeNext ==
  \/ KdeRunToCursor \/ KdeWheel \/ KdeBpClear
  \/ KdeSetReg \/ KdeSetFlag \/ KdeMemWrite \/ KdeMemGoto
  \/ \E i \in DOMAIN view.line_addr, second, gutter \in BOOLEAN :
       KdeDisasmClick(i, second, gutter)
  \/ KdeToggleSelected \/ KdeJumpTo
  \/ \E a \in Places : KdeAddBreakpoint(a)
  \/ \E i \in DOMAIN view.list : KdeItemChanged(i) \/ KdeRemove(i)
  \/ KdeRunConsole \/ KdeLoadSymbols

WinNext ==
  \/ WinRunTo \/ WinWheel \/ WinBpClear
  \/ WinReg \/ WinCheck \/ WinMemWrite \/ WinMemGoto
  \/ \E i \in DOMAIN view.line_addr, second, gutter \in BOOLEAN :
       WinDisasmClick(i, second, gutter)
  \/ WinToggleSelected \/ WinJump
  \/ \E a \in Places : WinBpAdd(a)
  \/ \E i \in DOMAIN view.list : WinItemChanged(i) \/ WinSelectRow(i)
  \/ WinBpRemove \/ WinRowOpened
  \/ WinConsole \/ WinSymbols

MacNext ==
  \/ MacRunToCursor \/ MacOnScroll \/ MacClearBreaks
  \/ MacApplyRegister \/ MacFlagClicked \/ MacWriteMem \/ MacGotoMem
  \/ \E i \in DOMAIN view.line_addr, second, gutter \in BOOLEAN :
       MacDisasmClick(i, second, gutter)
  \/ MacToggleSelected \/ MacJumpTo
  \/ \E a \in Places : MacAddBreakpoint(a)
  \/ \E i \in DOMAIN view.list : MacBpEnabled(i) \/ MacBpRemove(i)
  \/ MacRunCommand \/ MacLoadSymbols

PagesNext ==
  /\ UNCHANGED <<fe, topics>>
  /\ Rest \/ GtkNext \/ KdeNext \/ WinNext \/ MacNext

PagesSpec == PagesInit /\ [][PagesNext]_pages

-----------------------------------------------------------------------------
PagesTypeOK ==
  /\ engine \in Engine
  /\ view.page \in Tabs \cup {"none"}
  /\ view.sel \in 0..Len(view.list) /\ Len(view.list) = Len(view.bps)

\* While the machine is stopped, what runs next is what memory has at the PC, whatever
\* was edited: the header promises it of debugger.c:23-26. A write to the screen RAM by
\* its own address is the one edit that does not see to it.
RunsWhatIsThere == engine.stopped /\ ~engine.behind => engine.fetched = engine.mem[engine.pc]

\* Of a stopped machine last refreshed for, the tab that shows is the engine's: each
\* register (but for an entry typed in since, or that the refresh left alone: it stays
\* behind after the keyboard has left it, until the next), the memory, the lines, with
\* the PC's among them if it is followed, the screen, and every breakpoint. (The rows of
\* macOS may have an older label, and stop at as many as the list holds.)
\* some run of instructions before the PC ends there: none does when the PC is inside
\* what reads as a longer one, and its line is then not among those shown
LedTo(e) ==
  /\ \E back \in 1..MaxAddr : Cardinality(Starts(e, e.pc, back)) >= Above
  /\ fe = "gtk" => RowAddress(e, e.pc, -Above) <= e.pc
Table == IF fe = "mac" THEN SubSeq(engine.bp, 1, Lower(MacRows, Len(engine.bp))) ELSE engine.bp
Unlabelled(rows) == [i \in DOMAIN rows |-> [rows[i] EXCEPT !.label = FALSE]]
PageIsTrue ==
  engine.stopped /\ view.seen =>
    /\ view.page = "cpu" =>
         /\ \A r \in Regs \ view.stale : view.entry[r] = engine[r]
         /\ view.flag = engine.carry /\ view.cell = engine.mem[view.base]
    /\ view.page = "disasm" =>
         /\ \A i \in DOMAIN view.text : view.text[i].address # NoAddr =>
              view.text[i] = FillLine(engine, view.text[i].address)
         /\ view.follow /\ LedTo(engine) => \E i \in DOMAIN view.text : view.text[i].is_pc
    /\ view.page = "video" => view.picture = Snapshot(engine)
    /\ view.page = "breaks" => Unlabelled(view.list) = Unlabelled(Rows(engine, Table))

\* An edit reaches what its row shows and its user meant, however the lines and rows
\* have moved since they were drawn or selected, and (on GNOME and Windows) a register
\* becomes the digits its entry holds, whatever labels there are; what is shown at rest
\* is so; and what was edited is what runs.
EditsHitWhatIsShown == ~wrong /\ PageIsTrue /\ RunsWhatIsThere
=============================================================================
