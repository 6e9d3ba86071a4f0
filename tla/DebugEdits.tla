----------------------------- MODULE DebugEdits -----------------------------
(***************************************************************************)
(* What the debugger's windows and its console read and change in the      *)
(* machine (core/debugger/debugger.c, prompt.c, symbols.c): registers and  *)
(* memory, the breakpoints they list, labels, and the disassembly.         *)
(*                                                                         *)
(* Each call of the API holds d->mtx from its first read to its last       *)
(* write, so a call is an operator from what the engine holds to what it   *)
(* holds then. DebugEngine has the machine's thread, Breakpoints the kinds *)
(* of breakpoint, their ranges and conditions; here one has an address.    *)
(***************************************************************************)
EXTENDS Integers, Sequences, FiniteSets

CONSTANTS
  MaxAddr,         \* addresses are 0..MaxAddr, and wrap
  Rom,             \* addresses whose writes are dropped
  Screen,          \* addresses of the screen RAM
  Places,          \* bound: addresses that get breakpoints
  Names,           \* bound: addresses that get labels
  Spells,          \* for each, the number its label also reads as: "FACE"
  MaxBp,           \* breakpoints the table holds
  MaxId            \* bound: ids handed out

AddrBounds == MaxAddr \in Nat /\ Rom \cup Screen \cup Places \cup Names \subseteq 0..MaxAddr

Addr == 0..MaxAddr
Byte == {0, 1}                   \* as an opcode: of an instruction of one byte, or of two
Regs == {"pc", "carry"}          \* carry stands for every other register and flag
Plus(a, n) == (a + n) % (MaxAddr + 1)

Lower(m, n) == IF m < n THEN m ELSE n

Breakpoint == [id : 1..MaxId, start : Addr, enabled : BOOLEAN]

\* the engine, and of the machine what is edited
Engine == [stopped : BOOLEAN,    \* attached, and parked at a boundary
           pc : Addr,            \* the address on the bus
           carry : Byte,
           fetched : Byte,       \* in the data lines: the opcode that runs next
           behind : BOOLEAN,     \* history: screen RAM was written under the PC
           mem : [Addr -> Byte],
           bp : Seq(Breakpoint),
           next_id : 1..(MaxId + 1),
           user : SUBSET Names,  \* labels by hand
           file : SUBSET Names]  \* labels from a file

-----------------------------------------------------------------------------
(* Registers and memory. *)

RefreshFetch(e) == [e EXCEPT !.fetched = e.mem[e.pc], !.behind = FALSE]

AtReset ==
  RefreshFetch([stopped |-> TRUE, pc |-> 0, carry |-> 0, fetched |-> 0, behind |-> FALSE,
                mem |-> [a \in Addr |-> IF a \in Rom THEN 1 ELSE 0], bp |-> <<>>,
                next_id |-> 1, user |-> {}, file |-> {}])

\* Faulty: the fetch stays.
CpuSetOnly(e, r, v) == IF e.stopped THEN [e EXCEPT ![r] = v] ELSE e

\* astrodebug_cpu_set
CpuSet(e, r, v) == IF e.stopped THEN RefreshFetch([e EXCEPT ![r] = v]) ELSE e

\* astrodebug_write, through the memory map
Write(e, a, v) ==
  LET written == IF a \in Rom THEN e ELSE [e EXCEPT !.mem[a] = v]
  IN  IF e.stopped THEN RefreshFetch(written) ELSE written

\* ... byte after byte
Writes(e, a, vs) ==
  LET after[n \in 0..Len(vs)] == IF n = 0 THEN e ELSE Write(after[n - 1], Plus(a, n - 1), vs[n])
  IN  after[Len(vs)]

\* astrodebug_vram_write: the fetch is left as it is
VramWrite(e, a, v) ==
  [e EXCEPT !.mem[a] = v, !.behind = @ \/ (e.stopped /\ a = e.pc)]

\* astrodebug_video_snapshot
Snapshot(e) == [a \in Screen |-> e.mem[a]]

-----------------------------------------------------------------------------
(* The breakpoint table, of execute breakpoints at one address. *)

BpAdd(e, a) ==
  IF Len(e.bp) < MaxBp /\ e.next_id <= MaxId
  THEN [e EXCEPT !.bp = Append(@, [id |-> e.next_id, start |-> a, enabled |-> TRUE]),
                 !.next_id = @ + 1]
  ELSE e
Without(t, ids) ==
  LET kept[n \in 0..Len(t)] == IF n = 0 THEN <<>>
                               ELSE IF t[n].id \in ids THEN kept[n - 1]
                               ELSE Append(kept[n - 1], t[n])
  IN  kept[Len(t)]
BpRemove(e, ids) == [e EXCEPT !.bp = Without(@, ids)]
BpEnable(e, ids, on) ==
  [e EXCEPT !.bp = [i \in DOMAIN @ |-> IF @[i].id \in ids THEN [@[i] EXCEPT !.enabled = on]
                                       ELSE @[i]]]
BpClear(e) == [e EXCEPT !.bp = <<>>]

BpAt(e, a) == {i \in DOMAIN e.bp : e.bp[i].start = a}
First(is) == CHOOSE i \in is : \A j \in is : i <= j
BpToggle(e, a) ==
  IF BpAt(e, a) # {} THEN BpRemove(e, {e.bp[First(BpAt(e, a))].id}) ELSE BpAdd(e, a)

-----------------------------------------------------------------------------
(* Labels. The tables are consulted for the address, whichever has it. *)

SetLabel(e, a, named) == [e EXCEPT !.user = IF named THEN @ \cup {a} ELSE @ \ {a}]

\* A file that can be read replaces the labels of the one before.
LoadSymbols(e, as) == [e EXCEPT !.file = as]

Labelled(e, a) == a \in e.user \cup e.file

\* What is typed as a number may be a label's name.
LabelAddress(e, number) == {a \in Names : Labelled(e, a) /\ Spells[a] = number}
LabelFirst(e, number) ==
  IF LabelAddress(e, number) = {} THEN number ELSE CHOOSE a \in LabelAddress(e, number) : TRUE
DigitsFirst(e, number) == number

-----------------------------------------------------------------------------
(* The disassembly. *)

Length(e, a) == e.mem[a] + 1

FillLine(e, a) ==
  [address |-> a, insn |-> e.mem[a], is_pc |-> a = e.pc, label |-> Labelled(e, a),
   bp |-> {e.bp[i].enabled : i \in BpAt(e, a)}]

Disassemble(e, top, rows) ==
  LET at[i \in 1..rows] == IF i = 1 THEN top ELSE Plus(at[i - 1], Length(e, at[i - 1]))
  IN  [i \in 1..rows |-> FillLine(e, at[i])]

\* The starts of the instructions from back bytes before a up to a, as distances
\* before it, if they land on it; {} if they run past.
Starts(e, a, back) ==
  LET to[n \in 0..back] ==
        IF n = 0 THEN -back
        ELSE IF to[n - 1] >= 0 THEN to[n - 1]
        ELSE to[n - 1] + Length(e, Plus(a, MaxAddr + 1 + to[n - 1]))
  IN  IF to[back] = 0 THEN {-to[n] : n \in 0..back} \ {0} ELSE {}

\* row_address_locked: rows instructions on; or back, by the longest run that lands
\* on a and is as many, or else as many bytes. (A run is shorter than the memory.)
RowsBack(e, a, rows) ==
  LET runs == {back \in 1..MaxAddr : Cardinality(Starts(e, a, back)) >= rows}
      run == Starts(e, a, CHOOSE b \in runs : \A c \in runs : c <= b)
  IN  IF runs = {} THEN Plus(a, MaxAddr + 1 - rows)
      ELSE Plus(a, MaxAddr + 1 - CHOOSE d \in run : Cardinality({s \in run : s <= d}) = rows)

RowAddress(e, a, rows) ==
  LET on[n \in 0..rows] == IF n = 0 THEN a ELSE Plus(on[n - 1], Length(e, on[n - 1]))
  IN  IF rows < 0 THEN RowsBack(e, a, -rows) ELSE on[rows]

-----------------------------------------------------------------------------
(* The machine, as an edit finds it: where it has got to, with a byte on the   *)
(* screen.                                                                     *)

Stepped(e) == RefreshFetch([e EXCEPT !.pc = Plus(e.pc, e.fetched + 1)])

Drawn(mem, c) == [a \in Addr |-> IF a \in Screen THEN c ELSE mem[a]]
MovedTo(e, a, c, s) ==
  RefreshFetch([e EXCEPT !.pc = a, !.carry = c, !.stopped = s, !.mem = Drawn(@, c)])
MovedOn(e) == {MovedTo(e, a, c, s) : a \in Addr, c \in Byte, s \in BOOLEAN}

-----------------------------------------------------------------------------
(* The console (prompt.c): what a command may leave. *)

\* "#3" or "3" is an id; otherwise, or when no such id exists, an address, which
\* names every breakpoint starting there.
BpIds(e, v, hash) ==
  LET ids == {e.bp[i].id : i \in DOMAIN e.bp}
  IN  IF v \in ids THEN {v} ELSE IF hash THEN {} ELSE {e.bp[i].id : i \in BpAt(e, v)}

\* run_cmd is refused unless stopped, and waits a moment for the next stop
RunCmd(e) == IF e.stopped THEN {Stepped(e)} \cup MovedOn(e) ELSE {e}
StopCmd(e) == IF e.stopped THEN {e} ELSE MovedOn(e)

BreakCommands(e) ==
  {BpAdd(e, a) : a \in Places}
    \cup {BpRemove(e, BpIds(e, v, hash)) : v \in Addr, hash \in BOOLEAN}
    \cup {BpEnable(e, BpIds(e, v, hash), on) : v \in Addr, hash \in BOOLEAN, on \in BOOLEAN}
    \cup {BpClear(e)}

SetCommands(e) == {CpuSet(e, "pc", v) : v \in Addr} \cup {CpuSet(e, "carry", v) : v \in Byte}

\* the bytes go in as they are read: what cannot be read ends a poke half way
PokeCommands(e) ==
  {Writes(e, a, vs) : a \in Addr, vs \in UNION {[1..n -> Byte] : n \in 0..2}}
    \cup {VramWrite(e, a, v) : a \in Screen, v \in Byte}

LabelCommands(e) ==
  {SetLabel(e, a, named) : a \in Names, named \in BOOLEAN}
    \cup {LoadSymbols(e, as) : as \in SUBSET Names}

ReadCommands(e) == {e}
=============================================================================
