---------------------------- MODULE Breakpoints ----------------------------
(***************************************************************************)
(* The breakpoint table of the debugger (core/debugger/debugger.c), and the *)
(* maps and hooks that follow it.                                           *)
(*                                                                          *)
(* An edit holds d->mtx throughout. It is two steps all the same, the maps  *)
(* cleared and the maps filled, because bus_hook looks at them without the  *)
(* mutex. Everything else here takes it, and waits while one edits.         *)
(***************************************************************************)
EXTENDS Integers, Sequences, FiniteSets

CONSTANTS
  MaxAddr,         \* addresses are 0..MaxAddr
  MaxPort,         \* ports are 0..MaxPort
  MaxBp,           \* breakpoints the table holds
  MaxId            \* bound: ids handed out

ASSUME AddrAssumption == MaxAddr \in Nat /\ MaxPort \in 0..MaxAddr
ASSUME TableAssumption == MaxBp \in Nat \ {0} /\ MaxId \in Nat

VARIABLES
  bp,              \* the table
  next_id,
  map_exec,        \* addresses an enabled execute breakpoint covers
  map_mem,         \* <<access, address>> an enabled watchpoint covers
  map_io,          \* <<access, port>>
  nwatch,          \* enabled watchpoints
  bus_hook,        \* the bus hook is installed in the core
  editing          \* d->mtx is held by an edit between clearing and filling

maps == <<map_exec, map_mem, map_io, nwatch, bus_hook>>
bpVars == <<bp, next_id, maps, editing>>

Addr == 0..MaxAddr
Ports == 0..MaxPort
MemAccess == {"read", "write"}
IoAccess == {"in", "out"}
Watches == MemAccess \cup IoAccess
Types == {"exec"} \cup Watches
Conditions == {"none", "some"}   \* "some": true of some states of the machine
Breakpoint == [id : 1..MaxId, type : SUBSET Types, start : Addr, end : Addr,
               enabled : BOOLEAN, condition : Conditions]

BpTypeOK ==
  /\ bp \in Seq(Breakpoint) /\ Len(bp) <= MaxBp
  /\ next_id \in 1..(MaxId + 1)
  /\ map_exec \subseteq Addr
  /\ map_mem \subseteq MemAccess \X Addr
  /\ map_io \subseteq IoAccess \X Ports
  /\ nwatch \in 0..MaxBp
  /\ bus_hook \in BOOLEAN
  /\ editing \in BOOLEAN

BpInit ==
  /\ bp = <<>> /\ next_id = 1
  /\ map_exec = {} /\ map_mem = {} /\ map_io = {}
  /\ nwatch = 0 /\ bus_hook = FALSE /\ editing = FALSE

-----------------------------------------------------------------------------
Covers(b, a) == b.start <= a /\ a <= b.end
Enabled(t) == {i \in DOMAIN t : t[i].enabled}

MapExec(t) == {a \in Addr : \E i \in Enabled(t) : "exec" \in t[i].type /\ Covers(t[i], a)}
MapMem(t) == {e \in MemAccess \X Addr :
                \E i \in Enabled(t) : e[1] \in t[i].type /\ Covers(t[i], e[2])}
MapIo(t) == {e \in IoAccess \X Ports :
               \E i \in Enabled(t) : e[1] \in t[i].type /\ Covers(t[i], e[2])}
NWatch(t) == Cardinality({i \in Enabled(t) : t[i].type \cap Watches # {}})

\* The first enabled breakpoint of the table that an access may match.
Matching(access, a) == {i \in Enabled(bp) : access \in bp[i].type /\ Covers(bp[i], a)}

\* rebuild_locked begins: the maps are empty, the mutex held
Clear ==
  /\ map_exec' = {} /\ map_mem' = {} /\ map_io' = {}
  /\ editing' = TRUE
  /\ UNCHANGED <<nwatch, bus_hook>>

\* ... of a table that changed to t
Edit(t) ==
  /\ ~editing
  /\ bp' = t
  /\ Clear

\* Faulty: the bus hook is not kept in step.
RebuiltOver ==
  /\ editing
  /\ map_exec' = MapExec(bp) /\ map_mem' = MapMem(bp) /\ map_io' = MapIo(bp)
  /\ nwatch' = NWatch(bp)
  /\ UNCHANGED bus_hook
  /\ editing' = FALSE
  /\ UNCHANGED <<bp, next_id>>

\* ... and ends: filled again from the enabled entries, the bus hook in step
Rebuilt ==
  /\ editing
  /\ map_exec' = MapExec(bp) /\ map_mem' = MapMem(bp) /\ map_io' = MapIo(bp)
  /\ nwatch' = NWatch(bp)
  /\ bus_hook' = (NWatch(bp) > 0)
  /\ editing' = FALSE
  /\ UNCHANGED <<bp, next_id>>

Lower(a, b) == IF a < b THEN a ELSE b
Upper(a, b) == IF a < b THEN b ELSE a

\* astrodebug_breakpoint_add. Ends in the wrong order are swapped; ports beyond
\* the last are refused, and so is one more than the table holds. (A condition
\* that cannot be parsed is refused too, and changes nothing.)
Add(type, a, b, condition) ==
  /\ type # {}
  /\ type \subseteq IoAccess => Upper(a, b) <= MaxPort
  /\ Len(bp) < MaxBp
  /\ next_id <= MaxId
  /\ Edit(Append(bp, [id |-> next_id, type |-> type, start |-> Lower(a, b),
                      end |-> Upper(a, b), enabled |-> TRUE,
                      condition |-> condition]))
  /\ next_id' = next_id + 1

\* The table without its i-th entry: those behind it move up.
Without(t, i) == SubSeq(t, 1, i - 1) \o SubSeq(t, i + 1, Len(t))

\* astrodebug_breakpoint_remove, of the first entry with that id, if any
Remove(id) ==
  /\ \/ \E i \in DOMAIN bp :
          /\ bp[i].id = id /\ \A j \in 1..(i - 1) : bp[j].id # id
          /\ Edit(Without(bp, i))
     \/ (\A i \in DOMAIN bp : bp[i].id # id) /\ Edit(bp)
  /\ UNCHANGED next_id

\* astrodebug_breakpoint_enable
Enable(id, on) ==
  /\ Edit([i \in DOMAIN bp |-> IF bp[i].id = id THEN [bp[i] EXCEPT !.enabled = on]
                               ELSE bp[i]])
  /\ UNCHANGED next_id

\* astrodebug_breakpoint_clear
ClearAll ==
  /\ Edit(<<>>)
  /\ UNCHANGED next_id

\* astrodebug_breakpoint_toggle: the entry for exactly this address, if any
Toggle(a) ==
  LET exact == {i \in DOMAIN bp : bp[i].type = {"exec"} /\ bp[i].start = a /\ bp[i].end = a}
  IN  \/ /\ exact # {}
         /\ Remove(bp[CHOOSE i \in exact : \A j \in exact : i <= j].id)
      \/ exact = {} /\ Add({"exec"}, a, a, "none")

-----------------------------------------------------------------------------
\* Whoever holds the mutex finds the maps, the count and the hook to be those
\* of the table: an address is looked up exactly when an enabled entry covers
\* it, and the core calls the bus hook exactly while there is a watchpoint.
MapsFollowTable ==
  ~editing =>
    /\ map_exec = MapExec(bp) /\ map_mem = MapMem(bp) /\ map_io = MapIo(bp)
    /\ nwatch = NWatch(bp)
    /\ bus_hook = (nwatch > 0)

\* No two entries have one id, and none has an id that is still to come: what
\* a window read a while ago and asks to remove is that entry or nothing.
IdsAreUnique ==
  /\ \A i, j \in DOMAIN bp : bp[i].id = bp[j].id => i = j
  /\ \A i \in DOMAIN bp : bp[i].id < next_id
=============================================================================
