--------------------------- MODULE DebugStops_proofs ---------------------------
(***************************************************************************)
(* Theorems about the breakpoint table and the stepping goals, for every    *)
(* program, every handler, every number of scanlines and every table.       *)
(*                                                                         *)
(* The invariant IInv adds to the properties that a machine that is stopped *)
(* is parked and has no goal (StopIsParked), that the marked word is on the *)
(* stack (MarkIsOnStack) and at the level that the goal guards              *)
(* (MarkIsGuarded), that a goal that counts has something left              *)
(* (CountIsLeft) and has counted what was not turned since                  *)
(* (TurnsAreCounted), and where a watched access is on its way to the       *)
(* boundary (HitIsPending).                                                 *)
(***************************************************************************)
EXTENDS DebugStops, SequenceTheorems, FiniteSetTheorems, TLAPS

USE DEF Addr, Ports, MemAccess, IoAccess, Watches, Types, Conditions, Word, Data

-----------------------------------------------------------------------------
(* The table. *)

TableInv == BpTypeOK /\ IdsAreUnique /\ MapsFollowTable

LEMMA TableFacts ==
  ASSUME NEW t \in Seq(Breakpoint)
  PROVE  /\ Len(t) \in Nat /\ DOMAIN t = 1..Len(t)
         /\ \A i \in 1..Len(t) :
              /\ t[i] \in Breakpoint
              /\ t[i].id \in 1..MaxId /\ t[i].type \in SUBSET Types /\ t[i].start \in Addr
              /\ t[i].end \in Addr /\ t[i].enabled \in BOOLEAN
              /\ t[i].condition \in Conditions
<1>1. Len(t) \in Nat /\ DOMAIN t = 1..Len(t) /\ \A i \in 1..Len(t) : t[i] \in Breakpoint
  BY LenProperties, ElementOfSeq
<1> QED
  BY <1>1 DEF Breakpoint

LEMMA WithoutIs ==
  ASSUME NEW S, NEW t \in Seq(S), NEW i \in 1..Len(t)
  PROVE  /\ Without(t, i) \in Seq(S)
         /\ Len(Without(t, i)) = Len(t) - 1
         /\ \A k \in 1..(Len(t) - 1) : Without(t, i)[k] = t[IF k < i THEN k ELSE k + 1]
<1> DEFINE a == SubSeq(t, 1, i - 1)
           b == SubSeq(t, i + 1, Len(t))
<1>1. Len(t) \in Nat /\ \A k \in 1..Len(t) : t[k] \in S
  BY LenProperties, ElementOfSeq
<1>2. /\ a \in Seq(S) /\ Len(a) = i - 1 /\ \A k \in 1..(i - 1) : a[k] = t[k]
  <2>1. 1 \in Int /\ i - 1 \in Int /\ \A k \in 1..(i - 1) : t[k] \in S
    BY <1>1
  <2>2. /\ SubSeq(t, 1, i - 1) \in Seq(S)
        /\ Len(SubSeq(t, 1, i - 1)) = IF 1 <= i - 1 THEN (i - 1) - 1 + 1 ELSE 0
        /\ \A k \in 1..((i - 1) - 1 + 1) : SubSeq(t, 1, i - 1)[k] = t[1 + k - 1]
    BY <2>1, SubSeqProperties
  <2> QED
    BY <2>2, <1>1
<1>3. /\ b \in Seq(S) /\ Len(b) = Len(t) - i /\ \A k \in 1..(Len(t) - i) : b[k] = t[i + k]
  <2>1. i + 1 \in Int /\ Len(t) \in Int /\ \A k \in (i + 1)..Len(t) : t[k] \in S
    BY <1>1
  <2>2. /\ SubSeq(t, i + 1, Len(t)) \in Seq(S)
        /\ Len(SubSeq(t, i + 1, Len(t))) = IF i + 1 <= Len(t) THEN Len(t) - (i + 1) + 1 ELSE 0
        /\ \A k \in 1..(Len(t) - (i + 1) + 1) : SubSeq(t, i + 1, Len(t))[k] = t[(i + 1) + k - 1]
    BY <2>1, SubSeqProperties
  <2> QED
    BY <2>2, <1>1
<1>4. /\ a \o b \in Seq(S) /\ Len(a \o b) = Len(a) + Len(b)
      /\ \A k \in 1..(Len(a) + Len(b)) :
           (a \o b)[k] = IF k <= Len(a) THEN a[k] ELSE b[k - Len(a)]
  BY <1>2, <1>3, ConcatProperties
<1>5. Without(t, i) = a \o b
  BY DEF Without
<1> HIDE DEF a, b
<1>6. Len(a) + Len(b) = Len(t) - 1
  BY <1>1, <1>2, <1>3
<1>7. ASSUME NEW k \in 1..(Len(t) - 1)
      PROVE  (a \o b)[k] = t[IF k < i THEN k ELSE k + 1]
  <2>1. (a \o b)[k] = IF k <= i - 1 THEN a[k] ELSE b[k - (i - 1)]
    BY <1>2, <1>4, <1>6
  <2>2. CASE k < i
    BY <2>1, <2>2, <1>1, <1>2
  <2>3. CASE ~(k < i)
    <3>1. k - (i - 1) \in 1..(Len(t) - i) /\ i + (k - (i - 1)) = k + 1
      BY <2>3, <1>1
    <3> QED
      BY <3>1, <2>1, <2>3, <1>1, <1>3
  <2> QED
    BY <2>2, <2>3
<1> QED
  BY <1>4, <1>5, <1>6, <1>7

\* The enabled watchpoints are counted, and any of them makes the count positive.
LEMMA NWatchIsCount ==
  ASSUME NEW t \in Seq(Breakpoint), Len(t) <= MaxBp
  PROVE  /\ NWatch(t) \in 0..MaxBp
         /\ \A i \in Enabled(t) : t[i].type \cap Watches # {} => NWatch(t) > 0
<1> DEFINE W == {i \in Enabled(t) : t[i].type \cap Watches # {}}
<1>1. Len(t) \in Nat /\ DOMAIN t = 1..Len(t)
  BY TableFacts
<1>2. IsFiniteSet(1..Len(t)) /\ Cardinality(1..Len(t)) = Len(t)
  <2>1. /\ IsFiniteSet(1..Len(t))
        /\ Cardinality(1..Len(t)) = IF 1 > Len(t) THEN 0 ELSE Len(t) - 1 + 1
    BY <1>1, FS_Interval
  <2> QED
    BY <1>1, <2>1
<1>3. W \in SUBSET (1..Len(t))
  BY <1>1 DEF Enabled
<1>4. IsFiniteSet(W) /\ Cardinality(W) <= Len(t)
  BY <1>2, <1>3, FS_Subset
<1>5. Cardinality(W) \in Nat /\ (W # {} => Cardinality(W) # 0)
  BY <1>4, FS_CardinalityType, FS_EmptySet
<1>6. NWatch(t) = Cardinality(W)
  BY DEF NWatch
<1>7. MaxBp \in Nat
  BY TableAssumption
<1>8. NWatch(t) \in 0..MaxBp
  BY <1>1, <1>4, <1>5, <1>6, <1>7
<1>9. ASSUME NEW i \in Enabled(t), t[i].type \cap Watches # {}
      PROVE  NWatch(t) > 0
  <2>1. W # {}
    BY <1>9
  <2> HIDE DEF W
  <2> QED
    BY <2>1, <1>5, <1>6
<1> QED
  BY <1>8, <1>9

LEMMA EditKeepsTable ==
  ASSUME BpTypeOK, NEW t \in Seq(Breakpoint), Len(t) <= MaxBp, Edit(t),
         next_id' \in 1..(MaxId + 1),
         \A i, j \in 1..Len(t) : t[i].id = t[j].id => i = j,
         \A i \in 1..Len(t) : t[i].id < next_id'
  PROVE  TableInv'
<1>1. BpTypeOK'
  BY DEF BpTypeOK, Edit, Clear
<1>2. IdsAreUnique'
  BY TableFacts DEF IdsAreUnique, Edit
<1>3. MapsFollowTable'
  BY DEF MapsFollowTable, Edit, Clear
<1> QED
  BY <1>1, <1>2, <1>3 DEF TableInv

LEMMA TableEntries ==
  ASSUME TableInv
  PROVE  /\ bp \in Seq(Breakpoint) /\ Len(bp) \in Nat /\ Len(bp) <= MaxBp
         /\ DOMAIN bp = 1..Len(bp) /\ next_id \in 1..(MaxId + 1)
         /\ \A i \in 1..Len(bp) : bp[i] \in Breakpoint /\ bp[i].id < next_id
         /\ \A i, j \in 1..Len(bp) : bp[i].id = bp[j].id => i = j
<1>1. bp \in Seq(Breakpoint) /\ Len(bp) <= MaxBp /\ next_id \in 1..(MaxId + 1)
  BY DEF TableInv, BpTypeOK
<1>2. Len(bp) \in Nat /\ DOMAIN bp = 1..Len(bp) /\ \A i \in 1..Len(bp) : bp[i] \in Breakpoint
  BY <1>1, TableFacts
<1> QED
  BY <1>1, <1>2 DEF TableInv, IdsAreUnique

LEMMA AddKeepsTable ==
  ASSUME TableInv, NEW type \in SUBSET Types, NEW a \in Addr, NEW b \in Addr,
         NEW c \in Conditions, Add(type, a, b, c)
  PROVE  TableInv'
<1> DEFINE e == [id |-> next_id, type |-> type, start |-> Lower(a, b), end |-> Upper(a, b),
                 enabled |-> TRUE, condition |-> c]
           t == Append(bp, e)
<1>1. MaxId \in Nat /\ MaxAddr \in Nat /\ MaxBp \in Nat
  BY TableAssumption, AddrAssumption
<1>2. next_id \in 1..MaxId /\ next_id' = next_id + 1 /\ Len(bp) < MaxBp /\ Edit(t)
  BY <1>1, TableEntries DEF Add
<1>3. Lower(a, b) \in Addr /\ Upper(a, b) \in Addr
  BY DEF Lower, Upper
<1>4. e \in Breakpoint /\ e.id = next_id
  BY <1>2, <1>3 DEF Breakpoint
<1> HIDE DEF e
<1>5. /\ t \in Seq(Breakpoint) /\ Len(t) = Len(bp) + 1
      /\ \A i \in 1..Len(bp) : t[i] = bp[i]
      /\ t[Len(bp) + 1] = e
  BY <1>4, TableEntries
<1> HIDE DEF t
<1>6. \A i, j \in 1..Len(t) : t[i].id = t[j].id => i = j
  <2>1. \A i \in 1..Len(bp) : t[i].id < next_id /\ t[i].id \in 1..MaxId
    BY <1>5, TableEntries, TableFacts
  <2>2. t[Len(bp) + 1].id = next_id
    BY <1>4, <1>5
  <2> SUFFICES ASSUME NEW i \in 1..(Len(bp) + 1), NEW j \in 1..(Len(bp) + 1),
                      t[i].id = t[j].id
               PROVE  i = j
    BY <1>5
  <2>3. CASE i \in 1..Len(bp) /\ j \in 1..Len(bp)
    BY <2>3, <1>5, TableEntries
  <2>4. CASE i \in 1..Len(bp) /\ j = Len(bp) + 1
    BY <2>4, <2>1, <2>2, <1>2
  <2>5. CASE i = Len(bp) + 1 /\ j \in 1..Len(bp)
    BY <2>5, <2>1, <2>2, <1>2
  <2>6. CASE i = Len(bp) + 1 /\ j = Len(bp) + 1
    BY <2>6
  <2> QED
    BY <2>3, <2>4, <2>5, <2>6, TableEntries
<1>7. \A i \in 1..Len(t) : t[i].id < next_id'
  <2>1. \A i \in 1..Len(bp) : t[i].id < next_id /\ t[i].id \in 1..MaxId
    BY <1>5, TableEntries, TableFacts
  <2>2. t[Len(bp) + 1].id = next_id
    BY <1>4, <1>5
  <2> QED
    BY <2>1, <2>2, <1>1, <1>2, <1>5, TableEntries
<1>8. Len(t) <= MaxBp /\ next_id' \in 1..(MaxId + 1)
  BY <1>1, <1>2, <1>5, TableEntries
<1> QED
  BY <1>2, <1>5, <1>6, <1>7, <1>8, EditKeepsTable DEF TableInv

LEMMA RemoveKeepsTable ==
  ASSUME TableInv, NEW id, Remove(id)
  PROVE  TableInv'
<1>1. CASE Edit(bp)
  BY <1>1, TableEntries, EditKeepsTable DEF TableInv, Remove
<1>2. ASSUME NEW k \in DOMAIN bp, Edit(Without(bp, k))
      PROVE  TableInv'
  <2> DEFINE t == Without(bp, k)
  <2>1. k \in 1..Len(bp)
    BY <1>2, TableEntries
  <2>2. /\ t \in Seq(Breakpoint) /\ Len(t) = Len(bp) - 1
        /\ \A i \in 1..(Len(bp) - 1) : t[i] = bp[IF i < k THEN i ELSE i + 1]
    BY <2>1, TableEntries, WithoutIs
  <2>3. next_id' = next_id /\ Edit(t)
    BY <1>2 DEF Remove
  <2> HIDE DEF t
  <2>4. \A i, j \in 1..Len(t) : t[i].id = t[j].id => i = j
    <3> SUFFICES ASSUME NEW i \in 1..(Len(bp) - 1), NEW j \in 1..(Len(bp) - 1),
                        t[i].id = t[j].id
                 PROVE  i = j
      BY <2>2
    <3> DEFINE x == IF i < k THEN i ELSE i + 1
               y == IF j < k THEN j ELSE j + 1
    <3>1. x \in 1..Len(bp) /\ y \in 1..Len(bp)
      BY <2>1, TableEntries
    <3>2. bp[x].id = bp[y].id
      BY <2>2
    <3>3. x = y
      BY <3>1, <3>2, TableEntries
    <3> QED
      BY <3>3, <2>1, TableEntries
  <2>5. \A i \in 1..Len(t) : t[i].id < next_id'
    <3> SUFFICES ASSUME NEW i \in 1..(Len(bp) - 1)
                 PROVE  t[i].id < next_id
      BY <2>2, <2>3
    <3> DEFINE x == IF i < k THEN i ELSE i + 1
    <3>1. x \in 1..Len(bp)
      BY <2>1, TableEntries
    <3> QED
      BY <3>1, <2>2, TableEntries
  <2>6. Len(t) <= MaxBp /\ next_id' \in 1..(MaxId + 1)
    BY <2>2, <2>3, TableEntries, TableAssumption
  <2> QED
    BY <2>2, <2>3, <2>4, <2>5, <2>6, EditKeepsTable DEF TableInv
<1> QED
  BY <1>1, <1>2 DEF Remove

LEMMA EnableKeepsTable ==
  ASSUME TableInv, NEW id, NEW on \in BOOLEAN, Enable(id, on)
  PROVE  TableInv'
<1> DEFINE t == [i \in DOMAIN bp |-> IF bp[i].id = id THEN [bp[i] EXCEPT !.enabled = on]
                                     ELSE bp[i]]
<1>1. \A i \in 1..Len(bp) : t[i] \in Breakpoint /\ t[i].id = bp[i].id
  BY TableEntries DEF Breakpoint
<1>2. t \in [1..Len(bp) -> Breakpoint]
  BY <1>1, TableEntries
<1>3. next_id' = next_id /\ Edit(t)
  BY DEF Enable
<1> HIDE DEF t
<1>4. t \in Seq(Breakpoint) /\ Len(t) = Len(bp)
  BY <1>2, TableEntries, SeqDef, LenProperties
<1> QED
  BY <1>1, <1>3, <1>4, TableEntries, EditKeepsTable DEF TableInv

LEMMA ClearKeepsTable ==
  ASSUME TableInv, ClearAll
  PROVE  TableInv'
<1>1. /\ <<>> \in Seq(Breakpoint) /\ Len(<<>>) = 0 /\ 0 <= MaxBp
      /\ Edit(<<>>) /\ next_id' \in 1..(MaxId + 1)
  BY TableEntries, EmptySeq, TableAssumption DEF ClearAll
<1>2. \A i \in 1..Len(<<>>) : FALSE
  BY <1>1
<1> QED
  BY <1>1, <1>2, EditKeepsTable DEF TableInv

LEMMA ToggleKeepsTable ==
  ASSUME TableInv, NEW a \in Addr, Toggle(a)
  PROVE  TableInv'
<1>1. {"exec"} \in SUBSET Types /\ "none" \in Conditions
  OBVIOUS
<1>2. CASE Add({"exec"}, a, a, "none")
  BY <1>1, <1>2, AddKeepsTable
<1>3. ASSUME NEW id, Remove(id)
      PROVE  TableInv'
  BY <1>3, RemoveKeepsTable
<1> QED
  BY <1>2, <1>3 DEF Toggle

LEMMA RebuiltKeepsTable ==
  ASSUME TableInv, Rebuilt
  PROVE  TableInv'
<1>1. /\ bp' = bp /\ next_id' = next_id /\ editing' = FALSE
      /\ map_exec' = MapExec(bp) /\ map_mem' = MapMem(bp) /\ map_io' = MapIo(bp)
      /\ nwatch' = NWatch(bp) /\ bus_hook' = (NWatch(bp) > 0)
  BY DEF Rebuilt
<1>2. NWatch(bp) \in 0..MaxBp
  BY TableEntries, NWatchIsCount
<1>3. BpTypeOK'
  <2>1. bus_hook' \in BOOLEAN
    BY <1>1
  <2>2. /\ map_exec' \subseteq Addr
        /\ map_mem' \subseteq MemAccess \X Addr
        /\ map_io' \subseteq IoAccess \X Ports
    BY <1>1 DEF MapExec, MapMem, MapIo
  <2> QED
    BY <1>1, <1>2, <2>1, <2>2, TableEntries DEF BpTypeOK
<1>4. IdsAreUnique'
  BY <1>1 DEF TableInv, IdsAreUnique
<1>5. MapsFollowTable'
  BY <1>1 DEF MapsFollowTable
<1> QED
  BY <1>3, <1>4, <1>5 DEF TableInv

LEMMA EditTableKeepsTable ==
  ASSUME TableInv, EditTable
  PROVE  TableInv'
<1>1. ASSUME NEW e \in Entries, Add(e.type, e.start, e.end, e.condition)
      PROVE  TableInv'
  BY <1>1, AddKeepsTable, UserAssumption
<1>2. ASSUME NEW a \in Places, Toggle(a)
      PROVE  TableInv'
  BY <1>2, ToggleKeepsTable, UserAssumption
<1> QED
  BY <1>1, <1>2, RemoveKeepsTable, EnableKeepsTable, ClearKeepsTable DEF EditTable
-----------------------------------------------------------------------------
(* The invariant. *)

MachineTyped ==
  /\ pc \in Addr /\ stack \in Seq(Word) /\ Len(stack) <= MaxDepth
  /\ halted \in BOOLEAN /\ iff \in BOOLEAN
  /\ scanline \in 0..(Lines - 1) /\ frame \in BOOLEAN
  /\ mt \in {"hook", "run", "bus", "done", "int", "parked"}
EngineTyped ==
  /\ stopped \in BOOLEAN /\ stop_req \in BOOLEAN /\ pending \in BOOLEAN
  /\ act \in Acts /\ count \in 0..MaxCount /\ target \in Word
  /\ sp_guard \in -MaxDepth..0
  /\ last_line \in 0..(Lines - 1) /\ last_frame \in BOOLEAN
  /\ reason \in Reasons
HistoryTyped ==
  /\ mark \in 0..MaxDepth /\ owed \in -1..MaxDepth /\ due \in BOOLEAN
  /\ turns \in 0..(MaxCount + 1) /\ asked \in 0..MaxCount

(* A machine that is stopped waits in the hook, and has been told nothing yet. *)
StopIsParked == stopped => mt = "parked" /\ act = "run"

(* An interrupt is entered with room for its return address. *)
EntryHasRoom == mt = "int" => Len(stack) < MaxDepth

(* The word that is waited for has not been popped, or is forgotten. *)
MarkIsOnStack == mark <= Len(stack)

(* It lies right above the level of the CALL that was stepped over, or at the *)
(* level that was stepped out of.                                             *)
MarkIsGuarded ==
  /\ act = "over" => mark = 0 \/ mark = 1 - sp_guard
  /\ act = "out" => mark = 0 \/ mark = -sp_guard

(* A goal that counts is not met yet. *)
CountIsLeft == act \in {"step", "scanline", "frame"} => count >= 1

(* The lines, or frames, begun since the release are those taken off the count *)
(* and the one that the next boundary will take off.                           *)
TurnsAreCounted ==
  act \in {"scanline", "frame"} =>
    /\ mt \notin {"hook", "int"} => ~Turned
    /\ ~Turned => turns = asked - count
    /\ Turned => turns = asked - count + 1

(* A watched access is on its way to the boundary: the hook will be called,    *)
(* and finds the watchpoint, or the hit is pending.                            *)
HitIsPending ==
  due =>
    /\ mt \in {"bus", "done", "int", "hook"}
    /\ ~editing
    /\ mt = "bus" => /\ Here.access \in Watches
                     /\ \E i \in Matched : bp[i].condition = "none"
    /\ mt # "bus" => pending

IInv ==
  /\ TypeOK /\ IdsAreUnique /\ MapsFollowTable
  /\ StopIsParked /\ EntryHasRoom /\ MarkIsOnStack /\ MarkIsGuarded
  /\ CountIsLeft /\ TurnsAreCounted /\ HitIsPending
  /\ StepsEndOutside /\ TurnsAreExact

USE DEF vars, bpVars, maps, machine, goal, history, rest

LEMMA TypeGroups == TypeOK <=> BpTypeOK /\ MachineTyped /\ EngineTyped /\ HistoryTyped
BY DEF TypeOK, MachineTyped, EngineTyped, HistoryTyped

LEMMA Parts ==
  ASSUME IInv
  PROVE  /\ BpTypeOK /\ MachineTyped /\ EngineTyped /\ HistoryTyped
         /\ TableInv
         /\ StopIsParked /\ EntryHasRoom /\ MarkIsOnStack /\ MarkIsGuarded
         /\ CountIsLeft /\ TurnsAreCounted /\ HitIsPending
         /\ StepsEndOutside /\ TurnsAreExact
BY TypeGroups DEF IInv, TableInv

LEMMA ConstantFacts ==
  /\ MaxAddr \in Nat /\ MaxDepth \in Nat /\ MaxCount \in Nat /\ MaxCount >= 1
  /\ Lines \in Nat /\ Lines > 1 /\ Handler \in Addr /\ Places \subseteq Addr
BY AddrAssumption, BoundsAssumption, HandlerAssumption, UserAssumption

LEMMA ProgramFacts ==
  ASSUME NEW a \in Addr
  PROVE  /\ Program[a].op \in Ops /\ Program[a].to \in Addr /\ Program[a].at \in Addr
         /\ Program[a].access \in Watches \cup {"none", "operand"}
         /\ Program[a].access \in IoAccess => Program[a].at \in Ports
BY ProgramAssumption

LEMMA StackFacts ==
  ASSUME MachineTyped
  PROVE  /\ Len(stack) \in 0..MaxDepth /\ SP \in -MaxDepth..0 /\ SP = -Len(stack)
         /\ \A w \in Word : Append(stack, w) \in Seq(Word) /\ Len(Append(stack, w)) = Len(stack) + 1
         /\ stack # <<>> => Top \in Word /\ Len(stack) > 0
         /\ stack = <<>> => Len(stack) = 0
<1>1. stack \in Seq(Word) /\ Len(stack) <= MaxDepth /\ Len(stack) \in Nat
  BY DEF MachineTyped
<1>2. stack # <<>> => Len(stack) > 0
  BY <1>1, EmptySeq
<1>3. stack # <<>> => Top \in Word
  BY <1>1, <1>2, ElementOfSeq DEF Top
<1>4. \A w \in Word : Append(stack, w) \in Seq(Word) /\ Len(Append(stack, w)) = Len(stack) + 1
  BY <1>1
<1> QED
  BY <1>1, <1>2, <1>3, <1>4, ConstantFacts, EmptySeq DEF SP

LEMMA PopIs ==
  ASSUME MachineTyped, stack # <<>>, Pop
  PROVE  stack' \in Seq(Word) /\ Len(stack') = Len(stack) - 1
<1>1. stack \in Seq(Word) /\ Len(stack) \in Nat /\ Len(stack) > 0
  BY StackFacts, ConstantFacts DEF MachineTyped
<1>2. 1 \in Int /\ Len(stack) - 1 \in Int /\ \A k \in 1..(Len(stack) - 1) : stack[k] \in Word
  BY <1>1, ElementOfSeq
<1>3. /\ SubSeq(stack, 1, Len(stack) - 1) \in Seq(Word)
      /\ Len(SubSeq(stack, 1, Len(stack) - 1))
           = IF 1 <= Len(stack) - 1 THEN Len(stack) - 1 - 1 + 1 ELSE 0
  BY <1>2, SubSeqProperties
<1>4. stack' = SubSeq(stack, 1, Len(stack) - 1)
  BY DEF Pop
<1>5. stack' \in Seq(Word)
  BY <1>3, <1>4
<1>6. Len(stack') = IF 1 <= Len(stack) - 1 THEN Len(stack) - 1 - 1 + 1 ELSE 0
  BY <1>3, <1>4
<1>7. \A n \in Nat : n > 0 => (IF 1 <= n - 1 THEN n - 1 - 1 + 1 ELSE 0) = n - 1
  OBVIOUS
<1>8. Len(stack') = Len(stack) - 1
  BY <1>1, <1>6, <1>7
<1> QED
  BY <1>5, <1>8

LEMMA NextPcType ==
  ASSUME MachineTyped
  PROVE  NextPc \in Addr
BY ConstantFacts DEF MachineTyped, NextPc

(* An instruction leaves the mark on the stack, or forgets it, or is the CALL  *)
(* stepped over and marks what it pushed.                                      *)
LEMMA ExecutesIs ==
  ASSUME MachineTyped, HistoryTyped, EngineTyped, MarkIsOnStack, Executes
  PROVE  /\ pc' \in Addr /\ stack' \in Seq(Word) /\ Len(stack') <= MaxDepth
         /\ halted' \in BOOLEAN /\ iff' \in BOOLEAN
         /\ owed' \in -1..MaxDepth /\ mark' \in 0..MaxDepth
         /\ mark' <= Len(stack')
         /\ \/ mark' = mark \/ mark' = 0
            \/ act = "over" /\ mark' = 1 - sp_guard
<1> USE DEF MachineTyped
<1>1. /\ Len(stack) \in 0..MaxDepth /\ NextPc \in Addr /\ Here.to \in Addr
      /\ MaxDepth \in Nat
      /\ mark \in 0..MaxDepth /\ mark <= Len(stack) /\ owed \in -1..MaxDepth
      /\ sp_guard \in -MaxDepth..0
  BY StackFacts, NextPcType, ProgramFacts, ConstantFacts
     DEF Here, HistoryTyped, MarkIsOnStack, EngineTyped
<1>2. ASSUME UNCHANGED <<stack, mark, owed>>, pc' \in Addr, halted' \in BOOLEAN, iff' \in BOOLEAN
      PROVE  /\ stack' \in Seq(Word) /\ Len(stack') <= MaxDepth /\ owed' \in -1..MaxDepth
             /\ mark' \in 0..MaxDepth /\ mark' <= Len(stack') /\ mark' = mark
  BY <1>1, <1>2
<1>3. ASSUME NEW returned \in BOOLEAN, stack # <<>>, Pop, Unmark(returned)
      PROVE  /\ stack' \in Seq(Word) /\ Len(stack') <= MaxDepth /\ owed' \in -1..MaxDepth
             /\ mark' \in 0..MaxDepth /\ mark' <= Len(stack')
             /\ mark' = mark \/ mark' = 0
  <2>1. stack' \in Seq(Word) /\ Len(stack') = Len(stack) - 1
    BY <1>3, PopIs
  <2>2. CASE mark > 0 /\ Len(stack) = mark
    <3>1. mark' = 0 /\ (owed' = mark - 1 \/ owed' = owed)
      BY <1>3, <2>2 DEF Unmark
    <3> QED
      BY <1>1, <2>1, <2>2, <3>1
  <2>3. CASE ~(mark > 0 /\ Len(stack) = mark)
    <3>1. mark' = mark /\ owed' = owed
      BY <1>3, <2>3 DEF Unmark
    <3>2. Len(stack) > 0
      BY <1>3, StackFacts
    <3> QED
      BY <1>1, <2>1, <2>3, <3>1, <3>2
  <2> QED
    BY <2>2, <2>3
<1>4. CASE Here.op \in {"op", "ei"} /\ pc' = NextPc
           /\ iff' = (iff \/ Here.op = "ei") /\ UNCHANGED <<stack, halted, mark, owed>>
  <2>1. iff' \in BOOLEAN
    BY <1>4
  <2> QED
    BY <1>1, <1>2, <1>4, <2>1
<1>5. CASE Here.op = "jp" /\ pc' = Here.to /\ UNCHANGED <<stack, halted, iff, mark, owed>>
  BY <1>1, <1>2, <1>5
<1>6. CASE Here.op = "djnz" /\ pc' \in {Here.to, NextPc}
           /\ UNCHANGED <<stack, halted, iff, mark, owed>>
  BY <1>1, <1>2, <1>6
<1>7. CASE /\ Here.op = "call"
           /\ \/ /\ Room /\ Push(NextPc) /\ pc' = Here.to
                 /\ mark' = IF act = "over" /\ mark = 0 /\ Len(stack) = -sp_guard
                               /\ target = NextPc
                              THEN Len(stack) + 1 ELSE mark
              \/ pc' = NextPc /\ UNCHANGED <<stack, mark>>
           /\ UNCHANGED <<halted, iff, owed>>
  <2>1. CASE pc' = NextPc /\ UNCHANGED <<stack, mark>>
    BY <1>1, <1>2, <1>7, <2>1
  <2>2. CASE /\ Room /\ Push(NextPc) /\ pc' = Here.to
             /\ mark' = IF act = "over" /\ mark = 0 /\ Len(stack) = -sp_guard
                           /\ target = NextPc
                          THEN Len(stack) + 1 ELSE mark
    <3>1. stack' \in Seq(Word) /\ Len(stack') = Len(stack) + 1 /\ Len(stack) < MaxDepth
      BY <1>1, <2>2, StackFacts DEF Push, Room
    <3>2. mark' = mark \/ (act = "over" /\ Len(stack) = -sp_guard /\ mark' = Len(stack) + 1)
      BY <2>2
    <3>3. mark' \in 0..MaxDepth /\ mark' <= Len(stack')
          /\ (mark' = mark \/ (act = "over" /\ mark' = 1 - sp_guard))
      BY <1>1, <3>1, <3>2
    <3> QED
      BY <1>1, <1>7, <2>2, <3>1, <3>3
  <2> QED
    BY <1>7, <2>1, <2>2
<1>8. CASE /\ Here.op = "ret" /\ stack # <<>> /\ Top # Data
           /\ Pop /\ pc' = Top /\ Unmark(TRUE) /\ UNCHANGED <<halted, iff>>
  <2>1. Top \in Addr
    BY <1>8, StackFacts
  <2> QED
    BY <1>3, <1>8, <2>1
<1>9. CASE /\ Here.op = "push" /\ Room /\ Push(Data) /\ pc' = NextPc
           /\ UNCHANGED <<halted, iff, mark, owed>>
  <2>1. stack' \in Seq(Word) /\ Len(stack') = Len(stack) + 1 /\ Len(stack) < MaxDepth
    BY <1>1, <1>9, StackFacts DEF Push, Room
  <2> QED
    BY <1>1, <1>9, <2>1
<1>10. CASE /\ Here.op = "drop" /\ pc' = NextPc
            /\ \/ stack # <<>> /\ Pop /\ Unmark(FALSE)
               \/ stack = <<>> /\ UNCHANGED <<stack, mark, owed>>
            /\ UNCHANGED <<halted, iff>>
  BY <1>1, <1>2, <1>3, <1>10
<1>11. CASE Here.op = "halt" /\ halted' = TRUE /\ UNCHANGED <<pc, stack, iff, mark, owed>>
  BY <1>1, <1>2, <1>11
<1> QED
  BY <1>4, <1>5, <1>6, <1>7, <1>8, <1>9, <1>10, <1>11 DEF Executes
LEMMA BeamIs ==
  ASSUME MachineTyped, HistoryTyped, BeamMoves
  PROVE  /\ scanline' \in 0..(Lines - 1) /\ frame' \in BOOLEAN /\ turns' \in 0..(MaxCount + 1)
         /\ \/ UNCHANGED <<scanline, frame, turns>>
            \/ /\ scanline' # scanline
               /\ frame' # frame <=> scanline' = 0
               /\ turns' = IF turns <= MaxCount
                               /\ (act = "scanline" \/ (act = "frame" /\ scanline' = 0))
                             THEN turns + 1 ELSE turns
<1>1. CASE UNCHANGED <<scanline, frame, turns>>
  BY <1>1 DEF MachineTyped, HistoryTyped
<1>2. CASE ~UNCHANGED <<scanline, frame, turns>>
  <2>1. /\ scanline' = (scanline + 1) % Lines
        /\ frame' = IF scanline' = 0 THEN ~frame ELSE frame
        /\ turns' = IF turns <= MaxCount
                        /\ (act = "scanline" \/ (act = "frame" /\ scanline' = 0))
                      THEN turns + 1 ELSE turns
    BY <1>2 DEF BeamMoves
  <2>2. scanline \in 0..(Lines - 1) /\ Lines \in Nat /\ Lines > 1 /\ frame \in BOOLEAN
    BY ConstantFacts DEF MachineTyped
  <2>3. scanline' \in 0..(Lines - 1) /\ scanline' # scanline
    <3>1. CASE scanline + 1 < Lines
      <4>1. (scanline + 1) % Lines = scanline + 1
        BY <2>2, <3>1
      <4> QED
        BY <2>1, <2>2, <3>1, <4>1
    <3>2. CASE scanline + 1 = Lines
      <4>1. Lines % Lines = 0
        BY <2>2
      <4>2. (scanline + 1) % Lines = 0
        BY <3>2, <4>1
      <4> QED
        BY <2>1, <2>2, <3>2, <4>2
    <3> QED
      BY <2>2, <3>1, <3>2
  <2>4. frame' \in BOOLEAN /\ (frame' # frame <=> scanline' = 0)
    BY <2>1, <2>2
  <2>5. turns' \in 0..(MaxCount + 1)
    BY <2>1, ConstantFacts DEF HistoryTyped
  <2> QED
    BY <2>1, <2>3, <2>4, <2>5
<1> QED
  BY <1>1, <1>2

(* What the user does that lets the machine go: in which words, all of them    *)
(* the same but for the goal.                                                  *)
Goes ==
  \/ Resume \/ StepOver \/ StepOut
  \/ \E n \in 1..MaxCount : StepCount(n) \/ ScanlineStep(n) \/ FrameStep(n)
  \/ \E a \in Places : RunTo(a)

LEMMA NextIs ==
  ASSUME [Next]_vars
  PROVE  \/ Run \/ BusHook \/ Finish \/ Interrupt \/ InstrHook \/ LetGo
         \/ Goes \/ Stop \/ (\E a \in Places : SetPc(a))
         \/ EditTable \/ Rebuild \/ UNCHANGED vars
BY DEF Next, MachineThread, User, Goes

(* What a release asks for is a goal that is not met yet.                       *)
LEMMA GoesAsks ==
  ASSUME MachineTyped, EngineTyped, Goes
  PROVE  /\ \E a \in Acts, n \in 0..MaxCount :
              Release(a, n) /\ (a \in {"step", "scanline", "frame"} => n >= 1)
         /\ target' \in Word /\ sp_guard' \in -MaxDepth..0
         /\ last_line' \in 0..(Lines - 1) /\ last_frame' \in BOOLEAN
         /\ act' = "scanline" => last_line' = scanline
         /\ act' = "frame" => last_frame' = frame
         /\ \/ mark' = 0
            \/ mark' = Len(stack) /\ act' = "out" /\ sp_guard' = -Len(stack)
<1>1. /\ Len(stack) \in 0..MaxDepth /\ SP \in -MaxDepth..0 /\ SP = -Len(stack)
      /\ NextPc \in Addr /\ NextPc \in Word /\ MaxCount \in Nat /\ MaxCount >= 1
      /\ stack # <<>> => Top \in Word
      /\ scanline \in 0..(Lines - 1) /\ frame \in BOOLEAN
  BY StackFacts, NextPcType, ConstantFacts DEF MachineTyped
<1>2. /\ count \in 0..MaxCount /\ target \in Word /\ sp_guard \in -MaxDepth..0
      /\ last_line \in 0..(Lines - 1) /\ last_frame \in BOOLEAN
  BY DEF EngineTyped
<1>3. ASSUME NEW a, NEW n, Release(a, n)
      PROVE  act' = a
  BY <1>3 DEF Release
<1>4. CASE Resume
  <2>1. /\ Release("run", count) /\ "run" \in Acts /\ mark' = 0
        /\ UNCHANGED <<target, sp_guard, last_line, last_frame>>
    BY <1>4 DEF Resume, Acts
  <2> QED
    BY <1>2, <1>3, <2>1
<1>5. CASE StepOver
  <2>1. mark' = 0 /\ UNCHANGED <<last_line, last_frame>>
    BY <1>5 DEF StepOver
  <2>2. CASE Release("over", count) /\ target' = NextPc /\ sp_guard' = SP
    <3>1. "over" \in Acts
      BY DEF Acts
    <3> QED
      BY <1>1, <1>2, <1>3, <2>1, <2>2, <3>1
  <2>3. CASE Release("step", 1) /\ UNCHANGED <<target, sp_guard>>
    <3>1. "step" \in Acts /\ 1 \in 0..MaxCount /\ 1 >= 1
      BY <1>1 DEF Acts
    <3> QED
      BY <1>2, <1>3, <2>1, <2>3, <3>1
  <2> QED
    BY <1>5, <2>2, <2>3 DEF StepOver
<1>6. CASE StepOut
  <2>1. target' \in Word
    BY <1>1, <1>6 DEF StepOut
  <2>2. mark' = 0 \/ mark' = Len(stack)
    BY <1>6 DEF StepOut
  <2>3. /\ Release("out", count) /\ "out" \in Acts /\ sp_guard' = SP
        /\ UNCHANGED <<last_line, last_frame>>
    BY <1>6 DEF StepOut, Acts
  <2> QED
    BY <1>1, <1>2, <1>3, <2>1, <2>2, <2>3
<1>7. ASSUME NEW n \in 1..MaxCount
      PROVE  n \in 0..MaxCount /\ n >= 1
  BY <1>1
<1>8. CASE \E n \in 1..MaxCount : StepCount(n)
  <2> PICK n \in 1..MaxCount : StepCount(n)
    BY <1>8
  <2>1. /\ Release("step", n) /\ "step" \in Acts /\ mark' = 0
        /\ UNCHANGED <<target, sp_guard, last_line, last_frame>>
    BY DEF StepCount, Acts
  <2> QED
    BY <1>2, <1>3, <1>7, <2>1
<1>9. CASE \E n \in 1..MaxCount : ScanlineStep(n)
  <2> PICK n \in 1..MaxCount : ScanlineStep(n)
    BY <1>9
  <2>1. /\ Release("scanline", n) /\ "scanline" \in Acts /\ mark' = 0
        /\ last_line' = scanline /\ UNCHANGED <<target, sp_guard, last_frame>>
    BY DEF ScanlineStep, Acts
  <2> QED
    BY <1>1, <1>2, <1>3, <1>7, <2>1
<1>10. CASE \E n \in 1..MaxCount : FrameStep(n)
  <2> PICK n \in 1..MaxCount : FrameStep(n)
    BY <1>10
  <2>1. /\ Release("frame", n) /\ "frame" \in Acts /\ mark' = 0
        /\ last_frame' = frame /\ UNCHANGED <<target, sp_guard, last_line>>
    BY DEF FrameStep, Acts
  <2> QED
    BY <1>1, <1>2, <1>3, <1>7, <2>1
<1>11. CASE \E a \in Places : RunTo(a)
  <2> PICK a \in Places : RunTo(a)
    BY <1>11
  <2>1. /\ Release("runto", count) /\ "runto" \in Acts /\ mark' = 0
        /\ target' = a /\ a \in Word /\ UNCHANGED <<sp_guard, last_line, last_frame>>
    BY ConstantFacts DEF RunTo, Acts
  <2> QED
    BY <1>2, <1>3, <2>1
<1> QED
  BY <1>4, <1>5, <1>6, <1>8, <1>9, <1>10, <1>11 DEF Goes

LEMMA GoesIs ==
  ASSUME MachineTyped, EngineTyped, StopIsParked, Goes
  PROVE  /\ ~editing /\ stopped /\ mt = "parked" /\ mt' = mt
         /\ stopped' = FALSE /\ stop_req' = FALSE
         /\ owed' = -1 /\ turns' = 0 /\ asked' = count' /\ due' = FALSE
         /\ UNCHANGED <<bpVars, machine, pending, reason>>
         /\ act' \in Acts /\ count' \in 0..MaxCount
         /\ act' \in {"step", "scanline", "frame"} => count' >= 1
<1>1. PICK a \in Acts, n \in 0..MaxCount :
        Release(a, n) /\ (a \in {"step", "scanline", "frame"} => n >= 1)
  BY GoesAsks
<1> QED
  BY <1>1 DEF Release, StopIsParked

-----------------------------------------------------------------------------
(* Each part of the invariant over a step. *)

LEMMA StepTable ==
  ASSUME TableInv, [Next]_vars
  PROVE  TableInv'
<1>1. CASE EditTable
  BY <1>1, EditTableKeepsTable
<1>2. CASE Rebuild
  BY <1>2, RebuiltKeepsTable DEF Rebuild
<1>3. CASE UNCHANGED bpVars
  BY <1>3 DEF TableInv, BpTypeOK, IdsAreUnique, MapsFollowTable, MapExec, MapMem, MapIo,
              NWatch, Enabled, Covers
<1>4. CASE Goes
  <2>1. UNCHANGED bpVars
    BY <1>4 DEF Goes, Resume, StepOver, StepOut, StepCount, ScanlineStep, FrameStep,
                RunTo, Release
  <2> QED
    BY <1>3, <2>1
<1>5. ASSUME NEW a \in Places, SetPc(a)
      PROVE  UNCHANGED bpVars
  BY <1>5 DEF SetPc
<1> QED
  BY <1>1, <1>2, <1>3, <1>4, <1>5, NextIs
     DEF Run, BusHook, Finish, Interrupt, InstrHook, LetGo, Stop

LEMMA StepMachineTyped ==
  ASSUME IInv, [Next]_vars
  PROVE  MachineTyped'
<1> USE DEF MachineTyped
<1>0. MachineTyped /\ EngineTyped /\ HistoryTyped /\ MarkIsOnStack /\ StopIsParked
  BY Parts
<1>1. CASE UNCHANGED machine /\ mt' \in {"hook", "run", "bus", "done", "int", "parked"}
  BY <1>0, <1>1
<1>2. CASE Run
  BY <1>1, <1>2 DEF Run
<1>3. CASE BusHook
  BY <1>1, <1>3 DEF BusHook
<1>4. CASE Finish
  <2>1. BeamMoves /\ Executes /\ mt' \in {"hook", "int"}
    BY <1>4 DEF Finish
  <2> QED
    BY <1>0, <2>1, BeamIs, ExecutesIs
<1>5. CASE Interrupt
  <2>1. /\ Push(IF halted THEN NextPc ELSE pc)
        /\ pc' = Handler /\ iff' = FALSE /\ halted' = FALSE /\ mt' = "hook"
        /\ UNCHANGED <<scanline, frame>>
    BY <1>5 DEF Interrupt
  <2>2. (IF halted THEN NextPc ELSE pc) \in Word
    BY <1>0, NextPcType
  <2>3. stack' \in Seq(Word) /\ Len(stack') = Len(stack) + 1
    BY <1>0, <2>1, <2>2, StackFacts DEF Push
  <2>4. Len(stack) < MaxDepth
    BY <1>5, Parts DEF EntryHasRoom, Interrupt
  <2>5. Len(stack) \in Nat /\ MaxDepth \in Nat
    BY <1>0, StackFacts, ConstantFacts
  <2>6. stack' \in Seq(Word) /\ Len(stack') <= MaxDepth
    BY <2>3, <2>4, <2>5
  <2>7. pc' \in Addr /\ halted' \in BOOLEAN /\ iff' \in BOOLEAN
    BY <2>1, ConstantFacts
  <2>8. scanline' \in 0..(Lines - 1) /\ frame' \in BOOLEAN
        /\ mt' \in {"hook", "run", "bus", "done", "int", "parked"}
    BY <1>0, <2>1
  <2> QED
    BY <2>6, <2>7, <2>8
<1>6. CASE InstrHook
  BY <1>1, <1>6 DEF InstrHook
<1>7. CASE LetGo
  BY <1>1, <1>7 DEF LetGo
<1>8. CASE Goes
  <2>1. mt' = mt /\ UNCHANGED machine
    BY <1>0, <1>8, GoesIs
  <2> QED
    BY <1>0, <1>1, <2>1
<1>9. CASE Stop
  BY <1>0, <1>1, <1>9 DEF Stop
<1>10. ASSUME NEW a \in Places, SetPc(a)
       PROVE  MachineTyped'
  BY <1>0, <1>10, ConstantFacts DEF SetPc
<1>11. CASE EditTable
  BY <1>0, <1>1, <1>11 DEF EditTable
<1>12. CASE Rebuild
  BY <1>0, <1>1, <1>12 DEF Rebuild
<1>13. CASE UNCHANGED vars
  BY <1>0, <1>1, <1>13
<1> QED
  BY <1>2, <1>3, <1>4, <1>5, <1>6, <1>7, <1>8, <1>9, <1>10, <1>11, <1>12, <1>13, NextIs

LEMMA StepEntryHasRoom ==
  ASSUME IInv, [Next]_vars
  PROVE  EntryHasRoom'
<1>0. MachineTyped /\ EngineTyped /\ StopIsParked /\ EntryHasRoom
  BY Parts
<1>1. CASE mt' # "int"
  BY <1>1 DEF EntryHasRoom
<1>2. CASE UNCHANGED <<mt, stack>>
  BY <1>0, <1>2 DEF EntryHasRoom
<1>3. CASE Finish
  BY <1>3 DEF Finish, EntryHasRoom
<1>4. CASE Goes
  BY <1>0, <1>1, <1>4, GoesIs
<1>5. ASSUME NEW a \in Places, SetPc(a)
      PROVE  EntryHasRoom'
  BY <1>2, <1>5 DEF SetPc
<1> QED
  BY <1>1, <1>2, <1>3, <1>4, <1>5, NextIs
     DEF Run, BusHook, Interrupt, InstrHook, LetGo, Stop, EditTable, Rebuild

(* What the boundary's hook does with the goal: it is met and gone, or one     *)
(* less is left of it.                                                         *)
LEMMA HookIs ==
  ASSUME MachineTyped, EngineTyped, CountIsLeft, InstrHook
  PROVE  /\ mt = "hook" /\ due' = FALSE
         /\ UNCHANGED <<bpVars, machine, target, sp_guard, mark, owed, turns, asked>>
         /\ stopped' \in BOOLEAN /\ stop_req' \in BOOLEAN /\ pending' \in BOOLEAN
         /\ count' \in 0..MaxCount /\ last_line' \in 0..(Lines - 1) /\ last_frame' \in BOOLEAN
         /\ \/ /\ mt' = "parked" /\ stopped' = TRUE /\ act' = "run"
               /\ reason' \in Reasons
               /\ reason' \in {"pause", "watch", "exec"} \/ (reason' = act /\ GoalMet)
            \/ /\ mt' = "run" /\ UNCHANGED <<reason, stopped, stop_req, pending, act>>
               /\ ~pending /\ ~GoalMet
               /\ count' = IF act = "step" \/ Turned THEN count - 1 ELSE count
               /\ last_line' = IF act = "scanline" THEN scanline ELSE last_line
               /\ last_frame' = IF act = "frame" THEN frame ELSE last_frame
<1>1. PICK hit \in ExecHits :
        /\ GoalSteps(hit)
        /\ \/ /\ StopCause(hit) # "running"
              /\ reason' = StopCause(hit)
              /\ stopped' = TRUE /\ stop_req' = FALSE /\ pending' = FALSE
              /\ act' = "run"
              /\ mt' = "parked"
           \/ /\ StopCause(hit) = "running"
              /\ mt' = "run"
              /\ UNCHANGED <<reason, stopped, stop_req, pending, act>>
  BY DEF InstrHook
<1>2. /\ mt = "hook" /\ due' = FALSE
      /\ UNCHANGED <<bpVars, machine, target, sp_guard, mark, owed, turns, asked>>
  BY DEF InstrHook
<1>3. /\ count \in 0..MaxCount /\ MaxCount \in Nat /\ scanline \in 0..(Lines - 1)
      /\ last_line \in 0..(Lines - 1) /\ frame \in BOOLEAN /\ last_frame \in BOOLEAN
      /\ stopped \in BOOLEAN /\ stop_req \in BOOLEAN /\ pending \in BOOLEAN /\ act \in Acts
  BY ConstantFacts DEF MachineTyped, EngineTyped
<1>4. act = "step" \/ Turned => count - 1 \in 0..MaxCount
  BY <1>3 DEF CountIsLeft, Turned
<1>5. count' \in 0..MaxCount /\ last_line' \in 0..(Lines - 1) /\ last_frame' \in BOOLEAN
  BY <1>1, <1>3, <1>4 DEF GoalSteps
<1>6. ASSUME StopCause(hit) # "running"
      PROVE  /\ StopCause(hit) \in Reasons
             /\ StopCause(hit) \in {"pause", "watch", "exec"} \/ (StopCause(hit) = act /\ GoalMet)
  BY <1>3, <1>6 DEF StopCause, Reasons, Acts
<1>7. ASSUME StopCause(hit) = "running"
      PROVE  /\ ~stop_req /\ ~pending /\ ~hit /\ ~GoalMet
  BY <1>3, <1>7 DEF StopCause, Acts, GoalMet, Turned
<1>8. CASE StopCause(hit) # "running"
  <2>1. /\ reason' = StopCause(hit) /\ stopped' = TRUE /\ stop_req' = FALSE
        /\ pending' = FALSE /\ act' = "run" /\ mt' = "parked"
    BY <1>1, <1>8
  <2> QED
    BY <1>2, <1>5, <1>6, <1>8, <2>1
<1>9. CASE StopCause(hit) = "running"
  <2>1. mt' = "run" /\ UNCHANGED <<reason, stopped, stop_req, pending, act>>
    BY <1>1, <1>9
  <2>2. ~pending /\ ~GoalMet
    BY <1>7, <1>9
  <2>3. /\ count' = IF act = "step" \/ Turned THEN count - 1 ELSE count
        /\ last_line' = IF act = "scanline" THEN scanline ELSE last_line
        /\ last_frame' = IF act = "frame" THEN frame ELSE last_frame
    BY <1>1, <1>7, <1>9 DEF GoalSteps
  <2> QED
    BY <1>2, <1>3, <1>5, <2>1, <2>2, <2>3
<1> QED
  BY <1>8, <1>9
LEMMA StepEngineTyped ==
  ASSUME IInv, [Next]_vars
  PROVE  EngineTyped'
<1> USE DEF EngineTyped
<1>0. MachineTyped /\ EngineTyped /\ StopIsParked /\ CountIsLeft
  BY Parts
<1>1. CASE UNCHANGED <<stopped, stop_req, pending, goal, reason>>
  BY <1>0, <1>1
<1>2. CASE BusHook
  <2>1. pending' \in BOOLEAN /\ UNCHANGED <<stopped, stop_req, goal, reason>>
    BY <1>0, <1>2 DEF BusHook
  <2> QED
    BY <1>0, <2>1
<1>3. CASE InstrHook
  <2>1. act' \in Acts /\ reason' \in Reasons /\ target' = target /\ sp_guard' = sp_guard
    BY <1>0, <1>3, HookIs DEF Acts
  <2>2. /\ stopped' \in BOOLEAN /\ stop_req' \in BOOLEAN /\ pending' \in BOOLEAN
        /\ count' \in 0..MaxCount /\ last_line' \in 0..(Lines - 1) /\ last_frame' \in BOOLEAN
    BY <1>0, <1>3, HookIs
  <2> QED
    BY <1>0, <2>1, <2>2
<1>4. CASE Goes
  BY <1>0, <1>4, GoesIs, GoesAsks
<1>5. CASE Stop
  BY <1>0, <1>5 DEF Stop
<1>6. ASSUME NEW a \in Places, SetPc(a)
      PROVE  EngineTyped'
  BY <1>1, <1>6 DEF SetPc
<1>7. CASE Rebuild
  <2>1. pending' \in BOOLEAN /\ UNCHANGED <<stopped, stop_req, goal, reason>>
    BY <1>0, <1>7 DEF Rebuild
  <2> QED
    BY <1>0, <2>1
<1> QED
  BY <1>1, <1>2, <1>3, <1>4, <1>5, <1>6, <1>7, NextIs
     DEF Run, Finish, Interrupt, LetGo, EditTable

LEMMA StepHistoryTyped ==
  ASSUME IInv, [Next]_vars
  PROVE  HistoryTyped'
<1> USE DEF HistoryTyped
<1>0. MachineTyped /\ EngineTyped /\ HistoryTyped /\ StopIsParked /\ MarkIsOnStack /\ CountIsLeft
  BY Parts
<1>1. CASE UNCHANGED <<mark, owed, turns, asked>> /\ due' \in BOOLEAN
  BY <1>0, <1>1
<1>2. CASE Run
  <2>1. due' \in BOOLEAN
    BY <1>0, <1>2 DEF Run
  <2> QED
    BY <1>1, <1>2, <2>1 DEF Run
<1>3. CASE BusHook
  BY <1>0, <1>1, <1>3 DEF BusHook
<1>4. CASE Finish
  <2>1. BeamMoves /\ Executes /\ UNCHANGED <<asked, due>>
    BY <1>4 DEF Finish
  <2> QED
    BY <1>0, <2>1, BeamIs, ExecutesIs
<1>5. CASE InstrHook
  BY <1>0, <1>1, <1>5 DEF InstrHook
<1>6. CASE Goes
  <2>1. owed' = -1 /\ turns' = 0 /\ asked' \in 0..MaxCount /\ due' = FALSE
    BY <1>0, <1>6, GoesIs
  <2>2. mark' = 0 \/ mark' = Len(stack)
    BY <1>0, <1>6, GoesAsks
  <2>3. Len(stack) \in 0..MaxDepth /\ MaxDepth \in Nat /\ MaxCount \in Nat
    BY <1>0, StackFacts, ConstantFacts
  <2>4. mark' \in 0..MaxDepth
    BY <2>2, <2>3
  <2>5. owed' \in -1..MaxDepth /\ turns' \in 0..(MaxCount + 1)
    BY <2>1, <2>3
  <2> QED
    BY <2>1, <2>4, <2>5
<1>7. ASSUME NEW a \in Places, SetPc(a)
      PROVE  HistoryTyped'
  BY <1>0, <1>1, <1>7 DEF SetPc
<1>8. CASE EditTable
  BY <1>1, <1>8 DEF EditTable
<1>9. CASE Rebuild
  BY <1>1, <1>9 DEF Rebuild
<1>10. CASE UNCHANGED history
  BY <1>0, <1>10
<1> QED
  BY <1>2, <1>3, <1>4, <1>5, <1>6, <1>7, <1>8, <1>9, <1>10, NextIs
     DEF Interrupt, LetGo, Stop

LEMMA StepParked ==
  ASSUME IInv, [Next]_vars
  PROVE  StopIsParked'
<1> USE DEF StopIsParked
<1>0. MachineTyped /\ EngineTyped /\ StopIsParked /\ CountIsLeft
  BY Parts
<1>1. CASE UNCHANGED <<stopped, mt, act>>
  BY <1>0, <1>1
<1>2. ASSUME mt # "parked", UNCHANGED stopped
      PROVE  StopIsParked'
  BY <1>0, <1>2
<1>3. CASE InstrHook
  BY <1>0, <1>3, HookIs
<1>4. CASE Goes
  BY <1>0, <1>4, GoesIs
<1>5. ASSUME NEW a \in Places, SetPc(a)
      PROVE  UNCHANGED <<stopped, mt, act>>
  BY <1>5 DEF SetPc
<1> QED
  BY <1>1, <1>2, <1>3, <1>4, <1>5, NextIs
     DEF Run, BusHook, Finish, Interrupt, LetGo, Stop, EditTable, Rebuild

LEMMA StepMarkIsOnStack ==
  ASSUME IInv, [Next]_vars
  PROVE  MarkIsOnStack'
<1> USE DEF MarkIsOnStack
<1>0. /\ MachineTyped /\ EngineTyped /\ HistoryTyped /\ StopIsParked /\ CountIsLeft
      /\ MarkIsOnStack
  BY Parts
<1>1. CASE UNCHANGED <<stack, mark>>
  BY <1>0, <1>1
<1>2. CASE Finish
  BY <1>0, <1>2, ExecutesIs DEF Finish
<1>3. CASE Interrupt
  <2>1. /\ Push(IF halted THEN NextPc ELSE pc) /\ mark' = mark
    BY <1>3 DEF Interrupt
  <2>2. (IF halted THEN NextPc ELSE pc) \in Word
    BY <1>0, NextPcType DEF MachineTyped
  <2>3. Len(stack') = Len(stack) + 1 /\ Len(stack) \in Nat
    BY <1>0, <2>1, <2>2, StackFacts, ConstantFacts DEF Push
  <2>4. mark \in Nat
    BY <1>0 DEF HistoryTyped
  <2> QED
    BY <1>0, <2>1, <2>3, <2>4
<1>4. CASE Goes
  <2>1. stack' = stack
    BY <1>0, <1>4, GoesIs
  <2>2. mark' = 0 \/ mark' = Len(stack)
    BY <1>0, <1>4, GoesAsks
  <2>3. Len(stack) \in Nat
    BY <1>0, StackFacts, ConstantFacts
  <2> QED
    BY <2>1, <2>2, <2>3
<1>5. ASSUME NEW a \in Places, SetPc(a)
      PROVE  UNCHANGED <<stack, mark>>
  BY <1>5 DEF SetPc
<1> QED
  BY <1>1, <1>2, <1>3, <1>4, <1>5, NextIs
     DEF Run, BusHook, InstrHook, LetGo, Stop, EditTable, Rebuild

LEMMA StepMarkIsGuarded ==
  ASSUME IInv, [Next]_vars
  PROVE  MarkIsGuarded'
<1> USE DEF MarkIsGuarded
<1>0. /\ MachineTyped /\ EngineTyped /\ HistoryTyped /\ StopIsParked /\ CountIsLeft
      /\ MarkIsOnStack /\ MarkIsGuarded
  BY Parts
<1>1. CASE UNCHANGED <<mark, act, sp_guard>>
  BY <1>0, <1>1
<1>2. CASE Finish
  <2>1. act' = act /\ sp_guard' = sp_guard
    BY <1>2 DEF Finish
  <2>2. mark' = mark \/ mark' = 0 \/ (act = "over" /\ mark' = 1 - sp_guard)
    BY <1>0, <1>2, ExecutesIs DEF Finish
  <2> QED
    BY <1>0, <2>1, <2>2
<1>3. CASE InstrHook
  <2>1. mark' = mark /\ sp_guard' = sp_guard /\ (act' = "run" \/ act' = act)
    BY <1>0, <1>3, HookIs
  <2> QED
    BY <1>0, <2>1
<1>4. CASE Goes
  <2>1. mark' = 0 \/ (mark' = Len(stack) /\ act' = "out" /\ sp_guard' = -Len(stack))
    BY <1>0, <1>4, GoesAsks
  <2>2. Len(stack) \in Nat
    BY <1>0, StackFacts, ConstantFacts
  <2> QED
    BY <2>1, <2>2
<1>5. ASSUME NEW a \in Places, SetPc(a)
      PROVE  UNCHANGED <<mark, act, sp_guard>>
  BY <1>5 DEF SetPc
<1> QED
  BY <1>1, <1>2, <1>3, <1>4, <1>5, NextIs
     DEF Run, BusHook, Interrupt, LetGo, Stop, EditTable, Rebuild

LEMMA StepCountIsLeft ==
  ASSUME IInv, [Next]_vars
  PROVE  CountIsLeft'
<1> USE DEF CountIsLeft
<1>0. MachineTyped /\ EngineTyped /\ StopIsParked /\ CountIsLeft
  BY Parts
<1>1. CASE UNCHANGED <<act, count>>
  BY <1>0, <1>1
<1>2. CASE InstrHook
  <2>1. CASE act' = "run"
    BY <2>1
  <2>2. CASE act' # "run"
    <3>1. /\ act' = act /\ ~GoalMet
          /\ count' = IF act = "step" \/ Turned THEN count - 1 ELSE count
      BY <1>0, <1>2, <2>2, HookIs
    <3>2. act = "step" \/ Turned => ~(count <= 1)
      BY <3>1 DEF GoalMet
    <3>3. count \in Nat
      BY <1>0, ConstantFacts DEF EngineTyped
    <3> QED
      BY <1>0, <3>1, <3>2, <3>3
  <2> QED
    BY <2>1, <2>2
<1>3. CASE Goes
  BY <1>0, <1>3, GoesIs
<1>4. ASSUME NEW a \in Places, SetPc(a)
      PROVE  UNCHANGED <<act, count>>
  BY <1>4 DEF SetPc
<1> QED
  BY <1>1, <1>2, <1>3, <1>4, NextIs
     DEF Run, BusHook, Finish, Interrupt, LetGo, Stop, EditTable, Rebuild
LEMMA StepTurns ==
  ASSUME IInv, [Next]_vars
  PROVE  TurnsAreCounted'
<1> USE DEF TurnsAreCounted
<1>0. /\ MachineTyped /\ EngineTyped /\ HistoryTyped /\ StopIsParked /\ CountIsLeft
      /\ TurnsAreCounted
  BY Parts
<1>1. /\ count \in 0..MaxCount /\ asked \in 0..MaxCount /\ turns \in 0..(MaxCount + 1)
      /\ MaxCount \in Nat /\ frame \in BOOLEAN /\ last_frame \in BOOLEAN
  BY <1>0, ConstantFacts DEF MachineTyped, EngineTyped, HistoryTyped
<1>2. ASSUME UNCHANGED <<scanline, frame, goal, turns, asked>>,
             mt \in {"hook", "int"} => mt' \in {"hook", "int"}
      PROVE  TurnsAreCounted'
  BY <1>0, <1>2 DEF Turned
<1>3. CASE Finish
  <2>1. /\ mt = "done" /\ mt' \in {"hook", "int"} /\ BeamMoves
        /\ UNCHANGED <<goal, asked>>
    BY <1>3 DEF Finish
  <2> SUFFICES ASSUME act' \in {"scanline", "frame"}
               PROVE  /\ ~Turned' => turns' = asked' - count'
                      /\ Turned' => turns' = asked' - count' + 1
    BY <2>1
  <2>2. act \in {"scanline", "frame"} /\ ~Turned /\ turns = asked - count /\ count >= 1
    BY <1>0, <2>1 DEF CountIsLeft
  <2>3. CASE UNCHANGED <<scanline, frame, turns>>
    <3>1. ~Turned'
      BY <2>1, <2>2, <2>3 DEF Turned
    <3> QED
      BY <2>1, <2>2, <2>3, <3>1
  <2>4. CASE /\ scanline' # scanline
             /\ frame' # frame <=> scanline' = 0
             /\ turns' = IF turns <= MaxCount
                             /\ (act = "scanline" \/ (act = "frame" /\ scanline' = 0))
                           THEN turns + 1 ELSE turns
    <3>1. turns <= MaxCount
      BY <1>1, <2>2
    <3>2. CASE act = "scanline"
      <4>1. Turned'
        BY <2>1, <2>2, <2>4, <3>2 DEF Turned
      <4>2. turns' = turns + 1
        BY <2>4, <3>1, <3>2
      <4> QED
        BY <1>1, <2>1, <2>2, <4>1, <4>2
    <3>3. CASE act = "frame"
      <4>1. Turned' <=> scanline' = 0
        BY <2>1, <2>2, <2>4, <3>3 DEF Turned
      <4>2. turns' = IF scanline' = 0 THEN turns + 1 ELSE turns
        BY <2>4, <3>1, <3>3
      <4>3. turns' = IF Turned' THEN turns + 1 ELSE turns
        BY <4>1, <4>2
      <4> QED
        BY <1>1, <2>1, <2>2, <4>3
    <3> QED
      BY <2>2, <3>2, <3>3
  <2> QED
    BY <1>0, <2>1, <2>3, <2>4, BeamIs
<1>4. CASE InstrHook
  <2>1. CASE act' = "run"
    BY <2>1
  <2>2. CASE act' # "run"
    <3>1. /\ mt' = "run" /\ act' = act
          /\ count' = IF act = "step" \/ Turned THEN count - 1 ELSE count
          /\ last_line' = IF act = "scanline" THEN scanline ELSE last_line
          /\ last_frame' = IF act = "frame" THEN frame ELSE last_frame
          /\ UNCHANGED <<scanline, frame, turns, asked>>
      BY <1>0, <1>4, <2>2, HookIs
    <3> SUFFICES ASSUME act \in {"scanline", "frame"}
                 PROVE  ~Turned' /\ turns' = asked' - count'
      BY <3>1
    <3>2. ~Turned'
      BY <3>1 DEF Turned
    <3>3. CASE Turned
      <4>1. turns = asked - count + 1 /\ count' = count - 1 /\ UNCHANGED <<turns, asked>>
        BY <1>0, <3>1, <3>3
      <4>2. turns' = asked' - count'
        BY <1>1, <4>1
      <4> QED
        BY <3>2, <4>2
    <3>4. CASE ~Turned
      <4>1. turns = asked - count /\ UNCHANGED <<count, turns, asked>>
        BY <1>0, <3>1, <3>4
      <4>2. turns' = asked' - count'
        BY <1>1, <4>1
      <4> QED
        BY <3>2, <4>2
    <3> QED
      BY <3>2, <3>3, <3>4
  <2> QED
    BY <2>1, <2>2
<1>5. CASE Goes
  <2>1. /\ UNCHANGED <<scanline, frame>> /\ turns' = 0 /\ asked' = count'
        /\ count' \in 0..MaxCount
        /\ act' = "scanline" => last_line' = scanline
        /\ act' = "frame" => last_frame' = frame
    BY <1>0, <1>5, GoesIs, GoesAsks
  <2>2. act' \in {"scanline", "frame"} => ~Turned'
    BY <2>1 DEF Turned
  <2>3. turns' = 0 /\ asked' = count' /\ count' \in 0..MaxCount
    BY <2>1
  <2>4. \A n \in 0..MaxCount : n - n = 0
    BY <1>1
  <2>5. turns' = asked' - count'
    BY <2>3, <2>4
  <2> QED
    BY <2>2, <2>5
<1>6. ASSUME NEW a \in Places, SetPc(a)
      PROVE  TurnsAreCounted'
  BY <1>2, <1>6 DEF SetPc
<1> QED
  BY <1>2, <1>3, <1>4, <1>5, <1>6, NextIs
     DEF Run, BusHook, Interrupt, LetGo, Stop, EditTable, Rebuild

(* Access is what the maps are of. *)
LEMMA AccessIs ==
  ASSUME MachineTyped, Here.access \in Watches
  PROVE  /\ Access = <<Here.access, Here.at>> /\ IsAccess
         /\ Access[1] = Here.access /\ Access[2] = Here.at
         /\ Access \in (MemAccess \X Addr) \cup (IoAccess \X Ports)
<1>1. /\ Here.at \in Addr
      /\ Here.access \in IoAccess => Here.at \in Ports
  BY ProgramFacts DEF Here, MachineTyped
<1>2. Here.access # "none" /\ Here.access # "operand"
  OBVIOUS
<1>3. Access = <<Here.access, Here.at>>
  BY <1>2 DEF Access
<1> QED
  BY <1>1, <1>2, <1>3 DEF IsAccess

(* The maps cover what an entry matches, and the bus hook is there to ask.     *)
LEMMA WatchedIsSeen ==
  ASSUME MachineTyped, TableInv, Watched
  PROVE  bus_hook /\ IsAccess /\ Access \in map_mem \cup map_io
<1>1. Here.access \in Watches /\ ~editing
  BY DEF Watched
<1>2. PICK i \in Matching(Access[1], Access[2]) : bp[i].condition = "none"
  BY DEF Watched
<1>3. /\ Access[1] = Here.access /\ IsAccess
      /\ Access \in (MemAccess \X Addr) \cup (IoAccess \X Ports)
  BY <1>1, AccessIs
<1>4. /\ i \in Enabled(bp) /\ Access[1] \in bp[i].type /\ Covers(bp[i], Access[2])
  BY <1>2 DEF Matching
<1>5. /\ map_mem = MapMem(bp) /\ map_io = MapIo(bp) /\ nwatch = NWatch(bp)
      /\ bus_hook = (nwatch > 0)
  BY <1>1 DEF TableInv, MapsFollowTable
<1>6. Access \in map_mem \cup map_io
  BY <1>3, <1>4, <1>5 DEF MapMem, MapIo
<1>7. bp[i].type \cap Watches # {}
  BY <1>1, <1>3, <1>4
<1>8. NWatch(bp) > 0
  BY <1>4, <1>7, NWatchIsCount, TableEntries
<1> QED
  BY <1>3, <1>5, <1>6, <1>8

LEMMA StepHit ==
  ASSUME IInv, [Next]_vars
  PROVE  HitIsPending'
<1> USE DEF HitIsPending
<1>0. MachineTyped /\ EngineTyped /\ HistoryTyped /\ StopIsParked /\ CountIsLeft /\ HitIsPending
      /\ TableInv
  BY Parts
<1>1. CASE due' = FALSE
  BY <1>1
<1>2. CASE UNCHANGED <<due, mt, editing, pending, pc, bp>>
  BY <1>0, <1>2 DEF Here, Matched, Matching, Enabled, Covers, Access
<1>3. CASE Run
  <2>1. /\ mt = "run" /\ due' = (due \/ Watched) /\ UNCHANGED <<bp, editing, pc, pending>>
        /\ mt' = IF IsAccess /\ bus_hook /\ Access \in map_mem \cup map_io
                   THEN "bus" ELSE "done"
    BY <1>3 DEF Run
  <2>2. ~due
    BY <1>0, <2>1
  <2>3. CASE ~Watched
    BY <1>1, <2>1, <2>2, <2>3
  <2>4. CASE Watched
    <3>1. mt' = "bus"
      BY <1>0, <2>1, <2>4, WatchedIsSeen
    <3>2. Here.access \in Watches /\ ~editing /\ \E i \in Matched : bp[i].condition = "none"
      BY <2>4 DEF Watched, Matched
    <3>3. Here' = Here /\ Matched' = Matched
      BY <2>1 DEF Here, Matched, Matching, Enabled, Covers, Access
    <3> QED
      BY <2>1, <3>1, <3>2, <3>3
  <2> QED
    BY <2>3, <2>4
<1>4. CASE BusHook
  <2>1. /\ mt = "bus" /\ mt' = "done" /\ UNCHANGED <<due, editing>>
    BY <1>4 DEF BusHook
  <2>2. ASSUME due
        PROVE  pending'
    <3>1. Here.access \in Watches /\ \E i \in Matched : bp[i].condition = "none"
      BY <1>0, <2>1, <2>2
    <3>2. Here.access # "operand"
      BY <3>1
    <3> QED
      BY <1>4, <3>1, <3>2 DEF BusHook
  <2> QED
    BY <1>0, <2>1, <2>2
<1>5. CASE Finish
  <2>1. mt = "done" /\ mt' \in {"hook", "int"} /\ UNCHANGED <<due, editing, pending>>
    BY <1>5 DEF Finish
  <2> QED
    BY <1>0, <2>1
<1>6. CASE Interrupt
  <2>1. mt = "int" /\ mt' = "hook" /\ UNCHANGED <<due, editing, pending>>
    BY <1>6 DEF Interrupt
  <2> QED
    BY <1>0, <2>1
<1>7. CASE InstrHook
  BY <1>1, <1>7 DEF InstrHook
<1>8. CASE LetGo
  BY <1>0, <1>1, <1>8 DEF LetGo
<1>9. CASE Goes
  BY <1>0, <1>1, <1>9, GoesIs
<1>10. CASE Stop
  BY <1>2, <1>10 DEF Stop
<1>11. ASSUME NEW a \in Places, SetPc(a)
       PROVE  HitIsPending'
  BY <1>0, <1>1, <1>11 DEF SetPc, StopIsParked
<1>12. CASE EditTable
  BY <1>1, <1>12 DEF EditTable
<1>13. CASE Rebuild
  BY <1>1, <1>13 DEF Rebuild
<1>14. CASE UNCHANGED vars
  BY <1>2, <1>14
<1> QED
  BY <1>3, <1>4, <1>5, <1>6, <1>7, <1>8, <1>9, <1>10, <1>11, <1>12, <1>13, <1>14, NextIs

(* While the machine is stopped, what a stop was announced with stays.         *)
LEMMA StepGoals ==
  ASSUME IInv, [Next]_vars
  PROVE  StepsEndOutside' /\ TurnsAreExact'
<1> USE DEF StepsEndOutside, TurnsAreExact
<1>0. /\ MachineTyped /\ EngineTyped /\ HistoryTyped /\ StopIsParked /\ CountIsLeft
      /\ MarkIsGuarded /\ TurnsAreCounted /\ StepsEndOutside /\ TurnsAreExact
  BY Parts
<1>1. CASE ~stopped'
  BY <1>1
<1>2. CASE UNCHANGED <<stopped, reason, mark, stack, turns, asked>>
  BY <1>0, <1>2
<1>3. ASSUME mt # "parked", UNCHANGED stopped
      PROVE  ~stopped'
  BY <1>0, <1>3 DEF StopIsParked
<1>4. CASE InstrHook
  <2>1. CASE mt' # "parked"
    <3>1. ~stopped
      BY <1>0, <1>4 DEF InstrHook, StopIsParked
    <3> QED
      BY <1>0, <1>1, <1>4, <2>1, <3>1, HookIs
  <2>2. CASE mt' = "parked"
    <3>1. /\ reason' \in {"pause", "watch", "exec"} \/ (reason' = act /\ GoalMet)
          /\ UNCHANGED <<mark, stack, turns, asked>>
      BY <1>0, <1>4, <2>2, HookIs
    <3>2. /\ count \in Int /\ asked \in Int /\ turns \in Int /\ sp_guard \in Int
          /\ SP = -Len(stack) /\ Len(stack) \in Int
      BY <1>0, StackFacts, ConstantFacts DEF EngineTyped, HistoryTyped
    <3>3. ASSUME reason' \in {"over", "out"}
          PROVE  mark = 0 \/ Len(stack) < mark
      <4>1. reason' = act /\ GoalMet
        BY <3>1, <3>3
      <4>2. CASE act = "over"
        <5>1. SP >= sp_guard
          BY <4>1, <4>2 DEF GoalMet, Turned
        <5>2. mark = 0 \/ mark = 1 - sp_guard
          BY <1>0, <4>2 DEF MarkIsGuarded
        <5> QED
          BY <3>2, <5>1, <5>2
      <4>3. CASE act = "out"
        <5>1. SP > sp_guard
          BY <4>1, <4>3 DEF GoalMet, Turned
        <5>2. mark = 0 \/ mark = -sp_guard
          BY <1>0, <4>3 DEF MarkIsGuarded
        <5> QED
          BY <3>2, <5>1, <5>2
      <4> QED
        BY <3>3, <4>1, <4>2, <4>3
    <3>4. ASSUME reason' \in {"scanline", "frame"}
          PROVE  turns = asked
      <4>1. reason' = act /\ GoalMet /\ act \in {"scanline", "frame"}
        BY <3>1, <3>4
      <4>2. Turned /\ count <= 1
        BY <4>1 DEF GoalMet
      <4>3. count >= 1 /\ turns = asked - count + 1
        BY <1>0, <4>1, <4>2 DEF CountIsLeft, TurnsAreCounted
      <4> QED
        BY <3>2, <4>2, <4>3
    <3> QED
      BY <3>1, <3>3, <3>4
  <2> QED
    BY <2>1, <2>2
<1>5. CASE Goes
  BY <1>0, <1>1, <1>5, GoesIs
<1>6. ASSUME NEW a \in Places, SetPc(a)
      PROVE  UNCHANGED <<stopped, reason, mark, stack, turns, asked>>
  BY <1>6 DEF SetPc
<1> QED
  BY <1>1, <1>2, <1>3, <1>4, <1>5, <1>6, NextIs
     DEF Run, BusHook, Finish, Interrupt, LetGo, Stop, EditTable, Rebuild

-----------------------------------------------------------------------------
LEMMA InitIInv == Init => IInv
<1> SUFFICES ASSUME Init
             PROVE  IInv
  OBVIOUS
<1>1. /\ MaxAddr \in Nat /\ MaxBp \in Nat /\ MaxId \in Nat /\ MaxDepth \in Nat
      /\ MaxCount \in Nat /\ Lines \in Nat /\ Lines > 1
  BY AddrAssumption, TableAssumption, ConstantFacts
<1>2. /\ bp = <<>> /\ next_id = 1 /\ map_exec = {} /\ map_mem = {} /\ map_io = {}
      /\ nwatch = 0 /\ bus_hook = FALSE /\ editing = FALSE
  BY DEF Init, BpInit
<1>3. bp \in Seq(Breakpoint) /\ Len(bp) = 0 /\ DOMAIN bp = 1..0
  BY <1>2, EmptySeq, TableFacts
<1>4. Enabled(bp) = {}
  BY <1>3 DEF Enabled
<1>5. BpTypeOK /\ IdsAreUnique
  <2>1. next_id \in 1..(MaxId + 1) /\ nwatch \in 0..MaxBp /\ Len(bp) <= MaxBp
    BY <1>1, <1>2, <1>3
  <2>2. bus_hook \in BOOLEAN /\ editing \in BOOLEAN
    BY <1>2
  <2>3. DOMAIN bp = {}
    BY <1>3
  <2> QED
    BY <1>2, <1>3, <2>1, <2>2, <2>3 DEF BpTypeOK, IdsAreUnique
<1>6. MapsFollowTable
  <2>1. MapExec(bp) = {} /\ MapMem(bp) = {} /\ MapIo(bp) = {}
    BY <1>4 DEF MapExec, MapMem, MapIo
  <2>2. {i \in Enabled(bp) : bp[i].type \cap Watches # {}} = {}
    BY <1>4
  <2>3. NWatch(bp) = 0
    BY <2>2, FS_EmptySet DEF NWatch
  <2>4. (nwatch > 0) = FALSE
    BY <1>2
  <2>5. bus_hook = (nwatch > 0)
    BY <1>2, <2>4, Zenon
  <2> QED
    BY <1>2, <2>1, <2>3, <2>5 DEF MapsFollowTable
<1>7. stack = <<>> /\ stack \in Seq(Word) /\ Len(stack) = 0
  BY EmptySeq DEF Init
<1>8. MachineTyped /\ EngineTyped /\ HistoryTyped
  <2>1. /\ 0 \in Addr /\ 0 <= MaxDepth /\ 0 \in 0..(Lines - 1) /\ 0 \in 0..MaxCount
        /\ 0 \in -MaxDepth..0 /\ 0 \in 0..MaxDepth /\ -1 \in -1..MaxDepth
        /\ 0 \in 0..(MaxCount + 1)
    BY <1>1
  <2>2. MachineTyped
    BY <1>7, <2>1 DEF Init, MachineTyped
  <2>3. EngineTyped
    BY <2>1 DEF Init, EngineTyped, Acts, Reasons
  <2>4. HistoryTyped
    BY <2>1 DEF Init, HistoryTyped
  <2> QED
    BY <2>2, <2>3, <2>4
<1>9. /\ StopIsParked /\ EntryHasRoom /\ MarkIsOnStack /\ MarkIsGuarded
      /\ CountIsLeft /\ TurnsAreCounted /\ HitIsPending
      /\ StepsEndOutside /\ TurnsAreExact
  BY <1>7 DEF Init, StopIsParked, EntryHasRoom, MarkIsOnStack, MarkIsGuarded, CountIsLeft,
              TurnsAreCounted, HitIsPending, StepsEndOutside, TurnsAreExact
<1> QED
  BY <1>5, <1>6, <1>8, <1>9, TypeGroups DEF IInv

LEMMA NextIInv == IInv /\ [Next]_vars => IInv'
<1> SUFFICES ASSUME IInv, [Next]_vars
             PROVE  IInv'
  OBVIOUS
<1>1. TableInv'
  BY Parts, StepTable
<1>2. MachineTyped' /\ EngineTyped' /\ HistoryTyped'
  BY StepMachineTyped, StepEngineTyped, StepHistoryTyped
<1>3. TypeOK'
  BY <1>1, <1>2 DEF TableInv, TypeOK, MachineTyped, EngineTyped, HistoryTyped
<1> QED
  BY <1>1, <1>3, StepParked, StepEntryHasRoom, StepMarkIsOnStack, StepMarkIsGuarded,
     StepCountIsLeft, StepTurns, StepHit, StepGoals DEF IInv, TableInv

(* Everything the table, the machine and the engine hold has its type, with    *)
(* every edit of the table, every instruction and every release.               *)
THEOREM StopsTypeOK == Spec => []TypeOK
<1>1. IInv => TypeOK
  BY DEF IInv
<1> QED
  BY InitIInv, NextIInv, <1>1, PTL DEF Spec

(* A step over or out of a routine is announced where the routine has          *)
(* returned, and a line or frame step after as many as were asked for.         *)
THEOREM GoalsEndWhereTheySay == Spec => []GoalsAreMet
<1>1. IInv => GoalsAreMet
  BY DEF IInv, GoalsAreMet
<1> QED
  BY InitIInv, NextIInv, <1>1, PTL DEF Spec

(* The maps that bus_hook and instr_hook look at are those of the table        *)
(* whenever nobody edits it.                                                   *)
THEOREM MapsAreThoseOfTheTable == Spec => []MapsFollowTable
<1>1. IInv => MapsFollowTable
  BY DEF IInv
<1> QED
  BY InitIInv, NextIInv, <1>1, PTL DEF Spec

(* An id names one breakpoint, and none before it is given out.                *)
THEOREM BreakpointIdsAreUnique == Spec => []IdsAreUnique
<1>1. IInv => IdsAreUnique
  BY DEF IInv
<1> QED
  BY InitIInv, NextIInv, <1>1, PTL DEF Spec

(* An access that an enabled watchpoint covers stops the machine at the next   *)
(* boundary.                                                                   *)
THEOREM WatchedAccessStops == Spec => WatchIsNotMissed
<1>1. IInv /\ [Next]_vars => [due /\ mt = "hook" => mt' = "parked" \/ mt' = mt]_vars
  <2> SUFFICES ASSUME IInv, [Next]_vars, due, mt = "hook"
               PROVE  mt' = "parked" \/ mt' = mt
    OBVIOUS
  <2>1. pending /\ MachineTyped /\ EngineTyped /\ StopIsParked /\ CountIsLeft
    BY Parts DEF HitIsPending
  <2>2. CASE InstrHook
    BY <2>1, <2>2, HookIs
  <2>3. CASE Goes
    BY <2>1, <2>3, GoesIs
  <2>4. ASSUME NEW a \in Places, SetPc(a)
        PROVE  mt' = mt
    BY <2>4 DEF SetPc
  <2> QED
    BY <2>2, <2>3, <2>4, NextIs
       DEF Run, BusHook, Finish, Interrupt, LetGo, Stop, EditTable, Rebuild
<1> QED
  BY InitIInv, NextIInv, <1>1, PTL DEF Spec, WatchIsNotMissed
=============================================================================
