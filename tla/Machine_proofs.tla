--------------------------- MODULE Machine_proofs ----------------------------
(***************************************************************************)
(* Theorems about Irq, for every length of ticks, lines, frames, entries   *)
(* and instructions in the code's order; about AudioRing, for every        *)
(* capacity, target and high-water mark in the code's order, and bursts    *)
(* and requests of any size; and about FrameSlot, DisplayGtk and           *)
(* DisplayWin, for every set of pictures, number of sessions and pictures  *)
(* of one, and size of the pool.                                           *)
(*                                                                         *)
(* The slot: a picture that an active window does not show is on its way   *)
(* to it (OnItsWay), through a callback, an event or a copy under way; and *)
(* a serial that is the slot's is the slot's picture, of this session      *)
(* (SerialsTell). The display: the clock runs for a widget that is mapped  *)
(* and there (TickIsMapped), which is all that BuffersAreSafe needs beside *)
(* the types. That of Windows needs what a serial tells of one session     *)
(* (WinSerialsTell) and which loop its thread is in.                       *)
(***************************************************************************)
EXTENDS AudioRing, Irq, DisplayGtk, SequenceTheorems, FiniteSetTheorems, TLAPS

(* The constants and the variables of Windows' display, under those of     *)
(* DisplayWin.                                                             *)
CONSTANTS Blank, MaxLosses
VARIABLES rt, g_mode, g_tex, device_lost, g_gdi_fb, invalid, g_running, on_screen, losses

WinDisplay == INSTANCE DisplayWin

(* The interrupt line. *)

(* The CPU: an entry is at most an entry long, an instruction at least a tick. *)
InsnIsUnderWay == left >= 1 /\ (insn = "entry" => left <= EntryTicks)

(* The pin is the line as of the last tick, so only a line raised since can be *)
(* up without it.                                                              *)
PinFollows ==
  /\ int_pin => irq_asserted
  /\ irq_asserted /\ age >= 1 => int_pin

(* A line that is up after its raise was entered is acknowledged before the    *)
(* entry is over, and what the CPU has sampled of an answered raise is gone    *)
(* before it fetches again.                                                    *)
AnswersAreTold ==
  /\ irq_asserted /\ ~owed => insn = "entry" /\ left >= EntryTicks - 1
  /\ int_bits /\ ~owed => left >= 2

(* A line that has been up for two ticks has been sampled.                     *)
LineIsSampled == irq_asserted /\ age >= AgeCap => int_bits \/ left >= 2

(* The deadline of a line that is held is the end of the frame.                *)
DotsLeft == (LinesPerFrame - scanline) * DotsPerLine - line_dot
DeadlineIsFrameEnd ==
  irq_asserted /\ ~irq_one_instr => off_dots = DotsLeft /\ off_dots > 0

(* Between two lines the beam is at most a tick into the next.                 *)
BeamIsEarly == phase = "start" => line_dot < DotsPerTick

IrqInv ==
  /\ IrqTypeOK
  /\ InsnIsUnderWay /\ PinFollows /\ AnswersAreTold /\ LineIsSampled
  /\ DeadlineIsFrameEnd /\ BeamIsEarly

-----------------------------------------------------------------------------
LEMMA TimeFacts ==
  /\ DotsPerTick \in Nat /\ DotsPerTick >= 1 /\ DotsPerLine \in Nat /\ DotsPerLine > DotsPerTick
  /\ LinesPerFrame \in Nat /\ LinesPerFrame >= 1
  /\ EntryTicks \in Nat /\ EntryTicks >= 4
  /\ \A i \in Insns : \A n \in TicksOf(i) : n \in Nat /\ n >= 4
<1>1. /\ DotsPerTick \in Nat /\ DotsPerTick >= 1 /\ DotsPerLine \in Nat
      /\ DotsPerLine > DotsPerTick /\ LinesPerFrame \in Nat /\ LinesPerFrame >= 1
      /\ EntryTicks \in Nat /\ EntryTicks >= 4 /\ OutTicks \in Nat /\ OutTicks >= 4
      /\ \A n \in Lengths : n \in Nat /\ n >= 4
  BY TimesAssumption
<1>2. ASSUME NEW i \in Insns, NEW n \in TicksOf(i)
      PROVE  n \in Nat /\ n >= 4
  <2>1. CASE i = "entry"
    BY <1>1, <1>2, <2>1 DEF TicksOf
  <2>2. CASE i = "out"
    BY <1>1, <1>2, <2>2 DEF TicksOf
  <2>3. CASE i \in {"ei", "di"}
    BY <1>2, <2>3 DEF TicksOf
  <2>4. CASE i = "plain"
    BY <1>1, <1>2, <2>4 DEF TicksOf
  <2> QED
    BY <2>1, <2>2, <2>3, <2>4 DEF Insns
<1> QED
  BY <1>1, <1>2

(* The dots to the end of the frame, from a line and from the next.            *)
LEMMA FrameLeft ==
  ASSUME NEW s \in 0..(LinesPerFrame - 1), NEW d \in 0..(DotsPerLine - 1)
  PROVE  /\ (LinesPerFrame - s) * DotsPerLine - d \in 1..FrameDots
         /\ (LinesPerFrame - (s + 1)) * DotsPerLine = (LinesPerFrame - s) * DotsPerLine - DotsPerLine
         /\ s = LinesPerFrame - 1 => (LinesPerFrame - s) * DotsPerLine = DotsPerLine
<1>1. LinesPerFrame \in Nat /\ DotsPerLine \in Nat /\ DotsPerLine >= 1
  BY TimeFacts
<1> DEFINE n == LinesPerFrame - s
<1>2. n \in Nat /\ n >= 1 /\ LinesPerFrame = n + s /\ s \in Nat
  BY <1>1
<1>3. (n - 1) * DotsPerLine = n * DotsPerLine - DotsPerLine
  BY <1>1, <1>2
<1>4. (n - 1) * DotsPerLine >= 0
  BY <1>1, <1>2
<1>5. FrameDots = n * DotsPerLine + s * DotsPerLine
  BY <1>1, <1>2 DEF FrameDots
<1>6. s * DotsPerLine >= 0
  BY <1>1, <1>2
<1>7. n * DotsPerLine \in Int /\ s * DotsPerLine \in Int /\ (n - 1) * DotsPerLine \in Int
  BY <1>1, <1>2
<1>8. LinesPerFrame - (s + 1) = n - 1
  BY <1>1, <1>2
<1>9. s = LinesPerFrame - 1 => n = 1
  BY <1>1
<1>10. n = 1 => n * DotsPerLine = DotsPerLine
  BY <1>1
<1> HIDE DEF n
<1>11. n * DotsPerLine - d \in 1..FrameDots
  BY <1>1, <1>3, <1>4, <1>5, <1>6, <1>7
<1> QED
  BY <1>3, <1>8, <1>9, <1>10, <1>11 DEF n

LEMMA TickIs ==
  ASSUME IrqTypeOK, InsnIsUnderWay, Tick
  PROVE  /\ phase = "line" /\ phase' = phase /\ scanline' = scanline
         /\ line_dot < DotsPerLine /\ line_dot' = line_dot + DotsPerTick
         /\ int_bits' = int_pin /\ int_pin' = irq_asserted'
         /\ irq_asserted' \in BOOLEAN /\ irq_one_instr' \in BOOLEAN
         /\ irq_asserted' =>
              /\ irq_asserted /\ ~Acknowledges /\ ~Writes
              /\ ~(off_dots # None /\ off_dots <= DotsPerTick)
              /\ ~(OpDone /\ irq_one_instr)
              /\ irq_one_instr' = irq_one_instr
         /\ off_dots' = None \/ (off_dots' = off_dots - DotsPerTick /\ off_dots > DotsPerTick)
         /\ irq_asserted' /\ off_dots # None => off_dots' = off_dots - DotsPerTick
         /\ ~Fetches => left' = left - 1 /\ insn' = insn
         /\ Enters => insn' = "entry" /\ left' = EntryTicks
         /\ OpDone => insn' \in Insns \ {"entry"} /\ left' \in Nat /\ left' >= 4
         /\ left' \in Nat /\ left' >= 1 /\ insn' \in Insns
         /\ insn' = "entry" => left' <= EntryTicks
         /\ age' = Older
         /\ owed' <=> (owed /\ ~Enters /\ ~Writes /\ ~(OpDone /\ irq_one_instr))
         /\ owed' \in BOOLEAN
<1>1. /\ phase = "line" /\ phase' = phase /\ scanline' = scanline
      /\ line_dot < DotsPerLine /\ line_dot' = line_dot + DotsPerTick
      /\ int_bits' = int_pin /\ int_pin' = irq_asserted'
      /\ age' = Older
      /\ owed' = (owed /\ ~Enters /\ ~Writes /\ ~(OpDone /\ irq_one_instr))
      /\ LineAfter
  BY DEF Tick, CpuTicks
<1>2. /\ irq_asserted \in BOOLEAN /\ irq_one_instr \in BOOLEAN /\ off_dots \in None..FrameDots
      /\ left \in Nat /\ left >= 1 /\ insn \in Insns
      /\ insn = "entry" => left <= EntryTicks
  BY DEF IrqTypeOK, InsnIsUnderWay
<1>3. /\ irq_asserted' \in BOOLEAN /\ irq_one_instr' \in BOOLEAN
      /\ irq_asserted' =>
           /\ irq_asserted /\ ~Acknowledges /\ ~Writes
           /\ ~(off_dots # None /\ off_dots <= DotsPerTick)
           /\ ~(OpDone /\ irq_one_instr)
  BY <1>1 DEF LineAfter
<1>4. irq_asserted' => irq_one_instr' = irq_one_instr
  BY <1>1, <1>2, <1>3, Zenon DEF LineAfter
<1>5. /\ off_dots' = None \/ (off_dots' = off_dots - DotsPerTick /\ off_dots > DotsPerTick)
      /\ irq_asserted' /\ off_dots # None => off_dots' = off_dots - DotsPerTick
  <2>1. off_dots' = IF off_dots = None \/ Acknowledges \/ Writes
                         \/ (off_dots # None /\ off_dots <= DotsPerTick)
                      THEN None ELSE off_dots - DotsPerTick
    BY <1>1 DEF LineAfter
  <2>2. FrameDots \in Int /\ off_dots \in Int /\ DotsPerTick \in Int
    BY <1>2, TimeFacts DEF FrameDots, None
  <2> QED
    BY <1>3, <2>1, <2>2
<1>6. ~Fetches => left' = left - 1 /\ insn' = insn
  BY DEF Tick, CpuTicks
<1>7. Enters => insn' = "entry" /\ left' = EntryTicks
  BY DEF Tick, CpuTicks, Enters, TicksOf
<1>8. OpDone => insn' \in Insns \ {"entry"} /\ left' \in Nat /\ left' >= 4
  BY TimeFacts DEF Tick, CpuTicks, OpDone
<1>9. /\ left' \in Nat /\ left' >= 1 /\ insn' \in Insns
      /\ insn' = "entry" => left' <= EntryTicks
  <2>1. CASE ~Fetches
    BY <1>2, <1>6, <2>1, TimeFacts DEF Fetches
  <2>2. CASE Enters
    BY <1>7, <2>2, TimeFacts DEF Insns
  <2>3. CASE OpDone
    BY <1>8, <2>3
  <2> QED
    BY <2>1, <2>2, <2>3 DEF OpDone
<1> QED
  BY <1>1, <1>3, <1>4, <1>5, <1>6, <1>7, <1>8, <1>9

LEMMA IrqInit_Inv == IrqInit => IrqInv
<1> SUFFICES ASSUME IrqInit
             PROVE  IrqInv
  OBVIOUS
<1>1. IrqTypeOK
  <2>1. /\ off_dots \in None..FrameDots
        /\ scanline \in 0..(LinesPerFrame - 1)
        /\ interrupt_scanline \in 0..(LinesPerFrame - 1)
    <3>1. None \in None..FrameDots
      <4>1. FrameDots \in Nat
        BY TimeFacts DEF FrameDots
      <4> QED
        BY <4>1 DEF None
    <3>2. 0 \in 0..(LinesPerFrame - 1)
      BY TimeFacts
    <3> QED
      BY <3>1, <3>2 DEF IrqInit
  <2>2. line_dot \in 0..(DotsPerLine + DotsPerTick - 1)
    <3>1. 0 \in 0..(DotsPerLine + DotsPerTick - 1)
      BY TimeFacts
    <3> QED
      BY <3>1 DEF IrqInit
  <2>3. insn \in Insns /\ left \in Nat /\ age \in 0..AgeCap
    BY DEF IrqInit, Insns, AgeCap
  <2> QED
    BY <2>1, <2>2, <2>3 DEF IrqInit, IrqTypeOK
<1> QED
  BY <1>1, TimeFacts DEF IrqInit, IrqInv, InsnIsUnderWay, PinFollows, AnswersAreTold,
     LineIsSampled, DeadlineIsFrameEnd, BeamIsEarly

LEMMA LineStartKeeps ==
  ASSUME IrqInv, LineStart
  PROVE  IrqInv'
<1> USE DEF IrqInv
<1>1. /\ phase = "start" /\ phase' = "line"
      /\ UNCHANGED <<scanline, line_dot, int_pin, registers, cpu, missed>>
  BY DEF LineStart
<1>2. /\ scanline \in 0..(LinesPerFrame - 1) /\ line_dot \in 0..(DotsPerLine - 1)
  BY <1>1, TimeFacts DEF IrqTypeOK, BeamIsEarly
<1>3. CASE ~Fires
  <2>1. UNCHANGED <<line, age, owed>>
    BY <1>3 DEF LineStart
  <2> QED
    BY <1>1, <2>1 DEF IrqTypeOK, InsnIsUnderWay, PinFollows, AnswersAreTold, LineIsSampled,
       DeadlineIsFrameEnd, DotsLeft, BeamIsEarly, line, registers, cpu
<1>4. CASE Fires
  <2>1. /\ irq_asserted' = TRUE /\ irq_one_instr' = one_mode
        /\ off_dots' = IF one_mode THEN None
                         ELSE (LinesPerFrame - scanline) * DotsPerLine - line_dot
        /\ age' = 0 /\ owed' = TRUE
    BY <1>4 DEF LineStart
  <2>2. (LinesPerFrame - scanline) * DotsPerLine - line_dot \in 1..FrameDots
    BY <1>2, FrameLeft
  <2>3. FrameDots \in Nat
    BY TimeFacts DEF FrameDots
  <2>4. off_dots' \in None..FrameDots /\ (~one_mode => off_dots' = DotsLeft /\ off_dots' > 0)
    BY <2>1, <2>2, <2>3 DEF None, DotsLeft
  <2>5. IrqTypeOK'
    BY <1>1, <2>1, <2>4 DEF IrqTypeOK, registers, cpu, AgeCap
  <2>6. DeadlineIsFrameEnd'
    BY <1>1, <2>1, <2>4 DEF DeadlineIsFrameEnd, DotsLeft
  <2> QED
    BY <1>1, <2>1, <2>5, <2>6 DEF InsnIsUnderWay, PinFollows, AnswersAreTold,
       LineIsSampled, BeamIsEarly, cpu, AgeCap
<1> QED
  BY <1>3, <1>4

LEMMA LineEndKeeps ==
  ASSUME IrqInv, LineEnd
  PROVE  IrqInv' /\ (scanline' = 0 /\ irq_asserted => irq_one_instr)
<1> USE DEF IrqInv
<1>1. /\ phase = "line" /\ line_dot >= DotsPerLine /\ phase' = "start"
      /\ line_dot' = line_dot - DotsPerLine
      /\ scanline' = (scanline + 1) % LinesPerFrame
      /\ UNCHANGED <<line, int_pin, registers, cpu, history>>
  BY DEF LineEnd
<1>2. /\ scanline \in 0..(LinesPerFrame - 1) /\ line_dot \in 0..(DotsPerLine + DotsPerTick - 1)
      /\ DotsPerLine \in Nat /\ DotsPerLine >= 1 /\ 0 \in 0..(DotsPerLine - 1)
      /\ LinesPerFrame \in Nat /\ LinesPerFrame >= 1 /\ DotsPerTick \in Nat
  BY TimeFacts DEF IrqTypeOK
<1>3. line_dot' \in 0..(DotsPerTick - 1)
  BY <1>1, <1>2
<1>4. IF scanline = LinesPerFrame - 1 THEN scanline' = 0 ELSE scanline' = scanline + 1
  <2>1. CASE scanline = LinesPerFrame - 1
    <3>1. LinesPerFrame % LinesPerFrame = 0
      BY <1>2
    <3> QED
      BY <1>1, <1>2, <2>1, <3>1
  <2>2. CASE scanline # LinesPerFrame - 1
    <3>1. (scanline + 1) % LinesPerFrame = scanline + 1
      BY <1>2, <2>2
    <3> QED
      BY <1>1, <2>2, <3>1
  <2> QED
    BY <2>1, <2>2
<1>5. scanline' \in 0..(LinesPerFrame - 1)
  BY <1>2, <1>4
<1>6. ASSUME irq_asserted, ~irq_one_instr
      PROVE  scanline' # 0 /\ off_dots' = DotsLeft' /\ off_dots' > 0
  <2>1. off_dots = (LinesPerFrame - scanline) * DotsPerLine - line_dot /\ off_dots > 0
        /\ off_dots' = off_dots
    BY <1>1, <1>6 DEF DeadlineIsFrameEnd, DotsLeft, line
  <2>2. (LinesPerFrame - (scanline + 1)) * DotsPerLine
          = (LinesPerFrame - scanline) * DotsPerLine - DotsPerLine
        /\ (scanline = LinesPerFrame - 1 => (LinesPerFrame - scanline) * DotsPerLine = DotsPerLine)
    BY <1>2, FrameLeft
  <2>3. scanline # LinesPerFrame - 1
    BY <1>1, <1>2, <2>1, <2>2
  <2>4. scanline' = scanline + 1 /\ scanline' # 0
    BY <1>2, <1>4, <2>3
  <2>5. DotsLeft' = (LinesPerFrame - (scanline + 1)) * DotsPerLine - line_dot'
    BY <2>4 DEF DotsLeft
  <2>6. (LinesPerFrame - scanline) * DotsPerLine \in Int
    BY <1>2
  <2> QED
    BY <1>1, <1>2, <2>1, <2>2, <2>4, <2>5, <2>6
<1>7. IrqTypeOK'
  BY <1>1, <1>2, <1>3, <1>5 DEF IrqTypeOK, line, registers, cpu, history
<1>8. DeadlineIsFrameEnd'
  BY <1>1, <1>6 DEF DeadlineIsFrameEnd, line
<1>9. BeamIsEarly'
  BY <1>2, <1>3 DEF BeamIsEarly
<1> QED
  BY <1>1, <1>6, <1>7, <1>8, <1>9 DEF IrqTypeOK, InsnIsUnderWay, PinFollows, AnswersAreTold,
     LineIsSampled, line, cpu, history

LEMMA TickKeeps ==
  ASSUME IrqInv, Tick
  PROVE  IrqInv'
<1> USE DEF IrqInv
<1>1. /\ DotsPerTick \in Nat /\ DotsPerTick >= 1 /\ DotsPerLine \in Nat
      /\ EntryTicks \in Nat /\ EntryTicks >= 4 /\ FrameDots \in Nat
      /\ LinesPerFrame \in Nat
  BY TimeFacts DEF FrameDots
<1>2. /\ left \in Nat /\ left >= 1 /\ (insn = "entry" => left <= EntryTicks)
      /\ off_dots \in -1..FrameDots /\ age \in 0..2 /\ owed \in BOOLEAN
      /\ scanline \in 0..(LinesPerFrame - 1) /\ line_dot \in 0..(DotsPerLine + DotsPerTick - 1)
  BY DEF IrqTypeOK, InsnIsUnderWay, None, AgeCap
<1>3. age' \in 0..2 /\ (age' >= 1) /\ (age' >= 2 => age >= 1)
  BY <1>2, TickIs DEF Older, AgeCap
<1>4. IrqTypeOK'
  <2>1. off_dots' \in None..FrameDots
    BY <1>1, <1>2, TickIs DEF None
  <2>2. line_dot' \in 0..(DotsPerLine + DotsPerTick - 1)
    BY <1>1, <1>2, TickIs
  <2>3. enabled' \in BOOLEAN /\ one_mode' \in BOOLEAN
        /\ interrupt_scanline' \in 0..(LinesPerFrame - 1)
    BY DEF Tick, RegisterWrite, registers, IrqTypeOK
  <2>4. iff' \in BOOLEAN
    BY DEF Tick, CpuTicks
  <2>5. missed' \in BOOLEAN
    BY DEF Tick
  <2>6. /\ int_bits' \in BOOLEAN /\ int_pin' \in BOOLEAN
        /\ irq_asserted' \in BOOLEAN /\ irq_one_instr' \in BOOLEAN
        /\ phase' \in {"start", "line"} /\ scanline' \in 0..(LinesPerFrame - 1)
        /\ left' \in Nat /\ insn' \in Insns /\ owed' \in BOOLEAN
    BY TickIs DEF IrqTypeOK
  <2> QED
    BY <1>3, <2>1, <2>2, <2>3, <2>4, <2>5, <2>6 DEF IrqTypeOK, AgeCap
<1>5. InsnIsUnderWay'
  BY TickIs DEF InsnIsUnderWay
<1>6. PinFollows'
  BY TickIs DEF PinFollows
<1>7. AnswersAreTold'
  <2>1. ASSUME irq_asserted', ~owed'
        PROVE  insn' = "entry" /\ left' >= EntryTicks - 1
    <3>1. irq_asserted /\ ~Acknowledges /\ ~Writes /\ ~(OpDone /\ irq_one_instr)
      BY <2>1, TickIs
    <3>2. CASE owed
      <4>1. Enters
        BY <2>1, <3>1, <3>2, TickIs
      <4> QED
        BY <1>1, <4>1, TickIs
    <3>3. CASE ~owed
      <4>1. insn = "entry" /\ left >= EntryTicks - 1 /\ left <= EntryTicks
        BY <1>2, <3>1, <3>3 DEF AnswersAreTold
      <4>2. left = EntryTicks
        BY <1>1, <1>2, <3>1, <4>1 DEF Acknowledges
      <4>3. ~Fetches
        BY <1>1, <4>2 DEF Fetches
      <4> QED
        BY <1>1, <4>1, <4>2, <4>3, TickIs
    <3> QED
      BY <3>2, <3>3
  <2>2. ASSUME int_bits', ~owed'
        PROVE  left' >= 2
    <3>1. irq_asserted
      BY <2>2, TickIs DEF PinFollows
    <3>2. CASE ~owed
      <4>1. insn = "entry" /\ left >= EntryTicks - 1
        BY <3>1, <3>2 DEF AnswersAreTold
      <4>2. ~Fetches
        BY <1>1, <4>1 DEF Fetches
      <4> QED
        BY <1>1, <1>2, <4>1, <4>2, TickIs
    <3>3. CASE owed
      <4>1. Enters \/ Writes \/ OpDone
        BY <2>2, <3>3, TickIs
      <4>2. CASE Enters
        BY <1>1, <4>2, TickIs
      <4>3. CASE OpDone
        BY <4>3, TickIs
      <4>4. CASE Writes
        <5>1. left = 4 /\ ~Fetches
          BY <4>4 DEF Writes, Fetches
        <5> QED
          BY <5>1, TickIs
      <4> QED
        BY <4>1, <4>2, <4>3, <4>4
    <3> QED
      BY <3>2, <3>3
  <2> QED
    BY <2>1, <2>2 DEF AnswersAreTold
<1>8. LineIsSampled'
  <2> SUFFICES ASSUME irq_asserted', age' >= 2
               PROVE  int_bits'
    BY DEF LineIsSampled, AgeCap
  <2>1. irq_asserted /\ age >= 1
    BY <1>3, TickIs
  <2> QED
    BY <2>1, TickIs DEF PinFollows
<1>9. DeadlineIsFrameEnd'
  <2> SUFFICES ASSUME irq_asserted', ~irq_one_instr'
               PROVE  off_dots' = DotsLeft' /\ off_dots' > 0
    BY DEF DeadlineIsFrameEnd
  <2>1. irq_asserted /\ ~irq_one_instr
    BY TickIs
  <2>2. off_dots = DotsLeft /\ off_dots > 0
    BY <2>1 DEF DeadlineIsFrameEnd
  <2>3. off_dots # None
    BY <2>2 DEF None
  <2>4. off_dots > DotsPerTick /\ off_dots' = off_dots - DotsPerTick
    BY <1>1, <1>2, <2>3, TickIs DEF None
  <2>5. line_dot' = line_dot + DotsPerTick /\ scanline' = scanline
    BY TickIs
  <2>6. (LinesPerFrame - scanline) * DotsPerLine \in Int
    BY <1>1, <1>2
  <2>7. DotsLeft' = DotsLeft - DotsPerTick
    BY <1>1, <1>2, <2>5, <2>6 DEF DotsLeft
  <2> QED
    BY <1>1, <1>2, <2>2, <2>4, <2>7
<1>10. BeamIsEarly'
  BY TickIs DEF BeamIsEarly
<1> QED
  BY <1>4, <1>5, <1>6, <1>7, <1>8, <1>9, <1>10

LEMMA RedirectKeeps ==
  ASSUME IrqInv, Redirect
  PROVE  IrqInv'
<1> USE DEF IrqInv
<1>1. /\ int_bits' = FALSE /\ left \in TicksOf(insn) /\ insn \in Insns
      /\ UNCHANGED <<line, scanline, line_dot, phase, int_pin, registers, iff, insn,
                     left, history>>
  BY DEF Redirect, IrqTypeOK
<1>2. left >= 4 /\ left \in Nat
  BY <1>1, TimeFacts
<1>3. left >= 2
  BY <1>2
<1> QED
  BY <1>1, <1>3 DEF IrqTypeOK, InsnIsUnderWay, PinFollows, AnswersAreTold, LineIsSampled,
     DeadlineIsFrameEnd, DotsLeft, BeamIsEarly, line, registers, history

LEMMA ResetKeeps ==
  ASSUME IrqInv, Reset
  PROVE  IrqInv'
<1> USE DEF IrqInv
<1>1. IrqTypeOK'
  <2>1. off_dots' \in None..FrameDots
    <3>1. FrameDots \in Nat
      BY TimeFacts DEF FrameDots
    <3> QED
      BY <3>1 DEF Reset, None
  <2>2. insn' \in Insns /\ left' \in Nat /\ age' \in 0..AgeCap
    BY DEF Reset, Insns, AgeCap
  <2> QED
    BY <2>1, <2>2 DEF Reset, IrqTypeOK, registers
<1> QED
  BY <1>1, TimeFacts DEF Reset, InsnIsUnderWay, PinFollows, AnswersAreTold, LineIsSampled,
     DeadlineIsFrameEnd, BeamIsEarly, IrqTypeOK

LEMMA IrqNextKeeps == IrqInv /\ [IrqNext]_irqVars => IrqInv'
<1> SUFFICES ASSUME IrqInv, [IrqNext]_irqVars
             PROVE  IrqInv'
  OBVIOUS
<1>1. CASE UNCHANGED irqVars
  BY <1>1 DEF irqVars, line, registers, cpu, history, IrqInv, IrqTypeOK, InsnIsUnderWay,
     PinFollows, AnswersAreTold, LineIsSampled, DeadlineIsFrameEnd, DotsLeft, BeamIsEarly
<1> QED
  BY <1>1, LineStartKeeps, LineEndKeeps, TickKeeps, RedirectKeeps, ResetKeeps DEF IrqNext

(* The line, the beam and the CPU keep their types. *)
THEOREM IrqTypesOK == IrqSpec => []IrqTypeOK
<1>1. IrqInv => IrqTypeOK
  BY DEF IrqInv
<1> QED
  BY IrqInit_Inv, IrqNextKeeps, <1>1, PTL DEF IrqSpec

(* A raise of the interrupt line is answered at most once, by an entry that    *)
(* the CPU takes in time, and none outlives its frame, whatever the lengths of *)
(* instructions, lines and frames.                                             *)
THEOREM RaisesAreAnsweredOnce == IrqSpec => OneAnswerPerRaise
<1> DEFINE Answered ==
      /\ Tick /\ Enters => owed
      /\ Tick /\ OpDone /\ iff /\ insn \notin {"ei", "di"} /\ irq_asserted => age < AgeCap
      /\ LineEnd /\ scanline' = 0 /\ irq_asserted => irq_one_instr
<1>1. IrqInv => Answered
  <2> SUFFICES ASSUME IrqInv
               PROVE  Answered
    OBVIOUS
  <2>1. ASSUME Enters
        PROVE  owed
    BY <2>1 DEF Enters, Fetches, IrqInv, AnswersAreTold
  <2>2. ASSUME OpDone, iff, insn \notin {"ei", "di"}, irq_asserted
        PROVE  age < AgeCap
    <3>1. left = 1 /\ ~int_bits
      BY <2>2 DEF OpDone, Enters, Fetches
    <3>2. ~(age >= AgeCap)
      BY <2>2, <3>1 DEF IrqInv, LineIsSampled
    <3> QED
      BY <3>2 DEF IrqInv, IrqTypeOK, AgeCap
  <2>3. ASSUME LineEnd, scanline' = 0, irq_asserted
        PROVE  irq_one_instr
    BY <2>3, LineEndKeeps
  <2> QED
    BY <2>1, <2>2, <2>3
<1>2. IrqInv /\ [IrqNext]_irqVars => [Answered]_irqVars
  BY <1>1
<1> QED
  BY IrqInit_Inv, IrqNextKeeps, <1>2, PTL DEF IrqSpec, OneAnswerPerRaise

-----------------------------------------------------------------------------
(* The audio ring. *)

USE SizesAssumption, BoundsAssumption

(* The ring arithmetic: % on the few laps the code's indices can be out. *)
LEMMA ModInCells == ASSUME NEW a \in Int PROVE a % Capacity \in Cells
BY SMT DEF Cells

LEMMA ModSame == ASSUME NEW a \in 0..(Capacity - 1) PROVE a % Capacity = a
BY SMT

LEMMA ModDown ==
  ASSUME NEW a \in Capacity..(2 * Capacity - 1)
  PROVE  a % Capacity = a - Capacity
BY SMTT(20)

LEMMA ModUp ==
  ASSUME NEW a \in (-Capacity)..(-1)
  PROVE  a % Capacity = a + Capacity
BY SMTT(20)

(* What % does to an index that is at most a lap out, without the %. *)
LEMMA ModCases ==
  ASSUME NEW a \in (-Capacity)..(2 * Capacity - 1)
  PROVE  a % Capacity = IF a < 0 THEN a + Capacity
                        ELSE IF a < Capacity THEN a ELSE a - Capacity
<1>1. CASE a \in (-Capacity)..(-1)
  BY <1>1, ModUp, SMT
<1>2. CASE a \in 0..(Capacity - 1)
  BY <1>2, ModSame, SMT
<1>3. CASE a \in Capacity..(2 * Capacity - 1)
  BY <1>3, ModDown, SMT
<1> QED
  BY <1>1, <1>2, <1>3, SMT

(* Going on from an index already brought into the ring. *)
LEMMA ModPlus ==
  ASSUME NEW a \in (-Capacity)..(2 * Capacity - 1), NEW e \in Int,
         a + e \in (-Capacity)..(2 * Capacity - 1),
         (a % Capacity) + e \in (-Capacity)..(2 * Capacity - 1)
  PROVE  ((a % Capacity) + e) % Capacity = (a + e) % Capacity
<1> DEFINE b == a % Capacity
<1>1. b = IF a < 0 THEN a + Capacity ELSE IF a < Capacity THEN a ELSE a - Capacity
  BY ModCases
<1>2. b \in Cells
  BY ModInCells
<1>3. (b + e) % Capacity = IF b + e < 0 THEN b + e + Capacity
                           ELSE IF b + e < Capacity THEN b + e ELSE b + e - Capacity
  BY ModCases, <1>2
<1>4. (a + e) % Capacity = IF a + e < 0 THEN a + e + Capacity
                           ELSE IF a + e < Capacity THEN a + e ELSE a + e - Capacity
  BY ModCases
<1> HIDE DEF b
<1>5. (b + e) % Capacity = (a + e) % Capacity
  BY <1>1, <1>2, <1>3, <1>4, SMTT(20) DEF Cells
<1> QED
  BY <1>5 DEF b

(* How far behind the head a cell reached from the head is. *)
LEMMA ModBack ==
  ASSUME NEW h \in Cells, NEW e \in (-Capacity)..(Capacity - 1)
  PROVE  (((h + e) % Capacity) - h) % Capacity = IF e < 0 THEN e + Capacity ELSE e
<1> DEFINE a == h + e
           c == a % Capacity
<1>1. a \in (-Capacity)..(2 * Capacity - 1)
  BY SMT DEF Cells
<1> HIDE DEF a
<1>2. c = IF a < 0 THEN a + Capacity ELSE IF a < Capacity THEN a ELSE a - Capacity
  BY <1>1, ModCases
<1>3. c - h \in (-Capacity)..(2 * Capacity - 1)
  BY <1>1, <1>2, SMT DEF Cells, a
<1>4. (c - h) % Capacity = IF c - h < 0 THEN c - h + Capacity
                           ELSE IF c - h < Capacity THEN c - h ELSE c - h - Capacity
  BY <1>3, ModCases
<1> HIDE DEF c
<1>5. (c - h) % Capacity = IF e < 0 THEN e + Capacity ELSE e
  BY <1>1, <1>2, <1>4, SMTT(20) DEF Cells, a
<1> QED
  BY <1>5 DEF a, c

-----------------------------------------------------------------------------
(* The ring never claims more samples than were made. *)
CountIsMade == s_count <= made

IInv == TypeOK /\ CountIsMade /\ HoldsTheNewest /\ PrimedHasSamples

LEMMA InitIInv == Init => IInv
<1> SUFFICES ASSUME Init PROVE IInv
  OBVIOUS
<1>1. TypeOK /\ CountIsMade
  BY SMT DEF Init, TypeOK, CountIsMade, Cells
<1>2. HoldsTheNewest /\ PrimedHasSamples
  BY SMT DEF Init, HoldsTheNewest, PrimedHasSamples
<1> QED
  BY <1>1, <1>2 DEF IInv

(* What audio_copy has left after catching up, and that it is still the newest. *)
LEMMA TrimKeeps ==
  ASSUME TypeOK, CountIsMade, HoldsTheNewest
  PROVE  /\ Trimmed \in 0..Capacity /\ Trimmed <= s_count
         /\ Trimmed <= Highwater
         /\ \A i \in 0..(Trimmed - 1) :
              s_ring[(s_head - Trimmed + i) % Capacity] = made - Trimmed + 1 + i
<1>1. Trimmed \in 0..Capacity /\ Trimmed <= s_count /\ Trimmed <= Highwater
  BY SMT DEF Trimmed, TypeOK
<1>2. ASSUME NEW i \in 0..(Trimmed - 1)
      PROVE  s_ring[(s_head - Trimmed + i) % Capacity] = made - Trimmed + 1 + i
  <2> DEFINE j == s_count - Trimmed + i
  <2>1. j \in 0..(s_count - 1)
    BY <1>1, SMT DEF TypeOK
  <2>2. s_head - s_count + j = s_head - Trimmed + i
    BY <1>1, SMT DEF TypeOK, Cells
  <2>3. made - s_count + 1 + j = made - Trimmed + 1 + i
    BY <1>1, SMT DEF TypeOK
  <2> HIDE DEF j
  <2>4. s_ring[(s_head - s_count + j) % Capacity] = made - s_count + 1 + j
    BY <2>1 DEF HoldsTheNewest
  <2> QED
    BY <2>2, <2>3, <2>4
<1> QED
  BY <1>1, <1>2

(* The numbers of TypeOK, without its Boolean. *)
Numbers ==
  /\ s_ring \in [Cells -> Nat] /\ s_head \in Cells /\ s_head \in Int
  /\ s_count \in Int /\ 0 <= s_count /\ s_count <= Capacity
  /\ s_count <= made /\ made \in Nat

LEMMA IInvNumbers == ASSUME IInv PROVE Numbers
<1>1. s_ring \in [Cells -> Nat] /\ s_head \in Cells /\ s_count \in 0..Capacity
      /\ made \in Nat /\ s_count <= made
  BY Zenon DEF IInv, TypeOK, CountIsMade
<1> QED
  BY <1>1, SMT DEF Numbers, Cells

(* A burst overwrites the oldest samples and nothing else. *)
LEMMA PublishHolds ==
  ASSUME IInv, NEW n \in 1..MaxBurst, AudioPublish(n)
  PROVE  IInv'
<1> DEFINE k == Least(n, Capacity)
           at(c) == (c - s_head) % Capacity
<1>0. Numbers
  BY IInvNumbers
<1>1. /\ k \in 1..Capacity /\ n \in Nat /\ k <= n
      /\ k = n \/ k = Capacity
      /\ FirstKept(n) = n - k + 1
  BY SMT DEF Least, FirstKept
<1>2. /\ s_count' = Least(s_count + k, Capacity)
      /\ made' = made + n /\ s_head' = (s_head + k) % Capacity
      /\ s_ring' = [c \in Cells |-> IF at(c) < k THEN made + FirstKept(n) + at(c)
                                                 ELSE s_ring[c]]
  BY Zenon DEF AudioPublish, CountAfter
<1>u. UNCHANGED <<s_primed, dst, asked>>
  BY Zenon DEF AudioPublish
<1> HIDE DEF k
<1>3. /\ s_count' \in Int /\ s_count' >= s_count /\ s_count' >= k
      /\ s_count' <= Capacity /\ s_count' <= s_count + k
      /\ s_count' = s_count + k \/ s_count' = Capacity
  BY <1>0, <1>1, <1>2, SMT DEF Least, Numbers
<1>4. s_head' \in Cells
  <2>1. s_head + k \in Int
    BY <1>0, <1>1, SMT DEF Numbers
  <2> QED
    BY <1>2, <2>1, ModInCells
<1>5. TypeOK'
  <2>1. s_ring' \in [Cells -> Nat]
    <3>1. ASSUME NEW c \in Cells PROVE made + FirstKept(n) + at(c) \in Nat
      <4>1. c - s_head \in Int
        BY <1>0, SMT DEF Numbers, Cells
      <4>2. at(c) \in Cells
        BY <4>1, ModInCells
      <4> HIDE DEF at
      <4> QED
        BY <1>0, <1>1, <4>2, SMT DEF Numbers, Cells
    <3> HIDE DEF at
    <3> QED
      BY <1>0, <1>2, <3>1 DEF Numbers
  <2>2. s_count' \in 0..Capacity /\ made' \in Nat
    BY <1>0, <1>1, <1>2, <1>3, SMT DEF Numbers
  <2> QED
    BY <1>4, <1>u, <2>1, <2>2, Zenon DEF TypeOK, IInv
<1>6. CountIsMade'
  BY <1>0, <1>1, <1>2, <1>3, SMT DEF CountIsMade, Numbers
<1>7. PrimedHasSamples'
  <2>1. s_count' > 0
    BY <1>1, <1>3, SMT
  <2> QED
    BY <1>u, <2>1, Zenon DEF PrimedHasSamples, IInv
<1>8. HoldsTheNewest'
  <2> DEFINE q == s_count'
             h == s_head'
  <2>0. /\ q \in Int /\ q >= s_count /\ q >= k /\ q <= Capacity /\ q <= s_count + k
        /\ q = s_count + k \/ q = Capacity
        /\ h \in Cells /\ h = (s_head + k) % Capacity
    BY <1>2, <1>3, <1>4
  <2> HIDE DEF q, h
  <2> SUFFICES ASSUME NEW i \in 0..(q - 1)
               PROVE  s_ring'[(h - q + i) % Capacity] = made' - q + 1 + i
    BY DEF HoldsTheNewest, q, h
  <2> DEFINE e == k - q + i
             c == (s_head + e) % Capacity
  <2>1. /\ e \in (-Capacity)..(Capacity - 1) /\ e \in Int
        /\ e < k /\ (e < 0 => e + Capacity >= k)
    BY <1>0, <1>1, <2>0, SMT DEF Numbers
  <2>2. (h - q + i) % Capacity = c
    <3> DEFINE a == s_head + k
               f == i - q
    <3>1. /\ a \in (-Capacity)..(2 * Capacity - 1) /\ f \in Int
          /\ a + f \in (-Capacity)..(2 * Capacity - 1)
      BY <1>0, <1>1, <2>0, SMT DEF Numbers, Cells
    <3>2. h = a % Capacity
      BY <2>0
    <3>3. h + f \in (-Capacity)..(2 * Capacity - 1)
      BY <2>0, SMT DEF Cells
    <3>4. h - q + i = h + f /\ s_head + e = a + f
      BY <1>0, <1>1, <2>0, SMT DEF Numbers, Cells
    <3> HIDE DEF a, f, e
    <3> QED
      BY <3>1, <3>2, <3>3, <3>4, ModPlus
  <2> HIDE DEF e
  <2>3. c \in Cells
    <3>1. s_head + e \in Int
      BY <1>0, <2>1, SMT DEF Numbers
    <3> QED
      BY <3>1, ModInCells
  <2>4. at(c) = IF e < 0 THEN e + Capacity ELSE e
    BY <1>0, <2>1, ModBack DEF Numbers
  <2> HIDE DEF c, at
  <2>5. s_ring'[c] = IF at(c) < k THEN made + FirstKept(n) + at(c) ELSE s_ring[c]
    BY <1>2, <2>3
  <2>6. made' - q + 1 + i = made + n - k + 1 + e
    BY <1>0, <1>1, <1>2, <2>0, SMT DEF Numbers, e
  <2>7. CASE e >= 0
    <3>1. at(c) < k /\ at(c) = e
      BY <2>1, <2>4, <2>7, SMT
    <3>2. s_ring'[c] = made + FirstKept(n) + e
      BY <2>5, <3>1
    <3>3. made + FirstKept(n) + e = made' - q + 1 + i
      BY <1>0, <1>1, <2>1, <2>6, SMT DEF Numbers
    <3> QED
      BY <2>2, <3>2, <3>3
  <2>8. CASE e < 0
    <3> DEFINE j == s_count + e
    <3>1. s_ring'[c] = s_ring[c]
      <4>1. ~(at(c) < k)
        BY <1>1, <2>1, <2>4, <2>8, SMT
      <4> QED
        BY <2>5, <4>1
    <3>2. k = n /\ j \in 0..(s_count - 1)
      BY <1>0, <1>1, <2>0, <2>1, <2>8, SMT DEF Numbers, e
    <3>3. s_head - s_count + j = s_head + e
      BY <1>0, <2>1, SMT DEF Numbers
    <3>4. made - s_count + 1 + j = made' - q + 1 + i
      BY <1>0, <1>1, <2>1, <2>6, <3>2, SMT DEF Numbers
    <3> HIDE DEF j
    <3>5. s_ring[(s_head - s_count + j) % Capacity] = made - s_count + 1 + j
      BY <3>2 DEF HoldsTheNewest, IInv
    <3> QED
      BY <2>2, <3>1, <3>3, <3>4, <3>5 DEF c
  <2> QED
    BY <2>1, <2>7, <2>8, SMT
<1> QED
  BY <1>5, <1>6, <1>7, <1>8 DEF IInv

(* What a copy does to the numbers, gate open or closed. *)
LEMMA CopyNumbers ==
  ASSUME IInv, NEW max \in 1..MaxWanted, AudioCopy(max)
  PROVE  /\ UNCHANGED <<s_ring, s_head, made>>
         /\ s_count' \in 0..Trimmed
         /\ s_primed' \in BOOLEAN /\ asked' \in Nat
         /\ s_primed' => s_count' > 0
<1> DEFINE n == Least(max, Trimmed)
           open == Trimmed - n # 0
<1>1. Trimmed \in 0..Capacity
  BY TrimKeeps, Zenon DEF IInv
<1>2. Trimmed - n \in 0..Trimmed /\ max \in Nat /\ Trimmed \in 0..Trimmed
      /\ (Trimmed - n # 0 => Trimmed - n > 0)
  BY <1>1, SMT DEF Least
<1>3. CASE GateOpen(Trimmed)
  <2>1. /\ UNCHANGED <<s_ring, s_head, made>>
        /\ s_count' = Trimmed - n /\ s_primed' = (Trimmed - n # 0) /\ asked' = max
    BY <1>3, Zenon DEF AudioCopy
  <2> HIDE DEF n
  <2> QED
    BY <1>2, <2>1, Zenon
<1>4. CASE ~GateOpen(Trimmed)
  <2>1. UNCHANGED <<s_ring, s_head, made, s_primed, asked>> /\ s_count' = Trimmed
    BY <1>4, Zenon DEF AudioCopy
  <2>2. s_primed = FALSE /\ asked \in Nat
    BY <1>4, Zenon DEF GateOpen, IInv, TypeOK
  <2> QED
    BY <1>2, <2>1, <2>2, Zenon
<1> QED
  BY <1>3, <1>4

(* A copy takes the oldest samples left and leaves the rest where they are. *)
LEMMA CopyHolds ==
  ASSUME IInv, NEW max \in 1..MaxWanted, AudioCopy(max)
  PROVE  IInv'
<1> DEFINE t == Trimmed
<1>0. Numbers
  BY IInvNumbers
<1>1. /\ t \in 0..Capacity /\ t <= s_count
      /\ \A i \in 0..(t - 1) :
           s_ring[(s_head - t + i) % Capacity] = made - t + 1 + i
  BY TrimKeeps, Zenon DEF IInv
<1>2. s_ring' = s_ring /\ s_head' = s_head /\ made' = made /\ s_count' \in 0..t
  BY CopyNumbers, Zenon
<1>3. s_primed' \in BOOLEAN /\ asked' \in Nat /\ (s_primed' => s_count' > 0)
  BY CopyNumbers, Zenon
<1> HIDE DEF t
<1>4. s_count' \in 0..Capacity /\ s_count' <= made
  BY <1>0, <1>1, <1>2, SMT DEF Numbers
<1>5. TypeOK' /\ CountIsMade' /\ PrimedHasSamples'
  BY <1>0, <1>2, <1>3, <1>4, Zenon
     DEF Numbers, TypeOK, CountIsMade, PrimedHasSamples
<1>6. HoldsTheNewest'
  <2> DEFINE q == s_count'
  <2>0. q \in 0..t /\ t \in Int
    BY <1>1, <1>2, SMT
  <2> HIDE DEF q
  <2> SUFFICES ASSUME NEW i \in 0..(q - 1)
               PROVE  s_ring[(s_head - q + i) % Capacity] = made - q + 1 + i
    BY <1>2 DEF HoldsTheNewest, q
  <2> DEFINE j == t - q + i
  <2>1. j \in 0..(t - 1)
    BY <2>0, SMT
  <2>2. s_head - t + j = s_head - q + i /\ made - t + 1 + j = made - q + 1 + i
    BY <1>0, <2>0, SMT DEF Numbers
  <2> HIDE DEF j
  <2>3. s_ring[(s_head - t + j) % Capacity] = made - t + 1 + j
    BY <1>1, <2>1
  <2> QED
    BY <2>2, <2>3
<1> QED
  BY <1>5, <1>6 DEF IInv

LEMMA ResetHolds == ASSUME IInv, AudioReset PROVE IInv'
<1>0. Numbers
  BY IInvNumbers
<1>1. s_head' = 0 /\ s_count' = 0 /\ s_ring' = s_ring /\ made' = made
  BY Zenon DEF AudioReset
<1>2. s_primed' = FALSE /\ asked' = asked
  BY Zenon DEF AudioReset
<1>3. 0 \in Cells /\ 0 \in 0..Capacity /\ 0 <= made
  BY <1>0, SMT DEF Cells, Numbers
<1>4. TypeOK' /\ CountIsMade' /\ PrimedHasSamples'
  BY <1>0, <1>1, <1>2, <1>3, Zenon
     DEF Numbers, IInv, TypeOK, CountIsMade, PrimedHasSamples
<1>5. HoldsTheNewest'
  BY <1>1, SMT DEF HoldsTheNewest
<1> QED
  BY <1>4, <1>5 DEF IInv

LEMMA StutterHolds == ASSUME IInv, UNCHANGED vars PROVE IInv'
BY Zenon DEF IInv, vars, TypeOK, CountIsMade, HoldsTheNewest, PrimedHasSamples

LEMMA Invariance == Spec => []IInv
<1>1. IInv /\ [Next]_vars => IInv'
  BY PublishHolds, CopyHolds, ResetHolds, StutterHolds, Zenon DEF Next
<1> QED
  BY InitIInv, <1>1, PTL DEF Spec

-----------------------------------------------------------------------------
(* What a copy through the open gate hands out: the oldest of what is left. *)
LEMMA CopyGives ==
  ASSUME IInv, NEW max \in 1..MaxWanted, AudioCopy(max), GateOpen(Trimmed)
  PROVE  /\ dst' = [i \in 0..(Least(max, Trimmed) - 1) |-> made - Trimmed + 1 + i]
         /\ s_count' = Trimmed - Least(max, Trimmed)
         /\ asked' = max /\ made' = made
<1> DEFINE n == Least(max, Trimmed)
           t == Trimmed
<1>0. Numbers
  BY IInvNumbers
<1>1. /\ t \in 0..Capacity
      /\ \A i \in 0..(t - 1) :
           s_ring[(s_head - t + i) % Capacity] = made - t + 1 + i
  BY TrimKeeps, Zenon DEF IInv
<1>2. /\ dst' = [i \in 0..(n - 1) |-> s_ring[(ReadPos(t) + i) % Capacity]]
      /\ s_count' = t - n /\ asked' = max /\ made' = made
  BY Zenon DEF AudioCopy
<1>3. n \in 0..t
  BY <1>1, SMT DEF Least
<1> HIDE DEF n, t
<1>4. ASSUME NEW i \in 0..(n - 1)
      PROVE  s_ring[(ReadPos(t) + i) % Capacity] = made - t + 1 + i
  <2> DEFINE a == s_head - t
  <2>1. /\ a \in (-Capacity)..(2 * Capacity - 1) /\ i \in Int
        /\ a + i \in (-Capacity)..(2 * Capacity - 1) /\ a \in Int
        /\ i \in 0..(t - 1)
    BY <1>0, <1>1, <1>3, SMT DEF Numbers, Cells
  <2>2. a % Capacity \in Cells
    BY <2>1, ModInCells
  <2> DEFINE b == a % Capacity
  <2> HIDE DEF b
  <2>3. b + i \in (-Capacity)..(2 * Capacity - 1)
    BY <1>1, <1>3, <2>2, SMT DEF Cells, b
  <2>4. (b + i) % Capacity = (a + i) % Capacity
    BY <2>1, <2>3, ModPlus DEF b
  <2>5. s_ring[(a + i) % Capacity] = made - t + 1 + i
    BY <1>1, <2>1
  <2> QED
    BY <2>4, <2>5 DEF ReadPos, b
<1> QED
  BY <1>2, <1>4 DEF n, t

-----------------------------------------------------------------------------
(* The ring's positions and count stay in range: no index leaves s_ring. *)
THEOREM TypeCorrect == Spec => []TypeOK
BY Invariance, PTL DEF IInv

(* Whatever the sizes and however often the ring wraps, overruns or is        *)
(* trimmed, the unread part is the newest samples in order.                   *)
THEOREM RingHoldsTheNewest == Spec => []HoldsTheNewest
BY Invariance, PTL DEF IInv

(* The prime gate is never open on an empty ring. *)
THEOREM GateClosesOnEmpty == Spec => []PrimedHasSamples
BY Invariance, PTL DEF IInv

(* What the device hears is never older than the high-water mark. *)
THEOREM LagStaysBounded == Spec => LagIsBounded
<1> DEFINE A == dst' # dst /\ 0 \in DOMAIN dst' => made - dst'[0] < Highwater
<1>1. ASSUME IInv, [Next]_vars PROVE [A]_vars
  <2>1. CASE \E max \in 1..MaxWanted : AudioCopy(max)
    <3> PICK max \in 1..MaxWanted : AudioCopy(max)
      BY <2>1
    <3>1. CASE GateOpen(Trimmed)
      <4>1. Trimmed \in 0..Capacity /\ Trimmed <= Highwater
        BY <1>1, TrimKeeps, Zenon DEF IInv
      <4>2. dst' = [i \in 0..(Least(max, Trimmed) - 1) |-> made - Trimmed + 1 + i]
        BY <1>1, <3>1, CopyGives
      <4>3. 0 \in DOMAIN dst' => dst'[0] = made - Trimmed + 1 + 0
        BY <4>2
      <4>4. made - (made - Trimmed + 1 + 0) < Highwater
        BY <1>1, <4>1, IInvNumbers, SMT DEF Numbers
      <4> QED
        BY <4>3, <4>4
    <3>2. CASE ~GateOpen(Trimmed)
      BY <3>2, Zenon DEF AudioCopy
    <3> QED
      BY <3>1, <3>2
  <2>2. CASE AudioReset
    BY <2>2, Zenon DEF AudioReset
  <2>3. CASE \E n \in 1..MaxBurst : AudioPublish(n)
    BY <2>3, Zenon DEF AudioPublish
  <2> QED
    BY <1>1, <2>1, <2>2, <2>3, Zenon DEF Next
<1> QED
  BY <1>1, Invariance, PTL DEF Spec, LagIsBounded

(* After silence a full target is there first, and no copy is cut short while *)
(* there is more to give.                                                     *)
THEOREM SoundNeverDribbles == Spec => NoDribble
<1> DEFINE Copied(n) == /\ DOMAIN dst' = 0..(n - 1)
                        /\ s_count' # 0 => n = asked'
                        /\ s_primed \/ s_count' + n >= Target
           A == dst' # dst => \E n \in 0..MaxWanted : Copied(n)
<1>1. ASSUME IInv, [Next]_vars PROVE [A]_vars
  <2>1. CASE \E max \in 1..MaxWanted : AudioCopy(max)
    <3> PICK max \in 1..MaxWanted : AudioCopy(max)
      BY <2>1
    <3> DEFINE n == Least(max, Trimmed)
    <3>1. CASE GateOpen(Trimmed)
      <4>1. Trimmed \in 0..Capacity
        BY <1>1, TrimKeeps, Zenon DEF IInv
      <4>2. /\ dst' = [i \in 0..(n - 1) |-> made - Trimmed + 1 + i]
            /\ s_count' = Trimmed - n /\ asked' = max
        BY <1>1, <3>1, CopyGives
      <4>3. /\ n \in 0..MaxWanted
            /\ Trimmed - n # 0 => n = max
            /\ Trimmed >= Target => (Trimmed - n) + n >= Target
        BY <4>1, SMT DEF Least
      <4>4. s_primed \/ Trimmed >= Target
        BY <3>1, Zenon DEF GateOpen
      <4>5. DOMAIN dst' = 0..(n - 1)
        BY <4>2
      <4> HIDE DEF n
      <4>6. Copied(n)
        BY <4>2, <4>3, <4>4, <4>5, Zenon
      <4> HIDE DEF Copied
      <4> QED
        BY <4>3, <4>6, Zenon
    <3>2. CASE ~GateOpen(Trimmed)
      BY <3>2, Zenon DEF AudioCopy
    <3> QED
      BY <3>1, <3>2
  <2>2. CASE AudioReset
    BY <2>2, Zenon DEF AudioReset
  <2>3. CASE \E n \in 1..MaxBurst : AudioPublish(n)
    BY <2>3, Zenon DEF AudioPublish
  <2> QED
    BY <1>1, <2>1, <2>2, <2>3, Zenon DEF Next
<1> QED
  BY <1>1, Invariance, PTL DEF Spec, NoDribble

-----------------------------------------------------------------------------
LEMMA FifoInit == Init => Fifo!Init
BY SMT DEF Init, Fifo!Init

LEMMA FifoPublish ==
  ASSUME IInv, NEW n \in 1..MaxBurst, AudioPublish(n)
  PROVE  Fifo!Make
<1> DEFINE k == Least(n, Capacity)
           q == s_count'
           m == made'
<1>0. Numbers
  BY IInvNumbers
<1>1. k \in 1..Capacity /\ n \in Nat /\ k <= n /\ n > 0
  BY SMT DEF Least
<1>2. q = Least(s_count + k, Capacity) /\ m = made + n /\ dst' = dst
  BY Zenon DEF AudioPublish, CountAfter
<1> HIDE DEF k, q, m
<1>3. q \in Int /\ 0 <= q /\ q <= s_count + k
  BY <1>0, <1>1, <1>2, SMT DEF Least, Numbers
<1>4. m \in Nat /\ m > made /\ m - q \in (made - s_count)..m
  BY <1>0, <1>1, <1>2, <1>3, SMT DEF Numbers
<1> QED
  BY <1>2, <1>4 DEF Fifo!Make, m, q

LEMMA FifoCopy ==
  ASSUME IInv, NEW max \in 1..MaxWanted, AudioCopy(max)
  PROVE  Fifo!Next
<1> DEFINE t == Trimmed
           n == Least(max, t)
<1>0. Numbers
  BY IInvNumbers
<1>1. t \in 0..Capacity /\ t <= s_count
  BY TrimKeeps, Zenon DEF IInv
<1>2. n \in 0..t
  BY <1>1, SMT DEF Least
<1>3. CASE GateOpen(Trimmed)
  <2> DEFINE lo == made - t
  <2>1. dst' = [i \in 0..(n - 1) |-> lo + 1 + i]
        /\ s_count' = t - n /\ made' = made
    BY <1>3, CopyGives
  <2> HIDE DEF n, t
  <2>2. /\ lo \in (made - s_count)..made /\ n \in 0..(made - lo)
        /\ made - (t - n) = lo + n
    BY <1>0, <1>1, <1>2, SMT DEF Numbers
  <2>3. Fifo!Take(lo, n)
    BY <2>1, <2>2 DEF Fifo!Take
  <2> HIDE DEF lo
  <2> QED
    BY <2>2, <2>3 DEF Fifo!Next
<1>4. CASE ~GateOpen(Trimmed)
  <2>1. s_count' = t /\ made' = made /\ dst' = dst
    BY <1>4, Zenon DEF AudioCopy
  <2> HIDE DEF n, t
  <2>2. made - t \in (made - s_count)..made
    BY <1>0, <1>1, SMT DEF Numbers
  <2> QED
    BY <2>1, <2>2 DEF Fifo!Lose, Fifo!Next
<1> QED
  BY <1>3, <1>4

LEMMA FifoReset == ASSUME IInv, AudioReset PROVE Fifo!Lose
<1>1. s_count' = 0 /\ made' = made /\ dst' = dst
  BY Zenon DEF AudioReset
<1>2. made - 0 \in (made - s_count)..made
  BY IInvNumbers, SMT DEF Numbers
<1> QED
  BY <1>1, <1>2 DEF Fifo!Lose

(* The copies are neither late nor broken up.                                 *)
THEOREM SoundIsHeardInTime == Spec => HeardInTime
  BY LagStaysBounded, SoundNeverDribbles, PTL DEF HeardInTime

(* The ring implements the stream: in order, nothing twice, only the oldest   *)
(* ever lost.                                                                 *)
THEOREM RingImplementsFifo == Spec => FifoSpec
<1>1. ASSUME IInv, [Next]_vars PROVE [Fifo!Next]_(Fifo!vars)
  <2>1. CASE \E n \in 1..MaxBurst : AudioPublish(n)
    BY <1>1, <2>1, FifoPublish DEF Fifo!Next
  <2>2. CASE \E max \in 1..MaxWanted : AudioCopy(max)
    BY <1>1, <2>2, FifoCopy
  <2>3. CASE AudioReset
    BY <1>1, <2>3, FifoReset DEF Fifo!Next
  <2>4. CASE UNCHANGED vars
    BY <2>4, Zenon DEF vars, Fifo!vars
  <2> QED
    BY <1>1, <2>1, <2>2, <2>3, <2>4, Zenon DEF Next
<1> QED
  BY <1>1, FifoInit, Invariance, PTL DEF Spec, FifoSpec, Fifo!Spec

-----------------------------------------------------------------------------
(* The pictures: the frame slot, and the display of GNOME. *)

(* The feed and the host agree on who is called. *)
FeedIsRegistered == m_active = registered

(* A serial is of one session, and there it stands for one picture. *)
SerialsTell ==
  /\ mt = "none" => s_frame_serial = 0
  /\ m_session <= sessions
  /\ m_session = sessions /\ mt # "none" =>
       /\ m_serial <= s_frame_serial
       /\ m_serial = s_frame_serial => shown = s_frame

(* What an active window does not show yet comes. *)
OnItsWay ==
  m_active /\ s_frame_serial # 0 =>
    \/ shown = s_frame
    \/ Mistaken
    \/ mt \in {"published", "calling", "posting"}
    \/ queue > 0
    \/ gui = "emitting"

SlotInv ==
  /\ FrameTypeOK
  /\ FeedIsRegistered /\ NoCallAfterUnregister
  /\ OneEventInFlight
  /\ SerialsTell /\ OnItsWay

(* The widget, and the loans of what memory there is. *)
TickIsMapped == (ticking => mapped) /\ (mapped => ~disposed)

GtkInv ==
  /\ GtkTypeOK /\ IsFiniteSet(loans)
  /\ TickIsMapped
  /\ BuffersAreSafe

-----------------------------------------------------------------------------
(* The frame slot.                                                          *)

USE DEF host, feed, widget, display, pool

LEMMA SlotInit ==
  ASSUME FrameBounds, FrameInit
  PROVE  SlotInv
<1> USE DEF FrameInit
<1>1. FrameTypeOK
  <2>1. /\ registered \in BOOLEAN /\ m_active \in BOOLEAN /\ m_pending \in BOOLEAN
        /\ mt \in ThreadStates
    BY DEF ThreadStates
  <2> QED
    BY <2>1 DEF FrameTypeOK, FrameBounds
<1>2. FeedIsRegistered /\ NoCallAfterUnregister /\ OneEventInFlight
  <2>1. m_active = registered /\ ~m_pending
    OBVIOUS
  <2>2. mt # "posting" /\ mt # "calling" /\ queue = 0
    OBVIOUS
  <2> QED
    BY <2>1, <2>2 DEF FeedIsRegistered, NoCallAfterUnregister, CallbackLockHeld,
                      OneEventInFlight
<1>3. SerialsTell /\ OnItsWay
  BY DEF SerialsTell, OnItsWay
<1> QED
  BY <1>1, <1>2, <1>3 DEF SlotInv

LEMMA PublishStep ==
  ASSUME FrameBounds, SlotInv, NEW p \in Pictures, Publish(p)
  PROVE  SlotInv'
<1> USE DEF SlotInv, FrameTypeOK, Publish
<1>1. FrameTypeOK'
  BY DEF FrameBounds, ThreadStates
<1>2. FeedIsRegistered' /\ NoCallAfterUnregister'
  BY DEF FeedIsRegistered, NoCallAfterUnregister, CallbackLockHeld
<1>3. OneEventInFlight'
  BY DEF OneEventInFlight
<1>4. SerialsTell'
  BY DEF SerialsTell
<1>5. OnItsWay'
  BY DEF OnItsWay, Mistaken, SerialsTell, FeedIsRegistered, OneEventInFlight
<1> QED
  BY <1>1, <1>2, <1>3, <1>4, <1>5

LEMMA LockCallbackStep ==
  ASSUME FrameBounds, SlotInv, LockCallback
  PROVE  SlotInv'
<1> USE DEF SlotInv, FrameTypeOK, LockCallback
<1>1. FrameTypeOK'
  BY DEF FrameBounds, ThreadStates
<1>2. FeedIsRegistered' /\ NoCallAfterUnregister'
  BY DEF FeedIsRegistered, NoCallAfterUnregister, CallbackLockHeld
<1>3. OneEventInFlight'
  BY DEF OneEventInFlight
<1>4. SerialsTell'
  BY DEF SerialsTell
<1>5. OnItsWay'
  BY DEF OnItsWay, Mistaken, SerialsTell, FeedIsRegistered, OneEventInFlight
<1> QED
  BY <1>1, <1>2, <1>3, <1>4, <1>5

LEMMA OnFrameStep ==
  ASSUME FrameBounds, SlotInv, OnFrame
  PROVE  SlotInv'
<1> USE DEF SlotInv, FrameTypeOK, OnFrame
<1>1. FrameTypeOK'
  BY DEF FrameBounds, ThreadStates
<1>2. FeedIsRegistered' /\ NoCallAfterUnregister'
  BY DEF FeedIsRegistered, NoCallAfterUnregister, CallbackLockHeld
<1>3. OneEventInFlight'
  BY DEF OneEventInFlight
<1>4. SerialsTell'
  BY DEF SerialsTell
<1>5. OnItsWay'
  BY DEF OnItsWay, Mistaken, SerialsTell, FeedIsRegistered, OneEventInFlight
<1> QED
  BY <1>1, <1>2, <1>3, <1>4, <1>5

LEMMA PostStep ==
  ASSUME FrameBounds, SlotInv, Post
  PROVE  SlotInv'
<1> USE DEF SlotInv, FrameTypeOK, Post
<1>1. FrameTypeOK'
  BY DEF FrameBounds, ThreadStates
<1>2. FeedIsRegistered' /\ NoCallAfterUnregister'
  BY DEF FeedIsRegistered, NoCallAfterUnregister, CallbackLockHeld
<1>3. OneEventInFlight'
  BY DEF OneEventInFlight
<1>4. SerialsTell'
  BY DEF SerialsTell
<1>5. OnItsWay'
  BY DEF OnItsWay, Mistaken, SerialsTell, FeedIsRegistered, OneEventInFlight
<1> QED
  BY <1>1, <1>2, <1>3, <1>4, <1>5

LEMMA DeliverStep ==
  ASSUME FrameBounds, SlotInv, Deliver
  PROVE  SlotInv'
<1> USE DEF SlotInv, FrameTypeOK, Deliver
<1>1. FrameTypeOK'
  <2>1. queue' \in Nat
    OBVIOUS
  <2>2. m_pending' \in BOOLEAN /\ gui' \in {"idle", "emitting"}
    OBVIOUS
  <2> QED
    BY <2>1, <2>2 DEF ThreadStates
<1>2. FeedIsRegistered' /\ NoCallAfterUnregister'
  BY DEF FeedIsRegistered, NoCallAfterUnregister, CallbackLockHeld
<1>3. OneEventInFlight'
  BY DEF OneEventInFlight
<1>4. SerialsTell'
  BY DEF SerialsTell
<1>5. OnItsWay'
  BY DEF OnItsWay, Mistaken, SerialsTell, FeedIsRegistered, OneEventInFlight
<1> QED
  BY <1>1, <1>2, <1>3, <1>4, <1>5

LEMMA OnFrameReadyStep ==
  ASSUME FrameBounds, SlotInv, OnFrameReady
  PROVE  SlotInv'
<1> USE DEF SlotInv, FrameTypeOK, OnFrameReady, FrameCopy
<1>1. FrameTypeOK'
  BY DEF FrameBounds, ThreadStates
<1>2. FeedIsRegistered' /\ NoCallAfterUnregister'
  BY DEF FeedIsRegistered, NoCallAfterUnregister, CallbackLockHeld
<1>3. OneEventInFlight'
  BY DEF OneEventInFlight
<1>4. SerialsTell'
  BY DEF SerialsTell
<1>5. OnItsWay'
  BY DEF OnItsWay, Mistaken, SerialsTell, FeedIsRegistered, OneEventInFlight
<1> QED
  BY <1>1, <1>2, <1>3, <1>4, <1>5

LEMMA ActivateStep ==
  ASSUME FrameBounds, SlotInv, Activate
  PROVE  SlotInv'
<1> USE DEF SlotInv, FrameTypeOK, Activate
<1>1. FrameTypeOK'
  BY DEF FrameBounds, ThreadStates
<1>2. FeedIsRegistered' /\ NoCallAfterUnregister'
  BY DEF FeedIsRegistered, NoCallAfterUnregister, CallbackLockHeld
<1>3. OneEventInFlight'
  BY DEF OneEventInFlight
<1>4. SerialsTell'
  BY DEF SerialsTell
<1>5. OnItsWay'
  BY DEF OnItsWay, Mistaken, SerialsTell, FeedIsRegistered, OneEventInFlight
<1> QED
  BY <1>1, <1>2, <1>3, <1>4, <1>5

LEMMA DeactivateStep ==
  ASSUME FrameBounds, SlotInv, Deactivate
  PROVE  SlotInv'
<1> USE DEF SlotInv, FrameTypeOK, Deactivate
<1>1. FrameTypeOK'
  BY DEF FrameBounds, ThreadStates
<1>2. FeedIsRegistered' /\ NoCallAfterUnregister'
  BY DEF FeedIsRegistered, NoCallAfterUnregister, CallbackLockHeld
<1>3. OneEventInFlight'
  BY DEF OneEventInFlight
<1>4. SerialsTell'
  BY DEF SerialsTell
<1>5. OnItsWay'
  BY DEF OnItsWay, Mistaken, SerialsTell, FeedIsRegistered, OneEventInFlight
<1> QED
  BY <1>1, <1>2, <1>3, <1>4, <1>5

LEMMA HostStartStep ==
  ASSUME FrameBounds, SlotInv, HostStart
  PROVE  SlotInv'
<1> USE DEF SlotInv, FrameTypeOK, HostStart
<1>1. FrameTypeOK'
  BY DEF FrameBounds, ThreadStates
<1>2. FeedIsRegistered' /\ NoCallAfterUnregister'
  BY DEF FeedIsRegistered, NoCallAfterUnregister, CallbackLockHeld
<1>3. OneEventInFlight'
  BY DEF OneEventInFlight
<1>4. SerialsTell'
  BY DEF SerialsTell
<1>5. OnItsWay'
  BY DEF OnItsWay, Mistaken, SerialsTell, FeedIsRegistered, OneEventInFlight
<1> QED
  BY <1>1, <1>2, <1>3, <1>4, <1>5

LEMMA HostStopStep ==
  ASSUME FrameBounds, SlotInv, HostStop
  PROVE  SlotInv'
<1> USE DEF SlotInv, FrameTypeOK, HostStop
<1>1. FrameTypeOK'
  BY DEF FrameBounds, ThreadStates
<1>2. FeedIsRegistered' /\ NoCallAfterUnregister'
  BY DEF FeedIsRegistered, NoCallAfterUnregister, CallbackLockHeld
<1>3. OneEventInFlight'
  BY DEF OneEventInFlight
<1>4. SerialsTell'
  BY DEF SerialsTell
<1>5. OnItsWay'
  BY DEF OnItsWay, Mistaken, SerialsTell, FeedIsRegistered, OneEventInFlight
<1> QED
  BY <1>1, <1>2, <1>3, <1>4, <1>5

LEMMA SlotStep ==
  ASSUME FrameBounds, SlotInv, [FrameNext]_frameVars
  PROVE  SlotInv'
<1>1. CASE UNCHANGED frameVars
  BY <1>1 DEF frameVars, SlotInv, FrameTypeOK, FeedIsRegistered, NoCallAfterUnregister,
              CallbackLockHeld, OneEventInFlight, SerialsTell, OnItsWay, Mistaken
<1>2. CASE FrameNext
  BY <1>2, PublishStep, LockCallbackStep, OnFrameStep, PostStep, DeliverStep,
     OnFrameReadyStep, ActivateStep, DeactivateStep, HostStartStep, HostStopStep
     DEF FrameNext, MachineThread, GuiThread
<1> QED
  BY <1>1, <1>2

LEMMA SlotInvariance ==
  ASSUME FrameBounds
  PROVE  FrameSpec => []SlotInv
<1>1. FrameInit => SlotInv
  BY SlotInit
<1>2. SlotInv /\ [FrameNext]_frameVars => SlotInv'
  BY SlotStep
<1> QED
  BY <1>1, <1>2, PTL DEF FrameSpec

(* Every variable of the slot and its feed stays in its type, with no more   *)
(* than MaxSerial pictures of a session.                                     *)
THEOREM FrameTypesOK ==
  ASSUME FrameBounds
  PROVE  FrameSpec => []FrameTypeOK
<1>1. SlotInv => FrameTypeOK
  BY DEF SlotInv
<1> QED
  BY <1>1, SlotInvariance, PTL

(* Once astro_host_set_frame_callback has returned for a callback that is    *)
(* gone, the machine thread is not in it and will not enter it.              *)
THEOREM FrameNoCallAfterUnregister ==
  ASSUME FrameBounds
  PROVE  FrameSpec => []NoCallAfterUnregister
<1>1. SlotInv => NoCallAfterUnregister
  BY DEF SlotInv
<1> QED
  BY <1>1, SlotInvariance, PTL

(* FrameFeed's flag is up exactly while one event is on its way, and there   *)
(* is never another: m_pending neither loses the feed nor floods the queue.  *)
THEOREM FrameOneEventInFlight ==
  ASSUME FrameBounds
  PROVE  FrameSpec => []OneEventInFlight
<1>1. SlotInv => OneEventInFlight
  BY DEF SlotInv
<1> QED
  BY <1>1, SlotInvariance, PTL

(* With nothing under way an active window shows the newest picture of the   *)
(* slot, but for the one of a later session that has the serial it knows.    *)
THEOREM FrameShowsTheNewest ==
  ASSUME FrameBounds
  PROVE  FrameSpec => []ShowsTheNewest
<1>1. SlotInv => ShowsTheNewest
  BY DEF SlotInv, FrameTypeOK, OnItsWay, ShowsTheNewest, Quiet
<1> QED
  BY <1>1, SlotInvariance, PTL

-----------------------------------------------------------------------------
(* The pool of the display of GNOME.                                        *)

(* What is given back to a pool is once in it.                              *)
LEMMA GivenOnce ==
  ASSUME NEW S, NEW rest \in Seq(S), IsInjective(rest), NEW px \in S \ ToSet(rest)
  PROVE  /\ Given(rest, px) \in Seq(S)
         /\ IsInjective(Given(rest, px))
         /\ ToSet(Given(rest, px)) \subseteq ToSet(rest) \cup {px}
<1>1. CASE Given(rest, px) = rest
  BY <1>1
<1>2. CASE Given(rest, px) = Append(rest, px)
  <2> DEFINE more == Append(rest, px)
  <2>1. /\ Len(rest) \in Nat /\ DOMAIN rest = 1..Len(rest)
        /\ more \in Seq(S) /\ Len(more) = Len(rest) + 1
        /\ \A i \in 1..Len(rest) : more[i] = rest[i]
        /\ more[Len(rest) + 1] = px
    BY AppendProperties, LenProperties
  <2>2. DOMAIN more = 1..(Len(rest) + 1)
    BY <2>1, LenProperties
  <2> HIDE DEF more
  <2>3. \A i \in 1..Len(rest) : rest[i] # px
    BY <2>1 DEF ToSet
  <2>4. IsInjective(more)
    BY <2>1, <2>2, <2>3 DEF IsInjective
  <2>5. ToSet(more) \subseteq ToSet(rest) \cup {px}
    BY <2>1, <2>2 DEF ToSet
  <2> QED
    BY <1>2, <2>1, <2>4, <2>5 DEF more
<1> QED
  BY <1>1, <1>2 DEF Given

(* What is taken from a pool is no more in it.                              *)
LEMMA FrontOnce ==
  ASSUME NEW S, NEW seq \in Seq(S), seq # <<>>, IsInjective(seq)
  PROVE  /\ Front(seq) \in Seq(S)
         /\ IsInjective(Front(seq))
         /\ Last(seq) \in S /\ Last(seq) \in ToSet(seq)
         /\ ToSet(Front(seq)) \subseteq ToSet(seq) \ {Last(seq)}
<1> DEFINE n == Len(seq)
<1>1. n \in Nat \ {0} /\ DOMAIN seq = 1..n
  BY EmptySeq, LenProperties
<1>2. /\ Front(seq) \in Seq(S) /\ Len(Front(seq)) = n - 1
      /\ \A i \in 1..(n - 1) : Front(seq)[i] = seq[i]
  BY <1>1, SubSeqProperties DEF Front
<1>3. DOMAIN Front(seq) = 1..(n - 1)
  BY <1>2, LenProperties
<1>4. Last(seq) = seq[n] /\ Last(seq) \in S /\ Last(seq) \in ToSet(seq)
  BY <1>1, ElementOfSeq DEF Last, ToSet
<1> HIDE DEF n
<1>5. IsInjective(Front(seq))
  BY <1>1, <1>2, <1>3 DEF IsInjective
<1>6. ToSet(Front(seq)) \subseteq ToSet(seq) \ {Last(seq)}
  BY <1>1, <1>2, <1>3, <1>4 DEF IsInjective, ToSet
<1> QED
  BY <1>2, <1>4, <1>5, <1>6

(* pool_take: a buffer that nobody has borrowed, and the rest of the pool.  *)
LEMMA TakenIsFree ==
  ASSUME GtkInv, NEW px \in Taken
  PROVE  /\ px \in Buffers \ loans
         /\ AfterTake \in Seq(Buffers) /\ IsInjective(AfterTake)
         /\ ToSet(AfterTake) \subseteq ToSet(spare) \ {px}
<1> USE DEF GtkInv, GtkTypeOK, BuffersAreSafe
<1>1. CASE spare # <<>>
  <2>1. px = Last(spare) /\ AfterTake = Front(spare)
    BY <1>1 DEF Taken, AfterTake
  <2> QED
    BY <1>1, <2>1, FrontOnce
<1>2. CASE spare = <<>>
  <2>1. px \in Buffers \ loans /\ AfterTake = <<>>
    BY <1>2 DEF Taken, AfterTake
  <2>2. ToSet(<<>>) = {}
    BY DEF ToSet
  <2> QED
    BY <1>2, <2>1, <2>2
<1> QED
  BY <1>1, <1>2

(* The widget's texture, and what a session publishes meanwhile.            *)
LEMMA GtkInitInv ==
  ASSUME FrameBounds, GtkInit
  PROVE  GtkInv
<1> USE DEF GtkInit
<1>1. FrameTypeOK
  BY SlotInit DEF SlotInv
<1>2. GtkTypeOK
  <2>1. spare \in Seq(Buffers) /\ loans \subseteq Buffers /\ pool_refs \in Nat
    BY EmptySeq
  <2>2. /\ mapped \in BOOLEAN /\ suspended \in BOOLEAN /\ disposed \in BOOLEAN
        /\ ticking \in BOOLEAN /\ texture \in Buffers \cup {NoBuffer}
    OBVIOUS
  <2>3. content \in [Buffers -> Pictures] /\ lent \in [Buffers -> Pictures]
    BY DEF FrameInit
  <2> QED
    BY <1>1, <2>1, <2>2, <2>3 DEF GtkTypeOK
<1>3. IsFiniteSet(loans) /\ Cardinality(loans) = 0
  BY FS_EmptySet
<1>4. TickIsMapped
  BY DEF TickIsMapped, FrameInit
<1>5. BuffersAreSafe
  <2>1. IsInjective(spare) /\ ToSet(spare) \cap loans = {}
    BY DEF IsInjective
  <2>2. pool_refs = Cardinality(loans) + (IF disposed THEN 0 ELSE 1)
    BY <1>3
  <2> QED
    BY <2>1, <2>2 DEF BuffersAreSafe
<1> QED
  BY <1>2, <1>3, <1>4, <1>5 DEF GtkInv

LEMMA TickNewStep ==
  ASSUME GtkInv, NEW px \in Taken, TickNew(px), ticking, UNCHANGED <<host, feed, gui, display>>
  PROVE  GtkInv'
<1> USE DEF GtkInv, GtkTypeOK
<1>1. /\ px \in Buffers \ loans
      /\ spare' \in Seq(Buffers) /\ IsInjective(spare')
      /\ ToSet(spare') \subseteq ToSet(spare) \ {px}
  BY TakenIsFree DEF TickNew
<1>2. /\ shown' = s_frame /\ m_serial' = s_frame_serial /\ m_session' = sessions
      /\ texture' = px /\ loans' = loans \cup {px} /\ pool_refs' = pool_refs + 1
      /\ content' = [content EXCEPT ![px] = s_frame]
      /\ lent' = [lent EXCEPT ![px] = s_frame]
  BY DEF TickNew, FrameCopy
<1>3. FrameTypeOK'
  BY <1>2 DEF FrameTypeOK, ThreadStates
<1>4. /\ IsFiniteSet(loans') /\ Cardinality(loans') = Cardinality(loans) + 1
      /\ Cardinality(loans) \in Nat
  BY <1>1, <1>2, FS_AddElement, FS_CardinalityType
<1>5. GtkTypeOK'
  <2>1. content' \in [Buffers -> Pictures] /\ lent' \in [Buffers -> Pictures]
    BY <1>2 DEF FrameTypeOK
  <2>2. loans' \subseteq Buffers /\ pool_refs' \in Nat /\ texture' \in Buffers
    BY <1>1, <1>2
  <2> QED
    BY <1>1, <1>3, <2>1, <2>2
<1>6. \A b \in loans' : content'[b] = lent'[b]
  BY <1>1, <1>2 DEF BuffersAreSafe
<1>7. pool_refs' = Cardinality(loans') + (IF disposed' THEN 0 ELSE 1)
  BY <1>2, <1>4 DEF BuffersAreSafe
<1>8. ToSet(spare') \cap loans' = {}
  BY <1>1, <1>2 DEF BuffersAreSafe
<1>9. texture' \in loans' /\ content'[texture'] = shown'
  BY <1>1, <1>2
<1>10. BuffersAreSafe'
  BY <1>1, <1>6, <1>7, <1>8, <1>9 DEF BuffersAreSafe
<1>11. TickIsMapped'
  BY DEF TickIsMapped
<1> QED
  BY <1>4, <1>5, <1>10, <1>11

LEMMA TickOldStep ==
  ASSUME GtkInv, NEW px \in Taken, TickOld(px), UNCHANGED <<host, feed, gui, display>>
  PROVE  GtkInv'
<1> USE DEF GtkInv, GtkTypeOK
<1>1. /\ px \in Buffers \ loans
      /\ AfterTake \in Seq(Buffers) /\ IsInjective(AfterTake)
      /\ ToSet(AfterTake) \subseteq ToSet(spare) \ {px}
  BY TakenIsFree
<1>2. /\ spare' \in Seq(Buffers) /\ IsInjective(spare')
      /\ ToSet(spare') \subseteq ToSet(spare) \cup {px}
  BY <1>1, GivenOnce DEF TickOld
<1>3. UNCHANGED <<widget, loans, pool_refs, texture, content, lent>>
  BY DEF TickOld
<1>4. GtkTypeOK'
  BY <1>2, <1>3 DEF FrameTypeOK
<1>5. BuffersAreSafe'
  BY <1>1, <1>2, <1>3 DEF BuffersAreSafe
<1>6. TickIsMapped'
  BY DEF TickIsMapped
<1> QED
  BY <1>3, <1>4, <1>5, <1>6

(* The renderer gives back a loan; the last reference takes the pool along. *)
LEMMA DropStep ==
  ASSUME GtkInv, NEW b \in Buffers, Drop(b)
  PROVE  GtkInv'
<1> USE DEF GtkInv, GtkTypeOK
<1>1. /\ b \in loans /\ b # texture
      /\ loans' = loans \ {b} /\ pool_refs' = pool_refs - 1
      /\ UNCHANGED <<frameVars, display, texture, content, lent>>
  BY DEF Drop, Release
<1>2. /\ IsFiniteSet(loans') /\ Cardinality(loans') = Cardinality(loans) - 1
      /\ Cardinality(loans) \in Nat /\ Cardinality(loans') \in Nat
  BY <1>1, FS_RemoveElement, FS_CardinalityType
<1>3. /\ spare' \in Seq(Buffers) /\ IsInjective(spare')
      /\ ToSet(spare') \subseteq ToSet(spare) \cup {b}
  <2>1. CASE spare' = <<>>
    BY <2>1, EmptySeq DEF IsInjective, ToSet
  <2>2. CASE spare' = Given(spare, b)
    BY <1>1, <2>2, GivenOnce DEF BuffersAreSafe
  <2> QED
    BY <2>1, <2>2 DEF Drop, Release
<1>4. pool_refs' = Cardinality(loans') + (IF disposed' THEN 0 ELSE 1)
  BY <1>1, <1>2 DEF BuffersAreSafe
<1>5. pool_refs' \in Nat
  BY <1>2, <1>4
<1>6. GtkTypeOK'
  BY <1>1, <1>3, <1>5 DEF FrameTypeOK, frameVars
<1>7. BuffersAreSafe'
  BY <1>1, <1>3, <1>4 DEF BuffersAreSafe, frameVars
<1>8. TickIsMapped'
  BY <1>1 DEF TickIsMapped, frameVars
<1> QED
  BY <1>2, <1>6, <1>7, <1>8

LEMMA WidgetStep ==
  ASSUME GtkInv, Map \/ Unmap \/ Suspend
  PROVE  GtkInv'
<1> USE DEF GtkInv, Map, Unmap, Suspend, Ticks, frameVars
<1>1. UNCHANGED <<disposed, frameVars, pool>>
  OBVIOUS
<1>2. mapped' \in BOOLEAN /\ suspended' \in BOOLEAN /\ ticking' \in BOOLEAN
  BY DEF GtkTypeOK, FrameTypeOK
<1>3. GtkTypeOK'
  BY <1>1, <1>2 DEF GtkTypeOK, FrameTypeOK
<1>4. TickIsMapped'
  <2>1. CASE Map
    BY <2>1 DEF TickIsMapped
  <2>2. CASE Unmap
    BY <2>2 DEF TickIsMapped
  <2>3. CASE Suspend
    BY <2>3 DEF TickIsMapped, GtkTypeOK
  <2> QED
    BY <2>1, <2>2, <2>3
<1>5. BuffersAreSafe' /\ IsFiniteSet(loans)'
  BY <1>1 DEF BuffersAreSafe
<1> QED
  BY <1>3, <1>4, <1>5

(* The widget goes: its reference to the pool, and its texture to the       *)
(* renderer.                                                                *)
LEMMA DisposeStep ==
  ASSUME GtkInv, Dispose
  PROVE  GtkInv'
<1> USE DEF GtkInv, GtkTypeOK, Dispose, frameVars
<1>1. pool_refs = Cardinality(loans) + 1 /\ Cardinality(loans) \in Nat
  BY FS_CardinalityType DEF BuffersAreSafe
<1>2. pool_refs' = Cardinality(loans') /\ pool_refs' \in Nat
  BY <1>1
<1>3. /\ spare' \in Seq(Buffers) /\ IsInjective(spare')
      /\ ToSet(spare') \subseteq ToSet(spare)
  <2>1. CASE spare' = <<>>
    BY <2>1, EmptySeq DEF IsInjective, ToSet
  <2>2. CASE spare' = spare
    BY <2>2 DEF BuffersAreSafe
  <2> QED
    BY <2>1, <2>2
<1>4. GtkTypeOK'
  BY <1>2, <1>3 DEF FrameTypeOK
<1>5. BuffersAreSafe'
  BY <1>2, <1>3 DEF BuffersAreSafe
<1>6. TickIsMapped'
  BY DEF TickIsMapped
<1> QED
  BY <1>4, <1>5, <1>6

LEMMA SessionStep ==
  ASSUME FrameBounds, GtkInv, Session, UNCHANGED <<display, pool>>
  PROVE  GtkInv'
<1> USE DEF GtkInv, Session
<1>1. UNCHANGED <<feed, widget, gui>>
  BY DEF Publish, LockCallback, HostStart, HostStop
<1>2. FrameTypeOK'
  <2> USE DEF FrameBounds, FrameTypeOK, ThreadStates
  <2>1. FrameTypeOK
    BY DEF GtkTypeOK
  <2>2. ASSUME NEW p \in Pictures, Publish(p)
        PROVE  FrameTypeOK'
    BY <2>1, <2>2 DEF Publish
  <2>3. CASE LockCallback
    BY <2>1, <2>3 DEF LockCallback
  <2>4. CASE HostStart
    BY <2>1, <2>4 DEF HostStart
  <2>5. CASE HostStop
    BY <2>1, <2>5 DEF HostStop
  <2> QED
    BY <2>2, <2>3, <2>4, <2>5
<1> QED
  BY <1>1, <1>2 DEF GtkTypeOK, TickIsMapped, BuffersAreSafe

LEMMA GtkInvariance ==
  ASSUME FrameBounds
  PROVE  GtkSpec => []GtkInv
<1>1. GtkInit => GtkInv
  BY GtkInitInv
<1>2. GtkInv /\ [GtkNext]_gtkVars => GtkInv'
  <2> SUFFICES ASSUME GtkInv, [GtkNext]_gtkVars
               PROVE  GtkInv'
    OBVIOUS
  <2>1. CASE tick_cb
    BY <2>1, TickNewStep, TickOldStep DEF tick_cb
  <2>2. CASE Drops
    BY <2>2, DropStep DEF Drops
  <2>3. CASE UNCHANGED gtkVars
    BY <2>3 DEF gtkVars, frameVars, GtkInv, GtkTypeOK, FrameTypeOK, TickIsMapped, BuffersAreSafe
  <2> QED
    BY <2>1, <2>2, <2>3, WidgetStep, DisposeStep, SessionStep DEF GtkNext
<1> QED
  BY <1>1, <1>2, PTL DEF GtkSpec

(* Every variable of the display, its pool and the slot stays in its type.   *)
THEOREM GtkTypesOK ==
  ASSUME FrameBounds
  PROVE  GtkSpec => []GtkTypeOK
<1>1. GtkInv => GtkTypeOK
  BY DEF GtkInv
<1> QED
  BY <1>1, GtkInvariance, PTL

(* A buffer that a texture borrows is not spare and not written, and its     *)
(* pool is there until the last one is back, widget or not                   *)
(* (frontends/gnome/display.c, pool_take to loan_release).                   *)
THEOREM GtkBuffersAreSafe ==
  ASSUME FrameBounds
  PROVE  GtkSpec => []BuffersAreSafe
<1>1. GtkInv => BuffersAreSafe
  BY DEF GtkInv
<1> QED
  BY <1>1, GtkInvariance, PTL

(* A callback that was unregistered is not called any more, and a buffer     *)
(* that goes away is not used: the slot's and the display's parts of one     *)
(* property (core/include/host.h, frontends/gnome/display.c).                *)
THEOREM WhatGoesAwayIsNotUsed ==
  ASSUME FrameBounds
  PROVE  (FrameSpec => []NoCallAfterUnregister) /\ (GtkSpec => []NothingIsUsedAfter)
<1>1. GtkInit => ~registered /\ ~CallbackLockHeld
  BY DEF GtkInit, FrameInit, CallbackLockHeld
<1>2. ~registered /\ ~CallbackLockHeld /\ [GtkNext]_gtkVars
      => (~registered /\ ~CallbackLockHeld)'
  <2> SUFFICES ASSUME ~registered, ~CallbackLockHeld, [GtkNext]_gtkVars
               PROVE  ~registered' /\ ~CallbackLockHeld'
    OBVIOUS
  <2> USE DEF CallbackLockHeld
  <2>1. CASE Session
    BY <2>1 DEF Session, Publish, LockCallback, HostStart, HostStop
  <2>2. CASE UNCHANGED <<registered, mt>>
    BY <2>2
  <2>3. ASSUME ~Session
        PROVE  UNCHANGED <<registered, mt>>
    BY <2>3 DEF GtkNext, tick_cb, Drops, Drop, Map, Unmap, Suspend, Dispose, gtkVars, frameVars
  <2> QED
    BY <2>1, <2>2, <2>3
<1>3. ~registered /\ ~CallbackLockHeld => NoCallAfterUnregister
  BY DEF NoCallAfterUnregister
<1>4. BuffersAreSafe /\ NoCallAfterUnregister => NothingIsUsedAfter
  BY DEF NothingIsUsedAfter
<1>5. GtkSpec => []NoCallAfterUnregister
  BY <1>1, <1>2, <1>3, PTL DEF GtkSpec
<1> QED
  BY <1>4, <1>5, FrameNoCallAfterUnregister, GtkBuffersAreSafe, PTL

-----------------------------------------------------------------------------
(* The display of Windows. *)

(* A serial is of one session, and there the display's is not ahead of the   *)
(* slot's.                                                                   *)
WinSerialsTell ==
  /\ {s_frame_serial, m_serial, sessions, m_session} \subseteq Nat
  /\ mt = "none" => s_frame_serial = 0
  /\ m_session <= sessions
  /\ m_session = sessions /\ mt # "none" => m_serial <= s_frame_serial

(* The thread draws with the device, or is in the fallback's loop.           *)
LoopIsOfMode == (rt \in {"loop", "draw", "lost"} => g_mode = "d3d") /\ (rt = "gdi" => g_mode = "gdi")

WinInv == WinSerialsTell /\ LoopIsOfMode /\ WinDisplay!AtRestIsCurrent

USE DEF WinDisplay!host, WinDisplay!feed, WinDisplay!widget, WinDisplay!render,
        WinSerialsTell, LoopIsOfMode, WinDisplay!AtRestIsCurrent

LEMMA WinInitInv ==
  ASSUME WinDisplay!WinInit
  PROVE  WinInv
BY DEF WinInv, WinDisplay!WinInit, WinDisplay!FrameInit

(* The slot moves on: its serial is then one the display does not know.      *)
LEMMA WinSessionStep ==
  ASSUME WinInv, WinDisplay!Session,
         UNCHANGED <<rt, g_mode, g_tex, g_gdi_fb, device_lost, invalid, on_screen>>
  PROVE  WinInv'
<1> USE DEF WinInv
<1>1. CASE \E p \in Pictures : WinDisplay!Publish(p)
  BY <1>1 DEF WinDisplay!Publish
<1>2. CASE WinDisplay!LockCallback
  BY <1>2 DEF WinDisplay!LockCallback
<1>3. CASE WinDisplay!HostStart
  BY <1>3 DEF WinDisplay!HostStart
<1>4. CASE WinDisplay!HostStop
  BY <1>4 DEF WinDisplay!HostStop
<1> QED
  BY <1>1, <1>2, <1>3, <1>4 DEF WinDisplay!Session

LEMMA RenderThreadStep ==
  ASSUME WinInv, WinDisplay!RenderThread
  PROVE  WinInv'
<1> USE DEF WinInv
<1>1. CASE WinDisplay!RenderCopy
  BY <1>1 DEF WinDisplay!RenderCopy
<1>2. CASE WinDisplay!RenderDraw
  BY <1>2 DEF WinDisplay!RenderDraw
<1>3. CASE WinDisplay!RenderLost
  BY <1>3 DEF WinDisplay!RenderLost, WinDisplay!Rebuild, WinDisplay!FallBack
<1>4. CASE WinDisplay!GdiCopy
  <2>1. on_screen' => invalid'
    BY <1>4 DEF WinDisplay!GdiCopy
  <2>2. /\ rt = "gdi" /\ g_mode = "gdi"
        /\ UNCHANGED <<rt, g_mode, s_frame, s_frame_serial, mt, sessions>>
        /\ m_serial' = s_frame_serial /\ m_session' = sessions /\ g_gdi_fb' = s_frame
    BY <1>4 DEF WinDisplay!GdiCopy
  <2> QED
    BY <2>1, <2>2
<1>5. CASE WinDisplay!RenderEnd
  BY <1>5 DEF WinDisplay!RenderEnd
<1> QED
  BY <1>1, <1>2, <1>3, <1>4, <1>5 DEF WinDisplay!RenderThread

LEMMA WinGuiStep ==
  ASSUME WinInv,
         \/ WinDisplay!Paint \/ WinDisplay!ShowOrHide \/ WinDisplay!Lose
         \/ WinDisplay!Destroy \/ WinDisplay!Destroyed \/ WinDisplay!Gone
  PROVE  WinInv'
<1> USE DEF WinInv, WinDisplay!frameVars
<1>1. CASE WinDisplay!Paint
  BY <1>1 DEF WinDisplay!Paint
<1>2. CASE WinDisplay!ShowOrHide
  BY <1>2 DEF WinDisplay!ShowOrHide
<1>3. CASE WinDisplay!Lose
  BY <1>3 DEF WinDisplay!Lose
<1>4. CASE WinDisplay!Destroy
  BY <1>4 DEF WinDisplay!Destroy
<1>5. CASE WinDisplay!Destroyed
  BY <1>5 DEF WinDisplay!Destroyed
<1>6. CASE WinDisplay!Gone
  BY <1>6 DEF WinDisplay!Gone, WinDisplay!winVars
<1> QED
  BY <1>1, <1>2, <1>3, <1>4, <1>5, <1>6

(* A display that takes its picture for the slot's shows that, or has a      *)
(* paint to come, whatever devices are lost, sessions end and start and      *)
(* windows hide and come back in between                                     *)
(* (frontends/windows/display.c, render_thread and gdi_loop).                  *)
THEOREM WinDisplayIsCurrent == WinDisplay!WinSpec => []WinDisplay!AtRestIsCurrent
<1>1. WinDisplay!WinInit => WinInv
  BY WinInitInv
<1>2. WinInv /\ [WinDisplay!WinNext]_WinDisplay!winVars => WinInv'
  <2>1. ASSUME WinInv, UNCHANGED WinDisplay!winVars
        PROVE  WinInv'
    BY <2>1 DEF WinInv, WinDisplay!winVars, WinDisplay!frameVars
  <2> QED
    BY <2>1, WinSessionStep, RenderThreadStep, WinGuiStep DEF WinDisplay!WinNext
<1>3. WinInv => WinDisplay!AtRestIsCurrent
  BY DEF WinInv
<1> QED
  BY <1>1, <1>2, <1>3, PTL DEF WinDisplay!WinSpec
=============================================================================
