-------------------------------- MODULE Irq --------------------------------
(***************************************************************************)
(* The interrupt line of the console's custom chip (core/astro/machine.c,   *)
(* the registers in video.c) and the CPU that samples it (z80/z80.h).       *)
(*                                                                          *)
(* The chip raises the line at the start of a scanline; the CPU looks at it *)
(* a tick late, and acts only where an instruction ends. Two modes: hold    *)
(* until acknowledged, with a deadline at the end of the frame, and hold    *)
(* for one instruction. Time is in CPU ticks, and the beam in dots. An      *)
(* instruction is a length and what it does to the line or to the CPU's     *)
(* flip-flop.                                                               *)
(***************************************************************************)
EXTENDS Integers

CONSTANTS
  DotsPerTick, DotsPerLine, LinesPerFrame,  \* 4, 455 and 262
  VertOffset,          \* screen line of the chip's line 0: 22
  Lengths,             \* ticks of an instruction
  EntryTicks,          \* ticks of an interrupt's entry: 19
  OutTicks             \* ticks of an OUT, the access three before its last

\* A line is longer than a tick, and an instruction than the ticks of its fetch.
ASSUME TimesAssumption ==
  /\ DotsPerTick \in Nat \ {0} /\ DotsPerLine \in Nat /\ DotsPerLine > DotsPerTick
  /\ LinesPerFrame \in Nat \ {0} /\ VertOffset \in Nat
  /\ Lengths \subseteq Nat \ 0..3 /\ EntryTicks \in Nat \ 0..3 /\ OutTicks \in Nat \ 0..3

VARIABLES
  (* machine.c *)
  irq_asserted, irq_one_instr,
  off_dots,            \* dots until irq_off_dot, or None
  scanline, line_dot,
  phase,               \* "start" of a scanline, or in the "line"
  int_pin,             \* Z80_INT in m->pins
  (* the chip's registers *)
  enabled, one_mode,   \* bits 3 and 2 of interrupt_enabl
  interrupt_scanline,
  (* the CPU *)
  iff, int_bits,
  insn, left,          \* what runs, and its ticks to come
  (* history *)
  age,                 \* ticks since the line was raised, to AgeCap
  owed,                \* a raise no entry has answered
  missed               \* a line let go at a boundary the CPU would have taken it

line == <<irq_asserted, irq_one_instr, off_dots>>
registers == <<enabled, one_mode, interrupt_scanline>>
cpu == <<iff, int_bits, insn, left>>
history == <<age, owed, missed>>
irqVars == <<line, scanline, line_dot, phase, int_pin, registers, cpu, history>>

None == -1
AgeCap == 2
FrameDots == LinesPerFrame * DotsPerLine
Insns == {"plain", "ei", "di", "out", "entry"}

IrqTypeOK ==
  /\ irq_asserted \in BOOLEAN /\ irq_one_instr \in BOOLEAN
  /\ off_dots \in None..FrameDots
  /\ scanline \in 0..(LinesPerFrame - 1)
  /\ line_dot \in 0..(DotsPerLine + DotsPerTick - 1)
  /\ phase \in {"start", "line"} /\ int_pin \in BOOLEAN
  /\ enabled \in BOOLEAN /\ one_mode \in BOOLEAN
  /\ interrupt_scanline \in 0..(LinesPerFrame - 1)
  /\ iff \in BOOLEAN /\ int_bits \in BOOLEAN
  /\ insn \in Insns /\ left \in Nat
  /\ age \in 0..AgeCap /\ owed \in BOOLEAN /\ missed \in BOOLEAN

\* astro_machine_init: everything cleared, the CPU at its first fetch.
IrqInit ==
  /\ irq_asserted = FALSE /\ irq_one_instr = FALSE /\ off_dots = None
  /\ scanline = 0 /\ line_dot = 0 /\ phase = "start" /\ int_pin = FALSE
  /\ enabled = FALSE /\ one_mode = FALSE /\ interrupt_scanline = 0
  /\ iff = FALSE /\ int_bits = FALSE
  /\ insn = "plain" /\ left = 1
  /\ age = AgeCap /\ owed = FALSE /\ missed = FALSE

-----------------------------------------------------------------------------
(* The chip. *)

AstroLine == (scanline - VertOffset) % LinesPerFrame

Fires == enabled /\ AstroLine = interrupt_scanline

\* astro_machine_run_scanline up to its ticks
LineStart ==
  /\ phase = "start"
  /\ phase' = "line"
  /\ IF Fires
       THEN /\ irq_asserted' = TRUE
            /\ irq_one_instr' = one_mode
            /\ off_dots' = IF one_mode THEN None
                             ELSE (LinesPerFrame - scanline) * DotsPerLine - line_dot
            /\ age' = 0 /\ owed' = TRUE
       ELSE UNCHANGED <<line, age, owed>>
  /\ UNCHANGED <<scanline, line_dot, int_pin, registers, cpu, missed>>

\* ... and after them
LineEnd ==
  /\ phase = "line" /\ line_dot >= DotsPerLine
  /\ phase' = "start"
  /\ line_dot' = line_dot - DotsPerLine
  /\ scanline' = (scanline + 1) % LinesPerFrame
  /\ UNCHANGED <<line, int_pin, registers, cpu, history>>

-----------------------------------------------------------------------------
(* The CPU. *)

Fetches == left = 1

\* _z80_fetch with the interrupt sampled: EI fetches with interrupts still off,
\* DI with them off already.
Enters == Fetches /\ int_bits /\ iff /\ insn \notin {"ei", "di"}

\* z80_opdone: the next instruction's opcode fetch, not an interrupt's entry
OpDone == Fetches /\ ~Enters

\* INTACK is in the second tick of the entry, the flip-flop goes in the first.
Acknowledges == insn = "entry" /\ left = EntryTicks - 1
Writes == insn = "out" /\ left = 4

TicksOf(i) ==
  CASE i = "entry" -> {EntryTicks}
    [] i = "out" -> {OutTicks}
    [] i \in {"ei", "di"} -> {4}
    [] i = "plain" -> Lengths

\* z80_tick. It sees the pin as the last tick of the machine left it.
CpuTicks ==
  /\ int_bits' = int_pin
  /\ iff' = \/ iff /\ ~(insn = "entry" /\ left = EntryTicks) /\ ~(Fetches /\ insn = "di")
            \/ Fetches /\ insn = "ei"
  /\ IF ~Fetches
       THEN left' = left - 1 /\ UNCHANGED insn
       ELSE \E i \in IF Enters THEN {"entry"} ELSE Insns \ {"entry"} :
              insn' = i /\ left' \in TicksOf(i)

\* astro_video_register_w of 0x0D, 0x0E or 0x0F
RegisterWrite ==
  \/ UNCHANGED registers
  \/ enabled' \in BOOLEAN /\ one_mode' \in BOOLEAN /\ UNCHANGED interrupt_scanline
  \/ interrupt_scanline' \in 0..(LinesPerFrame - 1) /\ UNCHANGED <<enabled, one_mode>>

Older == IF age < AgeCap THEN age + 1 ELSE age

\* Faulty: the acknowledge leaves the line up.
LineAfterNoAck ==
  LET expired == off_dots # None /\ off_dots <= DotsPerTick
      let_go == OpDone /\ irq_one_instr /\ ~Writes
  IN  /\ irq_asserted' = (irq_asserted /\ ~Writes /\ ~expired /\ ~let_go)
      /\ irq_one_instr' = (irq_one_instr /\ ~Writes /\ ~let_go)
      /\ off_dots' = IF off_dots = None \/ Writes \/ expired THEN None
                       ELSE off_dots - DotsPerTick

\* Faulty: the deadline is compared before the dots of the tick are counted.
LineAfterLate ==
  LET answered == Acknowledges \/ Writes
      expired == off_dots # None /\ off_dots <= 0
      let_go == OpDone /\ irq_one_instr /\ ~answered
  IN  /\ irq_asserted' = (irq_asserted /\ ~answered /\ ~expired /\ ~let_go)
      /\ irq_one_instr' = (irq_one_instr /\ ~answered /\ ~let_go)
      /\ off_dots' = IF off_dots = None \/ answered \/ expired THEN None
                       ELSE off_dots - DotsPerTick

\* What the tick does to the line, in machine_tick's order: the acknowledge or
\* the register write, the deadline, the end of a one-instruction line.
LineAfter ==
  LET answered == Acknowledges \/ Writes
      expired == off_dots # None /\ off_dots <= DotsPerTick
      let_go == OpDone /\ irq_one_instr /\ ~answered
  IN  /\ irq_asserted' = (irq_asserted /\ ~answered /\ ~expired /\ ~let_go)
      /\ irq_one_instr' = (irq_one_instr /\ ~answered /\ ~let_go)
      /\ off_dots' = IF off_dots = None \/ answered \/ expired THEN None
                       ELSE off_dots - DotsPerTick

\* machine_tick
Tick ==
  /\ phase = "line" /\ line_dot < DotsPerLine
  /\ CpuTicks
  /\ IF Writes THEN RegisterWrite ELSE UNCHANGED registers
  /\ LineAfter
  /\ int_pin' = irq_asserted'
  /\ line_dot' = line_dot + DotsPerTick
  /\ age' = Older
  /\ owed' = (owed /\ ~Enters /\ ~Writes /\ ~(OpDone /\ irq_one_instr))
  /\ missed' = (missed \/ (OpDone /\ irq_one_instr /\ iff /\ insn \notin {"ei", "di"}))
  /\ UNCHANGED <<scanline, phase>>

\* astro_machine_redirect: the debugger, in the hook of the boundary just
\* reached, puts the next instruction elsewhere.
Redirect ==
  /\ phase = "line" /\ insn # "entry" /\ left \in TicksOf(insn)
  /\ int_bits' = FALSE
  /\ UNCHANGED <<line, scanline, line_dot, phase, int_pin, registers, iff, insn,
                 left, history>>

\* astro_machine_reset, between two frames. The line's registers stay.
Reset ==
  /\ phase = "start" /\ scanline = 0
  /\ irq_asserted' = FALSE /\ irq_one_instr' = FALSE /\ off_dots' = None
  /\ int_pin' = FALSE /\ int_bits' = FALSE /\ iff' = FALSE
  /\ insn' = "plain" /\ left' = 1
  /\ owed' = FALSE /\ age' = AgeCap
  /\ UNCHANGED <<scanline, line_dot, phase, registers, missed>>

IrqNext == LineStart \/ LineEnd \/ Tick \/ Redirect \/ Reset

IrqSpec == IrqInit /\ [][IrqNext]_irqVars

-----------------------------------------------------------------------------
\* Each raise has at most one answer, in time. No entry is taken for a raise that
\* was entered, withdrawn or let go, though the CPU looks at the line a tick
\* late. An instruction that ends with interrupts on ends in an entry, when the
\* line was raised two ticks before or earlier. A frame begins with no line held
\* over from the one before: "backstop at vblank end".
OneAnswerPerRaise ==
  [][/\ Tick /\ Enters => owed
     /\ Tick /\ OpDone /\ iff /\ insn \notin {"ei", "di"} /\ irq_asserted
          => age < AgeCap
     /\ LineEnd /\ scanline' = 0 /\ irq_asserted => irq_one_instr]_irqVars

\* "the CPU sampled the line during the instruction that just finished; release
\* it now": no line is let go unsampled, with interrupts on.
OneInstrIsSampled == ~missed
=============================================================================
