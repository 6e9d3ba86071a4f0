SPECIFICATION IrqSpec
CONSTANTS
  DotsPerTick = 4
  DotsPerLine = 35
  LinesPerFrame = 3
  VertOffset = 1
  Lengths = {4, 5, 7}
  EntryTicks = 6
  OutTicks = 5
INVARIANTS
  OneInstrIsSampled
