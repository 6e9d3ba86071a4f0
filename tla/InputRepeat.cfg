SPECIFICATION CoreSpec
CONSTANTS
  Parts = {"switches"}
  MaxCount = 2
  InsnsPerFrame = 2
  GenMod = 3
  fire = fire
  dec = dec
  inc = inc
  game = game
  config = config
  backspace = backspace
  space = space
  pad1 = pad1
  NoKey = NoKey
  NoPad = NoPad
  EveryPad = EveryPad
  Targets <- MCTargets
  Keysyms = {backspace, space}
  PadInputs = {}
  Players = {pad1}
  scope_of <- MCScope
  DefaultKey <- MCDefaultKey
  DefaultPad <- MCDefaultPad
  Switches = {fire}
  KnobDec = dec
  KnobInc = inc
  ResetGame = game
  ResetConfig = config
  PadSlots = {pad1}
  KnobMax = 1
  MinMove = 1
  TickTimes = {3}
  CtrlStates = {FALSE}
  PanelTargets = {fire}
  PadTargets = {fire, dec}
  Editable = {}
PROPERTIES
  RepeatPostsNothing
