SPECIFICATION CoreFairSpec
CONSTANTS
  Parts = {"engine", "switches", "knob"}
  MaxCount = 2
  InsnsPerFrame = 2
  GenMod = 3
  fire = fire
  dec = dec
  inc = inc
  game = game
  config = config
  backspace = backspace
  space = space
  pad1 = pad1
  NoKey = NoKey
  NoPad = NoPad
  EveryPad = EveryPad
  Targets <- MCTargets
  Keysyms = {backspace, space}
  PadInputs = {}
  Players = {pad1}
  scope_of <- MCScope
  DefaultKey <- MCDefaultKey
  DefaultPad <- MCDefaultPad
  Switches = {fire}
  KnobDec = dec
  KnobInc = inc
  ResetGame = game
  ResetConfig = config
  PadSlots = {pad1}
  KnobMax = 1
  MinMove = 1
  TickTimes = {3}
  CtrlStates = {FALSE, TRUE}
  PanelTargets = {fire}
  PadTargets = {fire, dec}
  Editable = {inc}
INVARIANTS
  StoppedMeansParked
  NoLostWakeup
  NothingStale
  StepIsExact
  ResetStaysInSession
  MachineSeesUnion
  HoldsAreOwed
  KnobIsFollowed
PROPERTIES
  StopIsPrompt
  ControlSpec
  HostStopReturns
  RequestsAreServed
  PostsAreFired
