SPECIFICATION ShellSpec
CONSTANTS
  Parts = {"session", "link", "pads", "gtk", "kde", "win", "mac", "pages"}
  game = game
  trigger1 = trigger1
  trigger2 = trigger2
  knob1 = knob1
  player1 = player1
  player2 = player2
  backspace = backspace
  KeyR = KeyR
  F9 = F9
  LeftShift = LeftShift
  RightShift = RightShift
  NoAddr = NoAddr
  NoKey = NoKey
  NoPad = NoPad
  EveryPad = EveryPad
  NoDevice = NoDevice
  NoTarget = NoTarget
  Targets <- MCTargets
  Keysyms = {backspace}
  PadInputs = {0, 130}
  Players = {player1, player2}
  scope_of <- MCScope
  DefaultKey <- MCDefaultKey
  DefaultPad <- MCDefaultPad
  SysActs = {game}
  KnobTargets = {knob1}
  Buttons = {0}
  Axes = {130}
  Devices = {stick, arcade}
  Seated = {player1}
  Editable = {game}
  MaxAddr = 2
  Rom = {0}
  Screen = {2}
  Places = {1, 2}
  Names = {1}
  Spells <- MCSpells
  MaxBp = 2
  MaxId = 2
  WindowRows = 2
  Above = 1
  MacRows = 1
  Topics <- MCTopics
  Peers = {BuiltIn, Other}
  BuiltIn = BuiltIn
  Other = Other
  NoPeer = NoPeer
  NoAddress = NoAddress
  MaxRequests = 2
  MaxPushes = 1
  NoFile = NoFile
  Cut = Cut
  RenameReplaces = FALSE
INVARIANTS
  DialsWhatItSays
  NothingIsLeft
  ReplyIsAccountedFor
  OneTargetPerInput
  SavedLoadsBack
  NothingSticks
  MapModeIsTrue
  EditsHitWhatIsShown
PROPERTIES
  FileIsWhole
  ButtonsFireOnce
