SPECIFICATION ClaimsSpec
CONSTANTS
  Programs = {"gtk"}
  Targets = {trigger1}
  SysActs = {}
  ResetGame = game
  KnobTargets = {}
  Buttons = {0}
  Editable = {trigger1}
  NoTarget = NoTarget
  Keysyms = {KeyR}
  NoKey = NoKey
  KeyR = KeyR
  F9 = F9
  PadInputs = {0}
  NoPad = NoPad
  Players = {player1}
  EveryPad = EveryPad
  scope_of <- ClaimsScope
  DefaultKey <- ClaimsKey
  DefaultPad <- ClaimsPad
INVARIANT WaitsForCapture
