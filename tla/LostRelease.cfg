SPECIFICATION ClaimsSpec
CONSTANTS
  Programs = {"gtk", "kde"}
  Targets = {trigger1}
  SysActs = {}
  ResetGame = game
  KnobTargets = {}
  Buttons = {0}
  Editable = {}
  NoTarget = NoTarget
  Keysyms = {KeyR}
  NoKey = NoKey
  KeyR = KeyR
  F9 = F9
  PadInputs = {}
  NoPad = NoPad
  Players = {player1}
  EveryPad = EveryPad
  scope_of <- ClaimsScope
  DefaultKey <- ClaimsKey
  DefaultPad <- ClaimsPad
INVARIANT OneLetsGo
