SPECIFICATION Spec
INVARIANTS
  HooksTakeTheMutex
