SPECIFICATION Spec
INVARIANTS
  StopsReachTheConsole
