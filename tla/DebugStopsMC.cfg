SPECIFICATION Spec
CONSTANTS
  MaxAddr = 9
  MaxPort = 1
  MaxBp = 2
  MaxId = 2
  Program <- MCProgram
  Handler = 8
  MaxDepth = 3
  Lines = 2
  MaxCount = 2
  Entries <- MCEntries
  Places = {7}
VIEW Relevant
INVARIANTS
  GoalsAreMet
PROPERTIES
  ReturnIsNotMissed
  WatchIsNotMissed
