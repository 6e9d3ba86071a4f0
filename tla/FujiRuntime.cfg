SPECIFICATION RuntimeSpec
CONSTANTS
  Host = Host
  Threads = {t1, t2}
  Real = Real
  NoFd = NoFd
INVARIANTS
  OneRuntime
CHECK_DEADLOCK FALSE
