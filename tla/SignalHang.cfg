SPECIFICATION FairSpec
CONSTANTS
  Clients = {c1, c2}
  Main = Main
  None = None
  MaxSignals = 1
\* The server stops by design, and hangs when its signal handler does.
CHECK_DEADLOCK FALSE
PROPERTY
  SignalEndsServer
