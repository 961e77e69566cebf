\* Three processes and six faults: every wait of scheduleReconnect occurs.
SPECIFICATION ConnectionSpec
CONSTANTS
  Hosts = {h1, h2, h3}
  None = None
  MAX_FAST_RECONNECT = 10
  SlowAfter = 5
  MaxFaults = 6
  MaxCallbacks = 2
INVARIANTS
  ConnectionTypeOK
  OnePort
  NeverStuck
PROPERTIES
  OnlyThrowsSlowDown
  Recovers
\* A connected system with no faults left is at rest.
CHECK_DEADLOCK FALSE
