\* Three pieces each way through buffers of two.
SPECIFICATION Spec
CONSTANTS
  Openings <- MCOpenings
  MaxData = 3
  Cap = 2
INVARIANTS
  TypeOK
  NothingLost
PROPERTIES
  ImplementsContract
  Arrives
  SessionEnds
\* The session is over, or two stubborn sides wait for each other.
CHECK_DEADLOCK FALSE
