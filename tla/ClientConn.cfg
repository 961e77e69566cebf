\* Every framing, and a limit of three requests of one TLS connection.
SPECIFICATION Spec
CONSTANTS
  Plans <- MCPlans
  MaxRequests = 3
INVARIANTS
  TypeOK
  Faithful
  OwnBody
PROPERTIES
  WaitsForTheMissing
  Ends
  Answered
\* The connection is closed.
CHECK_DEADLOCK FALSE
