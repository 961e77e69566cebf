\* Liveness.  A client that fails only ends its call sooner.
SPECIFICATION Spec
CONSTANTS
  c1 = c1
  c2 = c2
  Calls <- MCCalls
  ReqLen <- ShortReqLen
  BodyLen <- ShortBodyLen
  Faults = {"port", "writer", "fetch", "slow"}
PROPERTIES
  CallReturns
\* The system comes to rest when every call has returned.
CHECK_DEADLOCK FALSE
