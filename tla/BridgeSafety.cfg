\* Two concurrent requests and every fault.
SPECIFICATION Spec
CONSTANTS
  c1 = c1
  c2 = c2
  Calls <- MCCalls
  ReqLen <- MCReqLen
  BodyLen <- MCBodyLen
  Faults = {"port", "writer", "fetch", "client", "slow"}
INVARIANTS
  TypeOK
  BodyAssembled
  OwnResponse
  HeaderEvtAccurate
  StreamsTold
  EndMeansWhole
PROPERTIES
  ImplementsContract
\* The system comes to rest when every call has returned.
CHECK_DEADLOCK FALSE
