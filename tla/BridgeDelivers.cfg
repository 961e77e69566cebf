\* No faults: whole answers, and nothing else to end a call.
SPECIFICATION HealthySpec
CONSTANTS
  c1 = c1
  c2 = c2
  Calls <- MCCalls
  ReqLen <- LongReqLen
  BodyLen <- LongBodyLen
  Faults = {}
PROPERTIES
  Delivered
\* The system comes to rest when every call has returned.
CHECK_DEADLOCK FALSE
