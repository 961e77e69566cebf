\* One failing fetch is enough.
SPECIFICATION Spec
CONSTANTS
  c1 = c1
  c2 = c2
  Calls <- MCCalls
  ReqLen <- ShortReqLen
  BodyLen <- ShortBodyLen
  Faults = {"fetch"}
INVARIANTS
  ClosedMeansWhole
\* The system comes to rest when every call has returned.
CHECK_DEADLOCK FALSE
