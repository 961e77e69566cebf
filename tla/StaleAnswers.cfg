\* A worker that outlives a host process.
SPECIFICATION Spec
CONSTANTS
  c1 = c1
  c2 = c2
  Hosts = {h1, h2}
  None = None
  MAX_FAST_RECONNECT = 3
  SlowAfter = 1
  MaxFaults = 1
  MaxCallbacks = 1
  Calls <- MCCalls
  Resource <- MCResource
  Reported <- MCReported
  Setters <- MCSetters
  Elsewhere <- MCElsewhere
INVARIANTS
  AnswerIsOwn
