\* Two requests, two processes and a fault between them.
SPECIFICATION Spec
CONSTANTS
  c1 = c1
  c2 = c2
  Hosts = {h1, h2}
  None = None
  MAX_FAST_RECONNECT = 3
  SlowAfter = 1
  MaxFaults = 1
  MaxCallbacks = 1
  Calls <- MCCalls
  Resource <- MCResource
  Reported <- MCReported
  Setters <- MCSetters
  Elsewhere <- MCElsewhere
SYMMETRY HostSymmetry
INVARIANTS
  TypeOK
  
  CookiesGoOnce
PROPERTIES
  OwnCookies
