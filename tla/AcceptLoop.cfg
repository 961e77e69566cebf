\* Three clients and one permit: one is served, one is in its way, one tunnels.
SPECIFICATION Spec
CONSTANTS
  Conns = {a1, a2, a3}
  Proxy = Proxy
  MaxInflight = 1
  MaxWorkers = 1
INVARIANTS
  TypeOK
  PermitsConserved
  HeldByTheLiving
PROPERTIES
  AdmittedFinishes
  Accepted
  ShutdownEndsLoop
\* The process ends.
CHECK_DEADLOCK FALSE
