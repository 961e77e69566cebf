\* Two threads and two hosts, three connections: two that meet, one that
\* comes after them.
SPECIFICATION Spec
CONSTANTS
  Threads = {t1, t2}
  Hosts = {h1, h2}
  MaxConns = 3
INVARIANTS
  TypeOK
  SignedByCAIfCalm
  FailsOnlyDisturbed
PROPERTIES
  FinishedIsKept
\* The bound on connections ends a behaviour.
CHECK_DEADLOCK FALSE
