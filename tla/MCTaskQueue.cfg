SPECIFICATION Spec
CONSTANTS
  Keys = {k1, k2, k3}
  Producers = {p1, p2}
  NoKey = NoKey
INVARIANTS
  TypeOK
  QueueConsistent
  NoLostUpdate
  ShutdownStopsSync
PROPERTIES
  Settles
  ShutdownReturns
  ImplementsPendingSet
\* A panic ends the process.
CHECK_DEADLOCK FALSE
