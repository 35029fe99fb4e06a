SPECIFICATION Safety
CONSTANTS
  Resolvers = {"10.0.0.10"}
  SignalFails = FALSE
  MissedDeletes = FALSE
  cfg <- MCcfg
  Keys <- MCKeys
  Services <- PodServices
  EndpointStates <- ComingPods
  NodeNames = {}
  NodeVersions <- OneVersion
INVARIANTS
  TypeOK
  ServedAsStored
  DeletedIsGone
PROPERTY
  QueuesArePendingSets
\* A panic ends the process.
CHECK_DEADLOCK FALSE
