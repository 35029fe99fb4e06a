SPECIFICATION Safety
CONSTANTS
  Resolvers = {"10.0.0.10"}
  SignalFails = FALSE
  MissedDeletes = FALSE
  cfg <- MCcfg
  Keys <- MCKeys
  Services <- HostServices
  EndpointStates <- PodComesAndGoes
  NodeNames = {"n1"}
  NodeVersions <- OneVersion
INVARIANT OnlyRunningHosts
