SPECIFICATION Safety
CONSTANTS
  Resolvers = {"10.0.0.10"}
  SignalFails = FALSE
  MissedDeletes = TRUE
  cfg <- MCcfg
  Keys <- MCKeys
  Services <- AllServices
  EndpointStates <- OnePod
  NodeNames = {"n1"}
  NodeVersions <- MCNodeVersions
INVARIANTS
  CandidatesFollowCluster
  NoStaleNode
