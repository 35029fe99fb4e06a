SPECIFICATION Spec
CONSTANTS
  Resolvers = {"10.0.0.10"}
  SignalFails = FALSE
  MissedDeletes = FALSE
  cfg <- MCcfg
  Keys <- MCKeys
  Services <- OnePortServices
  EndpointStates <- PodComesAndGoes
  NodeNames = {}
  NodeVersions <- OneVersion
PROPERTIES
  ComesToRest
  DeletionTakesEffect
