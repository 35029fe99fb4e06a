SPECIFICATION Spec
CONSTANTS
  Resolvers = {"10.0.0.10"}
  Configs <- MCConfigs
  Services <- MCServices
  PodSets <- MCPodSets
  NodeMaps <- MCNodeMaps
  ContainerPort <- MCContainerPort
INVARIANTS
  TrafficReachesService
  ManagedGetsTopology
  GeneratedIsAccepted
  AffinityPartition
CHECK_DEADLOCK FALSE
