SPECIFICATION Spec
CONSTANTS
  Resolvers = {"10.0.0.10"}
  Settings <- MCSettings
  Usable = {"kubeconfig", "in-cluster"}
  Names <- OneName
  Configs <- OneConfigs
  MaxFaults = 2
INVARIANT SettledServesCluster
PROPERTY Recovers
