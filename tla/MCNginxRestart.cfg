SPECIFICATION Safety
CONSTANTS
  Resolvers = {"10.0.0.10"}
  Settings <- MCSettings
  Usable = {"kubeconfig", "in-cluster"}
  Names <- TwoNames
  Configs <- TwoConfigs
  MaxFaults = 1
INVARIANTS
  TypeOK
  SettledServesCluster
  CommandLineWins
