SPECIFICATION Spec
CONSTANTS
  Resolvers = {"10.0.0.10"}
  Keys <- MCKeys
  SignalFails = TRUE
  Nodes <- MCNodes
  Specs <- MCSpecs
INVARIANTS
  TypeOK
  AllSetFollowsNodes
  RunningIsOnDisk
